------------------------- MODULE Connections_proofs -------------------------
(***************************************************************************)
(* Theorems about Connections, for any number of users, connections,       *)
(* segments and slots, and any order of their steps.                       *)
(***************************************************************************)
EXTENDS Connections, TLAPS

(***************************************************************************)
(* What the phase of a connection says about the rest of it.               *)
(***************************************************************************)
Bound == Listening \cup {"added", "up", "closing"}

ConnOK(r) ==
  /\ r.phase # "gone" => r.user \in Users
  /\ r.assoc <=> r.phase \in Bound
  /\ r.phase \in Listening \cup {"added", "closing"} => r.role = "down"
  /\ r.phase = "up" => r.role = "up"
  /\ r.phase \in {"busy", "denied"} => r.seg # NoSegment
  /\ r.seg # NoSegment => r.phase \in {"busy", "denied", "failing"}

Shape == \A c \in Conns : ConnOK(conn[c])

\* A user has a download because a connection of his has one.
RunningBacked ==
  \A u \in running : \E c \in Conns : conn[c].user = u /\ Downloading(c)

IInv ==
  /\ TypeOK
  /\ Shape
  /\ ActiveIffAssociated
  /\ IdlersListen
  /\ RunningBacked
  /\ NoWishForgotten

-----------------------------------------------------------------------------
LEMMA InitInv == Init => IInv
<1>. SUFFICES ASSUME Init  PROVE IInv  OBVIOUS
<1>. USE ConnectionsAssumption DEF Init
<1>1. Gone \in Conn /\ ConnOK(Gone)
  BY DEF Gone, Conn, Phases, Handshake, ConnOK, Bound, Listening
<1>2. TypeOK  BY <1>1 DEF TypeOK
<1>3. Shape  BY <1>1 DEF Shape
<1>4. ActiveIffAssociated
  BY DEF ActiveIffAssociated, Associated, Gone, NoItem
<1>5. IdlersListen /\ RunningBacked /\ NoWishForgotten
  BY DEF IdlersListen, RunningBacked, NoWishForgotten
<1>. QED  BY <1>2, <1>3, <1>4, <1>5 DEF IInv

(***************************************************************************)
(* Types and phases.                                                       *)
(***************************************************************************)
ConnsOK == conn \in [Conns -> Conn] /\ Shape

LEMMA GoneFact == Gone \in Conn /\ ConnOK(Gone)
BY ConnectionsAssumption DEF Gone, Conn, Phases, Handshake, ConnOK, Bound, Listening

\* A step of one connection.
LEMMA OneConn ==
  ASSUME ConnsOK, NEW c \in Conns, NEW r \in Conn, ConnOK(r), conn' = [conn EXCEPT ![c] = r]
  PROVE  ConnsOK'
BY DEF ConnsOK, Shape

LEMMA PutConn ==
  ASSUME ConnsOK, NEW c \in Conns, conn' = Put(c)
  PROVE  ConnsOK'
BY GoneFact, OneConn DEF Put

\* A step that changes the phase only.
LEMMA MovedConn ==
  ASSUME ConnsOK, NEW c \in Conns, NEW p \in Phases, conn' = Moved(c, p),
         ConnOK([conn[c] EXCEPT !.phase = p])
  PROVE  ConnsOK'
<1>. DEFINE r == [conn[c] EXCEPT !.phase = p]
<1>1. conn[c] \in Conn  BY DEF ConnsOK
<1>2. r \in Conn  BY <1>1 DEF Conn
<1>3. conn' = [conn EXCEPT ![c] = r]  BY DEF Moved
<1>. QED  BY <1>2, <1>3, OneConn

(***************************************************************************)
(* Steps of users, hubs, the queue and the timer leave connections what    *)
(* they are.                                                               *)
(***************************************************************************)
LEMMA UserConns ==
  ASSUME ConnsOK, NEW u \in Users, UserNext(u)
  PROVE  /\ conn' = [d \in Conns |-> conn'[d]]
         /\ \A d \in Conns : \/ conn'[d] = conn[d]
                             \/ conn'[d] = [conn[d] EXCEPT !.ours = FALSE]
                             \/ conn'[d] = [conn[d] EXCEPT !.woken = TRUE]
<1>1. UNCHANGED conn \/ PutCQI(u) \/ CheckIdle(u)
  <2>1. CASE UserComes(u) \/ UserConnected(u) \/ UserGoes(u) \/ AddSource(u) \/ RemoveSource(u)
    BY <2>1 DEF UserComes, UserConnected, UserGoes, AddSource, RemoveSource
  <2>2. CASE Forced(u) \/ SecondAttempt(u) \/ SecondTimeout(u)
    BY <2>2 DEF Forced, SecondAttempt, SecondTimeout
  <2>3. CASE GetDownloadConnection(u) \/ SecondOffline(u) \/ SecondUnwanted(u)
    BY <2>3 DEF GetDownloadConnection, SecondOffline, SecondUnwanted
  <2>. QED  BY <2>1, <2>2, <2>3 DEF UserNext
<1>. QED  BY <1>1 DEF PutCQI, CheckIdle, ConnsOK

LEMMA UserFields ==
  ASSUME ConnsOK, NEW u \in Users, UserNext(u)
  PROVE  \A d \in Conns :
           /\ conn'[d].phase = conn[d].phase /\ conn'[d].user = conn[d].user
           /\ conn'[d].assoc = conn[d].assoc /\ conn'[d].role = conn[d].role
           /\ conn'[d].seg = conn[d].seg
<1>. SUFFICES ASSUME NEW d \in Conns
              PROVE  /\ conn'[d].phase = conn[d].phase /\ conn'[d].user = conn[d].user
                     /\ conn'[d].assoc = conn[d].assoc /\ conn'[d].role = conn[d].role
                     /\ conn'[d].seg = conn[d].seg
  OBVIOUS
<1>1. conn[d] \in Conn  BY DEF ConnsOK
<1>2. \/ conn'[d] = conn[d]
      \/ conn'[d] = [conn[d] EXCEPT !.ours = FALSE]
      \/ conn'[d] = [conn[d] EXCEPT !.woken = TRUE]
  BY UserConns
<1>. QED  BY <1>1, <1>2 DEF Conn

LEMMA ConnsStep == ASSUME ConnsOK, IdlersListen, Next  PROVE  ConnsOK'
<1>1. CASE UNCHANGED conn
  BY <1>1 DEF ConnsOK, Shape
<1>2. ASSUME NEW u \in Users, UserNext(u)  PROVE ConnsOK'
  <2>1. ASSUME NEW d \in Conns
        PROVE  conn'[d] \in Conn /\ ConnOK(conn'[d])
    <3>1. conn[d] \in Conn /\ ConnOK(conn[d])  BY DEF ConnsOK, Shape
    <3>2. /\ [conn[d] EXCEPT !.ours = FALSE] \in Conn
          /\ [conn[d] EXCEPT !.woken = TRUE] \in Conn
          /\ ConnOK([conn[d] EXCEPT !.ours = FALSE])
          /\ ConnOK([conn[d] EXCEPT !.woken = TRUE])
      BY <3>1 DEF Conn, ConnOK
    <3>. QED  BY <1>2, <3>1, <3>2, UserConns
  <2>. QED  BY <1>2, <2>1, UserConns DEF ConnsOK, Shape
<1>3. ASSUME NEW p \in Priorities, SetPriority(p)  PROVE ConnsOK'
  BY <1>1, <1>3 DEF SetPriority
<1>4. ASSUME NEW c \in Conns, ConnNext(c)  PROVE ConnsOK'
  <2>. DEFINE r == conn[c]
  <2>. USE DEF At
  <2>1. r \in Conn /\ ConnOK(r)  BY DEF ConnsOK, Shape
  <2>2. ASSUME NEW u \in Users, Connected(c, u)  PROVE ConnsOK'
    <3>1. PICK phase \in {"nick", "inf"}, ours \in BOOLEAN :
            conn' = [conn EXCEPT ![c] = [Gone EXCEPT !.phase = phase, !.user = u, !.ours = ours]]
      BY <2>2 DEF Connected
    <3>2. /\ [Gone EXCEPT !.phase = phase, !.user = u, !.ours = ours] \in Conn
          /\ ConnOK([Gone EXCEPT !.phase = phase, !.user = u, !.ours = ours])
      BY <3>1, ConnectionsAssumption
      DEF Gone, Conn, Phases, Handshake, ConnOK, Bound, Listening
    <3>. QED  BY <3>1, <3>2, OneConn
  <2>3. ASSUME MyNick(c)  PROVE ConnsOK'
    <3>1. \/ conn' = [conn EXCEPT ![c] = [r EXCEPT !.phase = "direction", !.role = "down"]]
          \/ conn' = [conn EXCEPT ![c] = [r EXCEPT !.phase = "direction", !.role = "up"]]
          \/ conn' = Put(c)
      BY <2>3 DEF MyNick
    <3>2. [r EXCEPT !.phase = "direction", !.role = "down"] \in Conn /\ ConnOK([r EXCEPT !.phase = "direction", !.role = "down"])
      BY <2>1, <2>3 DEF MyNick, Conn, Phases, Handshake, ConnOK, Bound, Listening
    <3>3. [r EXCEPT !.phase = "direction", !.role = "up"] \in Conn /\ ConnOK([r EXCEPT !.phase = "direction", !.role = "up"])
      BY <2>1, <2>3 DEF MyNick, Conn, Phases, Handshake, ConnOK, Bound, Listening
    <3>. QED  BY <3>1, <3>2, <3>3, OneConn, PutConn
  <2>4. ASSUME Direction(c)  PROVE ConnsOK'
    <3>1. \/ conn' = [conn EXCEPT ![c] = [r EXCEPT !.phase = "key"]]
          \/ conn' = [conn EXCEPT ![c] = [r EXCEPT !.phase = "key", !.role = "up"]]
          \/ conn' = Put(c)
      BY <2>4 DEF Direction, Moved
    <3>2. [r EXCEPT !.phase = "key"] \in Conn /\ ConnOK([r EXCEPT !.phase = "key"])
      BY <2>1, <2>4 DEF Direction, Moved, Conn, Phases, Handshake, ConnOK, Bound, Listening
    <3>3. [r EXCEPT !.phase = "key", !.role = "up"] \in Conn /\ ConnOK([r EXCEPT !.phase = "key", !.role = "up"])
      BY <2>1, <2>4 DEF Direction, Moved, Conn, Phases, Handshake, ConnOK, Bound, Listening
    <3>. QED  BY <3>1, <3>2, <3>3, OneConn, PutConn
  <2>5. ASSUME INF(c)  PROVE ConnsOK'
    <3>1. \/ conn' = [conn EXCEPT ![c] = [r EXCEPT !.phase = "ready", !.role = "down"]]
          \/ conn' = [conn EXCEPT ![c] = [r EXCEPT !.phase = "ready", !.role = "up"]]
          \/ conn' = Put(c)
      BY <2>5 DEF INF
    <3>2. [r EXCEPT !.phase = "ready", !.role = "down"] \in Conn /\ ConnOK([r EXCEPT !.phase = "ready", !.role = "down"])
      BY <2>1, <2>5 DEF INF, Conn, Phases, Handshake, ConnOK, Bound, Listening
    <3>3. [r EXCEPT !.phase = "ready", !.role = "up"] \in Conn /\ ConnOK([r EXCEPT !.phase = "ready", !.role = "up"])
      BY <2>1, <2>5 DEF INF, Conn, Phases, Handshake, ConnOK, Bound, Listening
    <3>. QED  BY <3>1, <3>2, <3>3, OneConn, PutConn
  <2>6. ASSUME NEW e \in BOOLEAN, Failed(c, e)  PROVE ConnsOK'
    <3>1. \/ conn' = Put(c)
          \/ r.phase \in Listening /\ r.phase # "failing" /\ conn' = Moved(c, "failing")
      BY <2>6 DEF Failed, FailedDownload, AtRest, Handshake
    <3>2. r.phase \in Listening => "failing" \in Phases /\ ConnOK([r EXCEPT !.phase = "failing"])
      BY <2>1 DEF Conn, Phases, Handshake, ConnOK, Bound, Listening
    <3>. QED  BY <3>1, <3>2, PutConn, MovedConn
  <2>7. ASSUME RefuseConnection(c)  PROVE ConnsOK'
    <3>1. conn' = [conn EXCEPT ![c] = [r EXCEPT !.phase = "closing"]]
      BY <2>7 DEF RefuseConnection, Moved
    <3>2. [r EXCEPT !.phase = "closing"] \in Conn /\ ConnOK([r EXCEPT !.phase = "closing"])
      BY <2>1, <2>7 DEF RefuseConnection, Moved, Conn, Phases, Handshake, ConnOK, Bound, Listening
    <3>. QED  BY <3>1, <3>2, OneConn, PutConn
  <2>8. ASSUME EndData(c)  PROVE ConnsOK'
    <3>1. conn' = [conn EXCEPT ![c] = [r EXCEPT !.phase = "checking", !.seg = NoSegment]]
      BY <2>8 DEF EndData
    <3>2. [r EXCEPT !.phase = "checking", !.seg = NoSegment] \in Conn /\ ConnOK([r EXCEPT !.phase = "checking", !.seg = NoSegment])
      BY <2>1, <2>8 DEF EndData, Conn, Phases, Handshake, ConnOK, Bound, Listening
    <3>. QED  BY <3>1, <3>2, OneConn, PutConn
  <2>9. ASSUME FileNotAvailable(c)  PROVE ConnsOK'
    <3>1. conn' = [conn EXCEPT ![c] = [r EXCEPT !.phase = "denied"]]
      BY <2>9 DEF FileNotAvailable, Moved
    <3>2. [r EXCEPT !.phase = "denied"] \in Conn /\ ConnOK([r EXCEPT !.phase = "denied"])
      BY <2>1, <2>9 DEF FileNotAvailable, Moved, Conn, Phases, Handshake, ConnOK, Bound, Listening
    <3>. QED  BY <3>1, <3>2, OneConn, PutConn
  <2>10. ASSUME FailDownload(c)  PROVE ConnsOK'
    <3>1. conn' = [conn EXCEPT ![c] = [r EXCEPT !.phase = "closing", !.seg = NoSegment]]
      BY <2>10 DEF FailDownload
    <3>2. [r EXCEPT !.phase = "closing", !.seg = NoSegment] \in Conn /\ ConnOK([r EXCEPT !.phase = "closing", !.seg = NoSegment])
      BY <2>1, <2>10 DEF FailDownload, Conn, Phases, Handshake, ConnOK, Bound, Listening
    <3>. QED  BY <3>1, <3>2, OneConn, PutConn
  <2>11. ASSUME AddDownloadConnection(c)  PROVE ConnsOK'
    <3>1. \/ conn' = [conn EXCEPT ![c] = [r EXCEPT !.phase = "added", !.assoc = TRUE]]
          \/ conn' = Put(c)
      BY <2>11 DEF AddDownloadConnection, HandsOver
    <3>2. [r EXCEPT !.phase = "added", !.assoc = TRUE] \in Conn /\ ConnOK([r EXCEPT !.phase = "added", !.assoc = TRUE])
      BY <2>1, <2>11 DEF AddDownloadConnection, HandsOver, Conn, Phases, Handshake, ConnOK, Bound, Listening
    <3>. QED  BY <3>1, <3>2, OneConn, PutConn
  <2>12. ASSUME AddUploadConnection(c)  PROVE ConnsOK'
    <3>1. \/ conn' = [conn EXCEPT ![c] = [r EXCEPT !.phase = "up", !.assoc = TRUE]]
          \/ conn' = Put(c)
      BY <2>12 DEF AddUploadConnection, HandsOver
    <3>2. [r EXCEPT !.phase = "up", !.assoc = TRUE] \in Conn /\ ConnOK([r EXCEPT !.phase = "up", !.assoc = TRUE])
      BY <2>1, <2>12 DEF AddUploadConnection, HandsOver, Conn, Phases, Handshake, ConnOK, Bound, Listening
    <3>. QED  BY <3>1, <3>2, OneConn, PutConn
  <2>13. ASSUME AddConnection(c)  PROVE ConnsOK'
    <3>1. conn' = [conn EXCEPT ![c] = [r EXCEPT !.phase = "checking"]]
      BY <2>13 DEF AddConnection, Moved
    <3>2. [r EXCEPT !.phase = "checking"] \in Conn /\ ConnOK([r EXCEPT !.phase = "checking"])
      BY <2>1, <2>13 DEF AddConnection, Moved, Conn, Phases, Handshake, ConnOK, Bound, Listening
    <3>. QED  BY <3>1, <3>2, OneConn, PutConn
  <2>14. ASSUME CheckDownloads(c)  PROVE ConnsOK'
    <3>1. \/ conn' = [conn EXCEPT ![c] = [r EXCEPT !.phase = "getting"]]
          \/ conn' = [conn EXCEPT ![c] = [r EXCEPT !.phase = "closing"]]
      BY <2>14 DEF CheckDownloads, Moved
    <3>2. [r EXCEPT !.phase = "getting"] \in Conn /\ ConnOK([r EXCEPT !.phase = "getting"])
      BY <2>1, <2>14 DEF CheckDownloads, Moved, Conn, Phases, Handshake, ConnOK, Bound, Listening
    <3>3. [r EXCEPT !.phase = "closing"] \in Conn /\ ConnOK([r EXCEPT !.phase = "closing"])
      BY <2>1, <2>14 DEF CheckDownloads, Moved, Conn, Phases, Handshake, ConnOK, Bound, Listening
    <3>. QED  BY <3>1, <3>2, <3>3, OneConn, PutConn
  <2>15. ASSUME GetDownload(c)  PROVE ConnsOK'
    <3>1. \/ \E s \in Segments : conn' = [conn EXCEPT ![c] = [r EXCEPT !.phase = "busy", !.seg = s]]
          \/ conn' = [conn EXCEPT ![c] = [r EXCEPT !.phase = "parking"]]
      BY <2>15 DEF GetDownload, Free, Moved
    <3>2. ASSUME NEW s \in Segments
          PROVE  /\ [r EXCEPT !.phase = "busy", !.seg = s] \in Conn
                 /\ ConnOK([r EXCEPT !.phase = "busy", !.seg = s])
      BY <2>1, <2>15, ConnectionsAssumption
      DEF GetDownload, Conn, Phases, Handshake, ConnOK, Bound, Listening
    <3>3. [r EXCEPT !.phase = "parking"] \in Conn /\ ConnOK([r EXCEPT !.phase = "parking"])
      BY <2>1, <2>15 DEF GetDownload, Conn, Phases, Handshake, ConnOK, Bound, Listening
    <3>. QED  BY <3>1, <3>2, <3>3, OneConn
  <2>16. ASSUME Park(c)  PROVE ConnsOK'
    <3>1. conn' = [conn EXCEPT ![c] = [r EXCEPT !.phase = "idle"]]
      BY <2>16 DEF Park, Moved
    <3>2. [r EXCEPT !.phase = "idle"] \in Conn /\ ConnOK([r EXCEPT !.phase = "idle"])
      BY <2>1, <2>16 DEF Park, Moved, Conn, Phases, Handshake, ConnOK, Bound, Listening
    <3>. QED  BY <3>1, <3>2, OneConn, PutConn
  <2>17. ASSUME Updated(c)  PROVE ConnsOK'
    <3>. DEFINE p == IF c \in idlers THEN "checking" ELSE r.phase
    <3>1. conn' = [conn EXCEPT ![c] = [r EXCEPT !.woken = FALSE, !.phase = p]]
      BY <2>17 DEF Updated
    <3>2. [r EXCEPT !.woken = FALSE, !.phase = p] \in Conn /\ ConnOK([r EXCEPT !.woken = FALSE, !.phase = p])
      BY <2>1, <2>17 DEF IdlersListen, Updated, Conn, Phases, Handshake, ConnOK, Bound, Listening
    <3>. QED  BY <3>1, <3>2, OneConn
  <2>18. ASSUME PutDenied(c)  PROVE ConnsOK'
    <3>1. conn' = [conn EXCEPT ![c] = [r EXCEPT !.phase = "checking", !.seg = NoSegment]]
      BY <2>18 DEF PutDenied
    <3>2. [r EXCEPT !.phase = "checking", !.seg = NoSegment] \in Conn /\ ConnOK([r EXCEPT !.phase = "checking", !.seg = NoSegment])
      BY <2>1, <2>18 DEF PutDenied, Conn, Phases, Handshake, ConnOK, Bound, Listening
    <3>. QED  BY <3>1, <3>2, OneConn, PutConn
  <2>19. ASSUME OnFailed(c)  PROVE ConnsOK'
    BY <2>19, PutConn DEF OnFailed
  <2>. QED  BY <1>4, <2>2, <2>3, <2>4, <2>5, <2>6, <2>7, <2>8, <2>9, <2>10, <2>11, <2>12, <2>13,
               <2>14, <2>15, <2>16, <2>17, <2>18, <2>19 DEF ConnNext, Handler
<1>. QED  BY <1>2, <1>3, <1>4 DEF Next

ItemsOK == item \in [Users -> Item \cup {NoItem}]

\* A step of one item.
LEMMA OneItem ==
  ASSUME ItemsOK, NEW u \in Users, NEW r \in Item \cup {NoItem}, item' = [item EXCEPT ![u] = r]
  PROVE  ItemsOK'
BY DEF ItemsOK

LEMMA ItemFact == /\ NewItem \in Item
                  /\ \A r \in Item \cup {NoItem} : r # NoItem => r \in Item
                  /\ \A r \in Item \cup {NoItem} : r.state \in States => r \in Item
BY DEF NewItem, NoItem, Item, States

LEMMA ItemsStep == ASSUME ItemsOK, ConnsOK, Next  PROVE ItemsOK'
<1>. USE DEF ItemsOK
<1>1. ASSUME NEW u \in Users,
             UserComes(u) \/ UserConnected(u) \/ UserGoes(u) \/ AddSource(u) \/
             RemoveSource(u)
      PROVE  ItemsOK'
  BY <1>1 DEF UserComes, UserConnected, UserGoes, AddSource, RemoveSource, cmVars
<1>2. ASSUME NEW p \in Priorities, SetPriority(p)
      PROVE  ItemsOK'
  BY <1>2 DEF SetPriority, cmVars
<1>3. ASSUME NEW c \in Conns, NEW u \in Users, Connected(c, u)
      PROVE  ItemsOK'
  BY <1>3 DEF Connected, cmVars
<1>4. ASSUME NEW c \in Conns, NEW e \in BOOLEAN, Failed(c, e)
      PROVE  ItemsOK'
  <2>1. CASE UNCHANGED item  BY <2>1
  <2>2. CASE conn[c].assoc /\ FailedDownload(c, e)
    <3>1. conn[c].user \in Users
      BY <2>2, <1>4 DEF Failed, AtRest, Handshake, ConnsOK, Shape, ConnOK
    <3>2. [state |-> "WAITING", errors |-> IF e THEN -1 ELSE 0, tried |-> TRUE] \in Item
      BY DEF Item, States
    <3>. QED  BY <2>2, <3>1, <3>2, OneItem DEF FailedDownload
  <2>. QED  BY <1>4, <2>1, <2>2 DEF Failed
<1>5. ASSUME NEW c \in Conns,
             Direction(c) \/ RefuseConnection(c) \/ EndData(c) \/
             FileNotAvailable(c) \/ FailDownload(c) \/ AddUploadConnection(c) \/
             AddConnection(c) \/ CheckDownloads(c) \/ GetDownload(c) \/ Park(c) \/
             Updated(c) \/ PutDenied(c) \/ OnFailed(c)
      PROVE  ItemsOK'
  BY <1>5 DEF Direction, RefuseConnection, EndData, FileNotAvailable, FailDownload,
    AddUploadConnection, AddConnection, CheckDownloads, GetDownload, Park, Updated,
    PutDenied, OnFailed, cmVars
<1>6. ASSUME NEW u \in Users, GetDownloadConnection(u)
      PROVE  ItemsOK'
  BY <1>6, ItemFact, OneItem DEF GetDownloadConnection
<1>7. ASSUME NEW u \in Users, Forced(u)
      PROVE  ItemsOK'
  <2>1. item[u] \in Item  BY <1>7, ItemFact DEF Forced, Has
  <2>2. [item[u] EXCEPT !.tried = FALSE] \in Item  BY <2>1 DEF Item
  <2>. QED  BY <1>7, <2>2, OneItem DEF Forced
<1>8. ASSUME NEW u \in Users, SecondOffline(u)
      PROVE  ItemsOK'
  BY <1>8, OneItem DEF SecondOffline, PutCQI
<1>9. ASSUME NEW u \in Users, SecondUnwanted(u)
      PROVE  ItemsOK'
  BY <1>9, OneItem DEF SecondUnwanted, PutCQI
<1>10. ASSUME NEW u \in Users, SecondAttempt(u)
      PROVE  ItemsOK'
  <2>1. item[u] \in Item  BY <1>10, ItemFact DEF SecondAttempt, Due, InTurn, Pending, Has
  <2>2. NextState(u) \in States  BY <2>1 DEF NextState, Item, States
  <2>3. [item[u] EXCEPT !.state = NextState(u), !.tried = TRUE] \in Item
    BY <2>1, <2>2 DEF Item
  <2>. QED  BY <1>10, <2>3, OneItem DEF SecondAttempt
<1>11. ASSUME NEW u \in Users, SecondTimeout(u)
      PROVE  ItemsOK'
  <2>1. item[u] \in Item  BY <1>11, ItemFact DEF SecondTimeout, InTurn, Pending, Has
  <2>2. [item[u] EXCEPT !.state = "WAITING", !.errors = 0] \in Item
    BY <2>1 DEF Item, States
  <2>. QED  BY <1>11, <2>2, OneItem DEF SecondTimeout
<1>12. ASSUME NEW c \in Conns, MyNick(c)
      PROVE  ItemsOK'
  <2>1. ASSUME NEW v \in Users, Has(v)  PROVE [item[v] EXCEPT !.errors = 0] \in Item
    <3>1. item[v] \in Item  BY <2>1, ItemFact DEF Has
    <3>. QED  BY <3>1 DEF Item
  <2>2. PICK passed \in SUBSET Users :
          item' = [v \in Users |-> IF v \in passed /\ Has(v)
                                   THEN [item[v] EXCEPT !.errors = 0] ELSE item[v]]
    BY <1>12 DEF MyNick
  <2>. QED  BY <2>1, <2>2
<1>13. ASSUME NEW c \in Conns, INF(c)
      PROVE  ItemsOK'
  <2>1. ASSUME NEW v \in Users, Has(v)  PROVE [item[v] EXCEPT !.errors = 0] \in Item
    <3>1. item[v] \in Item  BY <2>1, ItemFact DEF Has
    <3>. QED  BY <3>1 DEF Item
  <2>2. conn[c].user \in Users  BY <1>13 DEF INF, At, ConnsOK, Shape, ConnOK
  <2>3. \/ UNCHANGED item
        \/ /\ Has(conn[c].user)
           /\ item' = [item EXCEPT ![conn[c].user] = [item[conn[c].user] EXCEPT !.errors = 0]]
    BY <1>13 DEF INF
  <2>. QED  BY <2>1, <2>2, <2>3, OneItem
<1>14. ASSUME NEW c \in Conns, AddDownloadConnection(c)
      PROVE  ItemsOK'
  <2>1. conn[c].user \in Users  BY <1>14 DEF AddDownloadConnection, HandsOver, ConnsOK, Shape, ConnOK
  <2>2. ASSUME NEW v \in Users, Has(v)  PROVE [item[v] EXCEPT !.state = "ACTIVE"] \in Item
    <3>1. item[v] \in Item  BY <2>2, ItemFact DEF Has
    <3>. QED  BY <3>1 DEF Item, States
  <2>3. \/ UNCHANGED item
        \/ /\ Has(conn[c].user)
           /\ item' = [item EXCEPT ![conn[c].user] = [item[conn[c].user] EXCEPT !.state = "ACTIVE"]]
    BY <1>14 DEF AddDownloadConnection
  <2>. QED  BY <2>1, <2>2, <2>3, OneItem
<1>. QED
  BY <1>1, <1>2, <1>3, <1>4, <1>5, <1>6, <1>7, <1>8, <1>9, <1>10, <1>11,
     <1>12, <1>13, <1>14
  DEF Next, UserNext, ConnNext, Handler

SetsOK ==
  /\ uploads \subseteq Users /\ idlers \subseteq Conns /\ asks \subseteq Users
  /\ sources \subseteq Users /\ priority \in Priorities /\ done \subseteq Segments
  /\ fetching \subseteq Conns /\ running \subseteq Users
  /\ online \subseteq Users /\ arriving \subseteq online
  /\ troubles \in 0 .. MaxTroubles

LEMMA SetsStep == ASSUME SetsOK, ConnsOK, Next  PROVE SetsOK'
<1>. USE ConnectionsAssumption
     DEF SetsOK, Trouble, cmVars, queueVars, downloadVars, userVars, RemoveDownload, DropSource,
         PutDownload
<1>1. ASSUME NEW u \in Users,
             UserComes(u) \/ UserConnected(u) \/ UserGoes(u) \/ AddSource(u) \/
             RemoveSource(u) \/ GetDownloadConnection(u) \/ Forced(u) \/
             SecondOffline(u) \/ SecondUnwanted(u) \/ SecondAttempt(u) \/
             SecondTimeout(u)
      PROVE  SetsOK'
  BY <1>1 DEF UserComes, UserConnected, UserGoes, AddSource, RemoveSource,
    GetDownloadConnection, Forced, SecondOffline, SecondUnwanted, SecondAttempt,
    SecondTimeout
<1>2. ASSUME NEW p \in Priorities, SetPriority(p)
      PROVE  SetsOK'
  BY <1>2 DEF SetPriority
<1>3. ASSUME NEW c \in Conns, NEW u \in Users, Connected(c, u)
      PROVE  SetsOK'
  BY <1>3 DEF Connected
<1>4. ASSUME NEW c \in Conns, NEW e \in BOOLEAN, Failed(c, e)
      PROVE  SetsOK'
  BY <1>4 DEF Failed, FailedDownload
<1>5. ASSUME NEW c \in Conns,
             MyNick(c) \/ Direction(c) \/ INF(c) \/ RefuseConnection(c) \/
             FileNotAvailable(c) \/ FailDownload(c) \/ AddDownloadConnection(c) \/
             AddConnection(c) \/ CheckDownloads(c) \/ Park(c) \/ Updated(c) \/
             PutDenied(c) \/ OnFailed(c)
      PROVE  SetsOK'
  BY <1>5 DEF MyNick, Direction, INF, RefuseConnection, FileNotAvailable,
    FailDownload, AddDownloadConnection, AddConnection, CheckDownloads, Park,
    Updated, PutDenied, OnFailed
<1>6. ASSUME NEW c \in Conns, EndData(c)
      PROVE  SetsOK'
  <2>1. conn[c].seg \in Segments  BY <1>6 DEF EndData, At, ConnsOK, Shape, ConnOK, Conn
  <2>. QED  BY <1>6, <2>1 DEF EndData
<1>7. ASSUME NEW c \in Conns, AddUploadConnection(c)
      PROVE  SetsOK'
  <2>1. conn[c].user \in Users  BY <1>7 DEF AddUploadConnection, HandsOver, ConnsOK, Shape, ConnOK
  <2>. QED  BY <1>7, <2>1 DEF AddUploadConnection
<1>8. ASSUME NEW c \in Conns, GetDownload(c)
      PROVE  SetsOK'
  <2>1. HasDownload(conn[c].user) # "PAUSED" => conn[c].user \in Users  BY DEF HasDownload
  <2>. QED  BY <1>8, <2>1 DEF GetDownload
<1>. QED
  BY <1>1, <1>2, <1>3, <1>4, <1>5, <1>6, <1>7, <1>8
  DEF Next, UserNext, ConnNext, Handler

LEMMA TypeStep == ASSUME TypeOK, Shape, IdlersListen, Next  PROVE TypeOK' /\ Shape'
<1>1. ConnsOK' /\ ItemsOK' /\ SetsOK'
  BY ConnsStep, ItemsStep, SetsStep DEF TypeOK, ConnsOK, ItemsOK, SetsOK
<1>. QED  BY <1>1 DEF TypeOK, ConnsOK, ItemsOK, SetsOK

(***************************************************************************)
(* Items and the connections associated with them, connection by           *)
(* connection.                                                             *)
(***************************************************************************)
Binds(r, u, role) ==
  r.user = u /\ r.assoc /\ r.role = role /\ r.phase # "failing"

AssocPt ==
  \A u \in Users :
    /\ item[u].state = "ACTIVE" <=> \E c \in Conns : Binds(conn[c], u, "down")
    /\ u \in uploads <=> \E c \in Conns : Binds(conn[c], u, "up")
    /\ \A role \in {"down", "up"} : \A c, d \in Conns :
         Binds(conn[c], u, role) /\ Binds(conn[d], u, role) => c = d

LEMMA AssocForm == (ActiveIffAssociated <=> AssocPt) /\ (ActiveIffAssociated' <=> AssocPt')
<1>1. ActiveIffAssociated <=> AssocPt
  BY DEF ActiveIffAssociated, AssocPt, Associated, Binds
<1>2. ActiveIffAssociated' <=> AssocPt'
  BY DEF ActiveIffAssociated, AssocPt, Associated, Binds
<1>. QED  BY <1>1, <1>2

\* A step that changes neither the association of a connection nor what
\* items are active.
LEMMA SameBinding ==
  ASSUME AssocPt, UNCHANGED uploads,
         \A u \in Users : item'[u].state = "ACTIVE" <=> item[u].state = "ACTIVE",
         \A c \in Conns : \A u \in Users : \A role \in {"down", "up"} :
           Binds(conn'[c], u, role) <=> Binds(conn[c], u, role)
  PROVE  AssocPt'
BY DEF AssocPt

\* The same for a step that replaces one connection.
LEMMA OneSame ==
  ASSUME AssocPt, ConnsOK, UNCHANGED uploads, NEW c \in Conns, NEW r,
         \A u \in Users : item'[u].state = "ACTIVE" <=> item[u].state = "ACTIVE",
         conn' = [conn EXCEPT ![c] = r],
         \A u \in Users : \A role \in {"down", "up"} :
           Binds(r, u, role) <=> Binds(conn[c], u, role)
  PROVE  AssocPt'
<1>1. \A d \in Conns : conn'[d] = IF d = c THEN r ELSE conn[d]  BY DEF ConnsOK
<1>. QED  BY <1>1, SameBinding

\* A step that does not touch the items either.
LEMMA OneSameConn ==
  ASSUME AssocPt, ConnsOK, UNCHANGED <<item, uploads>>, NEW c \in Conns, NEW r,
         conn' = [conn EXCEPT ![c] = r],
         \A u \in Users : \A role \in {"down", "up"} :
           Binds(r, u, role) <=> Binds(conn[c], u, role)
  PROVE  AssocPt'
BY OneSame

LEMMA AssocStep ==
  ASSUME AssocPt, ItemsOK, ConnsOK, IdlersListen, Next  PROVE AssocPt'
<1>1. ASSUME UNCHANGED <<item, uploads, conn>>  PROVE AssocPt'
  BY <1>1, SameBinding
<1>2. ASSUME NEW u \in Users, UserNext(u)  PROVE AssocPt'
  <2>1. /\ UNCHANGED uploads
        /\ \A v \in Users : item'[v].state = "ACTIVE" <=> item[v].state = "ACTIVE"
    <3>1. CASE UserComes(u) \/ UserConnected(u) \/ UserGoes(u) \/ AddSource(u) \/ RemoveSource(u)
      BY <3>1 DEF UserComes, UserConnected, UserGoes, AddSource, RemoveSource, cmVars
    <3>2. CASE GetDownloadConnection(u)
      <4>1. \/ UNCHANGED item
            \/ item[u] = NoItem /\ item' = [item EXCEPT ![u] = NewItem]
        BY <3>2 DEF GetDownloadConnection, Has
      <4>2. UNCHANGED uploads  BY <3>2 DEF GetDownloadConnection
      <4>. QED  BY <4>1, <4>2 DEF ItemsOK, NewItem, NoItem
    <3>3. CASE SecondOffline(u) \/ SecondUnwanted(u)
      <4>1. /\ UNCHANGED uploads
            /\ item[u].state # "ACTIVE"
            /\ item' = [item EXCEPT ![u] = NoItem]
        BY <3>3 DEF SecondOffline, SecondUnwanted, Due, InTurn, Pending, PutCQI
      <4>. QED  BY <4>1 DEF ItemsOK, NoItem
    <3>4. CASE Forced(u)
      <4>1. item[u] \in Item  BY <3>4, ItemFact DEF Forced, Has, ItemsOK
      <4>2. item' = [item EXCEPT ![u].tried = FALSE] /\ UNCHANGED uploads
        BY <3>4 DEF Forced
      <4>. QED  BY <4>1, <4>2 DEF ItemsOK, Item
    <3>5. CASE SecondTimeout(u)
      <4>1. item[u] \in Item /\ item[u].state # "ACTIVE"
        BY <3>5, ItemFact DEF SecondTimeout, InTurn, Pending, Has, ItemsOK
      <4>2. item' = [item EXCEPT ![u].state = "WAITING", ![u].errors = 0] /\ UNCHANGED uploads
        BY <3>5 DEF SecondTimeout
      <4>. QED  BY <4>1, <4>2 DEF ItemsOK, Item
    <3>6. CASE SecondAttempt(u)
      <4>1. item[u] \in Item /\ item[u].state # "ACTIVE"
        BY <3>6, ItemFact DEF SecondAttempt, Due, InTurn, Pending, Has, ItemsOK
      <4>2. NextState(u) # "ACTIVE"  BY <4>1 DEF NextState
      <4>3. item' = [item EXCEPT ![u].state = NextState(u), ![u].tried = TRUE] /\ UNCHANGED uploads
        BY <3>6 DEF SecondAttempt
      <4>. QED  BY <4>1, <4>2, <4>3 DEF ItemsOK, Item
    <3>. QED  BY <1>2, <3>1, <3>2, <3>3, <3>4, <3>5, <3>6 DEF UserNext
  <2>2. \A d \in Conns : \A v \in Users : \A role \in {"down", "up"} :
          Binds(conn'[d], v, role) <=> Binds(conn[d], v, role)
    BY <1>2, UserFields DEF Binds
  <2>. QED  BY <2>1, <2>2, SameBinding
<1>3. ASSUME NEW p \in Priorities, SetPriority(p)  PROVE AssocPt'
  BY <1>1, <1>3 DEF SetPriority, cmVars
<1>4. ASSUME NEW c \in Conns, ConnNext(c)  PROVE AssocPt'
  <2>. DEFINE r == conn[c]
  <2>. USE DEF At, Binds
  <2>1. r \in Conn /\ ConnOK(r)  BY DEF ConnsOK, Shape
  <2>2. ASSUME ~r.assoc  PROVE \A u \in Users : \A role \in {"down", "up"} : ~Binds(r, u, role)
    BY <2>2
  <2>3. \A u \in Users : \A role \in {"down", "up"} : ~Binds(Gone, u, role)
    BY DEF Gone
  <2>4. ASSUME NEW u \in Users, Connected(c, u)  PROVE AssocPt'
    <3>1. PICK q : conn' = [conn EXCEPT ![c] = q] /\ ~q.assoc
      <4>. HIDE DEF Binds
      <4>1. PICK phase \in {"nick", "inf"}, ours \in BOOLEAN :
              conn' = [conn EXCEPT ![c] = [Gone EXCEPT !.phase = phase, !.user = u, !.ours = ours]]
        BY <2>4 DEF Connected
      <4>2. ~[Gone EXCEPT !.phase = phase, !.user = u, !.ours = ours].assoc  BY DEF Gone
      <4>. QED  BY <4>1, <4>2
    <3>2. UNCHANGED <<item, uploads>>  BY <2>4 DEF Connected, cmVars
    <3>3. ~r.assoc  BY <2>1, <2>4 DEF Connected, ConnOK, Bound, Listening
    <3>. QED  BY <3>1, <3>2, <3>3, OneSameConn
  <2>5. ASSUME MyNick(c)  PROVE AssocPt'
    <3>1. \/ conn' = [conn EXCEPT ![c] = [r EXCEPT !.phase = "direction", !.role = "down"]]
          \/ conn' = [conn EXCEPT ![c] = [r EXCEPT !.phase = "direction", !.role = "up"]]
          \/ conn' = [conn EXCEPT ![c] = Gone]
      BY <2>5 DEF MyNick, Put
    <3>2. ~r.assoc  BY <2>1, <2>5 DEF MyNick, ConnOK, Bound, Listening
    <3>3. UNCHANGED uploads  BY <2>5 DEF MyNick
    <3>4. \A u \in Users : item'[u].state = "ACTIVE" <=> item[u].state = "ACTIVE"
      <4>1. PICK passed \in SUBSET Users :
              item' = [v \in Users |-> IF v \in passed /\ Has(v)
                                       THEN [item[v] EXCEPT !.errors = 0] ELSE item[v]]
        BY <2>5 DEF MyNick
      <4>2. ASSUME NEW v \in Users, Has(v)  PROVE [item[v] EXCEPT !.errors = 0].state = item[v].state
        <5>1. item[v] \in Item  BY <4>2, ItemFact DEF Has, ItemsOK
        <5>. QED  BY <5>1 DEF Item
      <4>. QED  BY <4>1, <4>2
    <3>5. /\ ~[r EXCEPT !.phase = "direction", !.role = "down"].assoc
          /\ ~[r EXCEPT !.phase = "direction", !.role = "up"].assoc
          /\ ~Gone.assoc
      BY <2>1, <3>2 DEF Conn, Gone
    <3>. QED  BY <3>1, <3>2, <3>3, <3>4, <3>5, OneSame
  <2>6. ASSUME Direction(c)  PROVE AssocPt'
    <3>1. \/ conn' = [conn EXCEPT ![c] = [r EXCEPT !.phase = "key"]]
          \/ conn' = [conn EXCEPT ![c] = [r EXCEPT !.phase = "key", !.role = "up"]]
          \/ conn' = [conn EXCEPT ![c] = Gone]
      BY <2>6 DEF Direction, Moved, Put
    <3>2. ~r.assoc  BY <2>1, <2>6 DEF Direction, ConnOK, Bound, Listening
    <3>3. UNCHANGED <<item, uploads>>  BY <2>6 DEF Direction, cmVars
    <3>4. /\ ~[r EXCEPT !.phase = "key"].assoc
          /\ ~[r EXCEPT !.phase = "key", !.role = "up"].assoc
          /\ ~Gone.assoc
      BY <2>1, <3>2 DEF Conn, Gone
    <3>. QED  BY <3>1, <3>2, <3>3, <3>4, OneSameConn
  <2>7. ASSUME INF(c)  PROVE AssocPt'
    <3>1. \/ conn' = [conn EXCEPT ![c] = [r EXCEPT !.phase = "ready", !.role = "down"]]
          \/ conn' = [conn EXCEPT ![c] = [r EXCEPT !.phase = "ready", !.role = "up"]]
          \/ conn' = [conn EXCEPT ![c] = Gone]
      BY <2>7 DEF INF, Put
    <3>2. ~r.assoc  BY <2>1, <2>7 DEF INF, ConnOK, Bound, Listening
    <3>3. UNCHANGED uploads  BY <2>7 DEF INF
    <3>4. \A u \in Users : item'[u].state = "ACTIVE" <=> item[u].state = "ACTIVE"
      <4>1. \/ UNCHANGED item
            \/ /\ Has(r.user)
               /\ item' = [item EXCEPT ![r.user] = [item[r.user] EXCEPT !.errors = 0]]
        BY <2>7 DEF INF
      <4>2. r.user \in Users  BY <2>1, <2>7 DEF INF, ConnOK
      <4>3. ASSUME Has(r.user)  PROVE [item[r.user] EXCEPT !.errors = 0].state = item[r.user].state
        <5>1. item[r.user] \in Item  BY <4>2, <4>3, ItemFact DEF Has, ItemsOK
        <5>. QED  BY <5>1 DEF Item
      <4>. QED  BY <4>1, <4>2, <4>3 DEF ItemsOK
    <3>5. /\ ~[r EXCEPT !.phase = "ready", !.role = "down"].assoc
          /\ ~[r EXCEPT !.phase = "ready", !.role = "up"].assoc
          /\ ~Gone.assoc
      BY <2>1, <3>2 DEF Conn, Gone
    <3>. QED  BY <3>1, <3>2, <3>3, <3>4, <3>5, OneSame
  <2>8. ASSUME NEW e \in BOOLEAN, Failed(c, e)  PROVE AssocPt'
    <3>1. /\ r.user \in Users
          /\ r.phase # "failing"
      BY <2>1, <2>8 DEF Failed, AtRest, Handshake, ConnOK
    <3>2. CASE r.assoc /\ r.role = "down"
      <4>1. PICK q \in {Gone, [r EXCEPT !.phase = "failing"]} : conn' = [conn EXCEPT ![c] = q]
        BY <2>8, <3>2 DEF Failed, FailedDownload, Put, Moved
      <4>2. \A u \in Users : \A role \in {"down", "up"} : ~Binds(q, u, role)
        BY <2>1, <4>1 DEF Gone, Conn
      <4>3. /\ UNCHANGED uploads
            /\ \A u \in Users : item'[u].state = IF u = r.user THEN "WAITING" ELSE item[u].state
        BY <2>8, <3>1, <3>2 DEF Failed, FailedDownload, ItemsOK
      <4>4. \A d \in Conns : conn'[d] = IF d = c THEN q ELSE conn[d]  BY <4>1 DEF ConnsOK
      <4>5. Binds(r, r.user, "down")  BY <3>1, <3>2
      <4>6. \A d \in Conns : Binds(conn[d], r.user, "down") => d = c
        BY <3>1, <4>5 DEF AssocPt
      <4>7. \A u \in Users : \A role \in {"down", "up"} :
              Binds(r, u, role) => u = r.user /\ role = "down"
        BY <3>2
      <4>. HIDE DEF r, Binds
      <4>. QED  BY <3>1, <4>2, <4>3, <4>4, <4>5, <4>6, <4>7 DEF AssocPt, r
    <3>3. CASE r.assoc /\ r.role = "up"
      <4>1. conn' = [conn EXCEPT ![c] = Gone]
        BY <2>8, <3>3 DEF Failed, Put
      <4>2. UNCHANGED item /\ uploads' = uploads \ {r.user}
        BY <2>8, <3>3 DEF Failed
      <4>3. \A d \in Conns : conn'[d] = IF d = c THEN Gone ELSE conn[d]  BY <4>1 DEF ConnsOK
      <4>4. Binds(r, r.user, "up")  BY <3>1, <3>3
      <4>5. \A d \in Conns : Binds(conn[d], r.user, "up") => d = c
        BY <3>1, <4>4 DEF AssocPt
      <4>6. \A u \in Users : \A role \in {"down", "up"} :
              Binds(r, u, role) => u = r.user /\ role = "up"
        BY <3>3
      <4>. HIDE DEF r, Binds
      <4>. QED  BY <2>3, <3>1, <4>2, <4>3, <4>4, <4>5, <4>6 DEF AssocPt, r
    <3>4. CASE ~r.assoc
      <4>1. conn' = [conn EXCEPT ![c] = Gone] /\ UNCHANGED <<item, uploads>>
        BY <2>8, <3>4 DEF Failed, Put
      <4>2. ~Gone.assoc  BY DEF Gone
      <4>. QED  BY <3>4, <4>1, <4>2, OneSameConn
    <3>. QED  BY <2>1, <3>2, <3>3, <3>4 DEF ConnOK, Bound, Conn
  <2>9. ASSUME AddDownloadConnection(c)  PROVE AssocPt'
    <3>1. ~r.assoc /\ r.role = "down" /\ r.user \in Users
      BY <2>1, <2>9 DEF AddDownloadConnection, HandsOver, ConnOK, Bound, Listening
    <3>2. CASE conn' = Put(c) /\ UNCHANGED item
      <4>1. UNCHANGED <<item, uploads>> /\ conn' = [conn EXCEPT ![c] = Gone]
        BY <2>9, <3>2 DEF AddDownloadConnection, Put
      <4>2. ~Gone.assoc  BY DEF Gone
      <4>. QED  BY <3>1, <4>1, <4>2, OneSameConn
    <3>3. CASE /\ item[r.user].state # "ACTIVE" /\ Has(r.user)
               /\ item' = [item EXCEPT ![r.user].state = "ACTIVE"]
               /\ conn' = [conn EXCEPT ![c].phase = "added", ![c].assoc = TRUE]
      <4>. DEFINE q == [r EXCEPT !.phase = "added", !.assoc = TRUE]
      <4>1. \A d \in Conns : conn'[d] = IF d = c THEN q ELSE conn[d]  BY <3>3 DEF ConnsOK
      <4>2. UNCHANGED uploads  BY <2>9 DEF AddDownloadConnection
      <4>3. \A u \in Users : item'[u].state = IF u = r.user THEN "ACTIVE" ELSE item[u].state
        <5>1. item[r.user] \in Item  BY <3>1, <3>3, ItemFact DEF Has, ItemsOK
        <5>. QED  BY <3>1, <3>3, <5>1 DEF ItemsOK, Item
      <4>4. \A u \in Users : \A role \in {"down", "up"} :
              Binds(q, u, role) <=> u = r.user /\ role = "down"
        BY <2>1, <3>1 DEF Conn
      <4>5. \A d \in Conns : ~Binds(conn[d], r.user, "down")
        BY <3>1, <3>3 DEF AssocPt
      <4>6. \A u \in Users : \A role \in {"down", "up"} : ~Binds(conn[c], u, role)
        BY <3>1, <2>2
      <4>. HIDE DEF r, q, Binds
      <4>. QED  BY <3>1, <4>1, <4>2, <4>3, <4>4, <4>5, <4>6 DEF AssocPt
    <3>. QED  BY <2>9, <3>2, <3>3 DEF AddDownloadConnection
  <2>10. ASSUME AddUploadConnection(c)  PROVE AssocPt'
    <3>1. ~r.assoc /\ r.role = "up" /\ r.user \in Users
      BY <2>1, <2>10 DEF AddUploadConnection, HandsOver, ConnOK, Bound, Listening
    <3>2. CASE conn' = Put(c) /\ UNCHANGED uploads
      <4>1. UNCHANGED <<item, uploads>> /\ conn' = [conn EXCEPT ![c] = Gone]
        BY <2>10, <3>2 DEF AddUploadConnection, Put
      <4>2. ~Gone.assoc  BY DEF Gone
      <4>. QED  BY <3>1, <4>1, <4>2, OneSameConn
    <3>3. CASE /\ r.user \notin uploads
               /\ uploads' = uploads \cup {r.user}
               /\ conn' = [conn EXCEPT ![c].phase = "up", ![c].assoc = TRUE]
      <4>. DEFINE q == [r EXCEPT !.phase = "up", !.assoc = TRUE]
      <4>1. \A d \in Conns : conn'[d] = IF d = c THEN q ELSE conn[d]  BY <3>3 DEF ConnsOK
      <4>2. UNCHANGED item  BY <2>10 DEF AddUploadConnection
      <4>3. \A u \in Users : \A role \in {"down", "up"} :
              Binds(q, u, role) <=> u = r.user /\ role = "up"
        BY <2>1, <3>1 DEF Conn
      <4>4. \A d \in Conns : ~Binds(conn[d], r.user, "up")
        BY <3>1, <3>3 DEF AssocPt
      <4>5. \A u \in Users : \A role \in {"down", "up"} : ~Binds(conn[c], u, role)
        BY <3>1, <2>2
      <4>6. \A u \in Users : u \in uploads' <=> u = r.user \/ u \in uploads
        BY <3>3
      <4>. HIDE DEF r, q, Binds
      <4>. QED  BY <3>1, <4>1, <4>2, <4>3, <4>4, <4>5, <4>6 DEF AssocPt
    <3>. QED  BY <2>10, <3>2, <3>3 DEF AddUploadConnection
  <2>11. ASSUME RefuseConnection(c) \/ EndData(c) \/ FileNotAvailable(c) \/ FailDownload(c) \/
                AddConnection(c) \/ CheckDownloads(c) \/ GetDownload(c) \/ Park(c) \/
                Updated(c) \/ PutDenied(c)
         PROVE  AssocPt'
    <3>1. r.assoc /\ r.phase # "failing"
      BY <2>1, <2>11 DEF RefuseConnection, EndData, FileNotAvailable, FailDownload, AddConnection,
         CheckDownloads, GetDownload, Park, Updated, PutDenied, ConnOK, Bound, Listening
    <3>2. UNCHANGED <<item, uploads>>
      BY <2>11 DEF RefuseConnection, EndData, FileNotAvailable, FailDownload, AddConnection,
         CheckDownloads, GetDownload, Park, Updated, PutDenied, cmVars
    <3>3. /\ \A d \in Conns \ {c} : conn'[d] = conn[d]
          /\ conn'[c].user = r.user /\ conn'[c].assoc = r.assoc
          /\ conn'[c].role = r.role /\ conn'[c].phase # "failing"
      <4>1. CASE RefuseConnection(c) \/ FileNotAvailable(c) \/ AddConnection(c) \/
                 CheckDownloads(c) \/ Park(c)
        BY <2>1, <4>1 DEF RefuseConnection, FileNotAvailable, AddConnection, CheckDownloads,
           Park, Moved, ConnsOK, Conn
      <4>2. CASE EndData(c) \/ FailDownload(c) \/ PutDenied(c)
        BY <2>1, <4>2 DEF EndData, FailDownload, PutDenied, ConnsOK, Conn
      <4>3. CASE GetDownload(c)
        BY <2>1, <4>3 DEF GetDownload, Moved, ConnsOK, Conn
      <4>4. CASE Updated(c)
        BY <2>1, <3>1, <4>4 DEF Updated, ConnsOK, Conn
      <4>. QED  BY <2>11, <4>1, <4>2, <4>3, <4>4
    <3>4. \A d \in Conns : \A u \in Users : \A role \in {"down", "up"} :
            Binds(conn'[d], u, role) <=> Binds(conn[d], u, role)
      BY <3>1, <3>3
    <3>. QED  BY <3>2, <3>4, SameBinding
  <2>12. ASSUME OnFailed(c)  PROVE AssocPt'
    <3>1. /\ r.phase = "failing" /\ conn' = [conn EXCEPT ![c] = Gone]
          /\ UNCHANGED <<item, uploads>>
      BY <2>12 DEF OnFailed, Put, cmVars
    <3>2. ~Gone.assoc  BY DEF Gone
    <3>. QED  BY <3>1, <3>2, OneSameConn
  <2>. QED  BY <1>4, <2>4, <2>5, <2>6, <2>7, <2>8, <2>9, <2>10, <2>11, <2>12 DEF ConnNext, Handler
<1>. QED  BY <1>2, <1>3, <1>4 DEF Next

-----------------------------------------------------------------------------
(***************************************************************************)
(* Idle connections.                                                       *)
(***************************************************************************)
LEMMA IdleKept ==
  ASSUME IdlersListen, idlers' \subseteq idlers,
         \A c \in idlers' : conn'[c].phase = conn[c].phase
  PROVE  IdlersListen'
BY DEF IdlersListen, At

LEMMA IdlersStep == ASSUME IdlersListen, idlers \subseteq Conns, ConnsOK, Next  PROVE IdlersListen'
<1>1. ASSUME NEW u \in Users, UserNext(u)  PROVE IdlersListen'
  <2>1. UNCHANGED idlers
    BY <1>1 DEF UserNext, UserComes, UserConnected, UserGoes, AddSource, RemoveSource,
       GetDownloadConnection, Forced, SecondOffline, SecondUnwanted, SecondAttempt, SecondTimeout
  <2>. QED  BY <1>1, <2>1, UserFields, IdleKept
<1>2. ASSUME NEW p \in Priorities, SetPriority(p)  PROVE IdlersListen'
  BY <1>2, IdleKept DEF SetPriority
<1>3. ASSUME NEW c \in Conns, ConnNext(c)  PROVE IdlersListen'
  <2>. USE DEF At
  <2>1. ASSUME idlers' \subseteq idlers \ {c}, \A d \in Conns \ {c} : conn'[d] = conn[d]
        PROVE  IdlersListen'
    BY <2>1, IdleKept
  <2>2. CASE \E u \in Users : Connected(c, u)
    <3>1. c \notin idlers  BY <2>2 DEF Connected, IdlersListen
    <3>2. UNCHANGED idlers /\ \A d \in Conns \ {c} : conn'[d] = conn[d]
      BY <2>2 DEF Connected, ConnsOK
    <3>. QED  BY <2>1, <3>1, <3>2
  <2>3. CASE MyNick(c) \/ Direction(c) \/ INF(c)
    <3>1. c \notin idlers  BY <2>3 DEF MyNick, Direction, INF, IdlersListen
    <3>2. UNCHANGED idlers /\ \A d \in Conns \ {c} : conn'[d] = conn[d]
      BY <2>3 DEF MyNick, Direction, INF, Put, Moved, ConnsOK
    <3>. QED  BY <2>1, <3>1, <3>2
  <2>4. ASSUME NEW e \in BOOLEAN, Failed(c, e)  PROVE IdlersListen'
    <3>1. UNCHANGED idlers /\ \A d \in Conns \ {c} : conn'[d] = conn[d]
      BY <2>4 DEF Failed, FailedDownload, Put, Moved, ConnsOK
    <3>2. c \in idlers => conn'[c].phase = "failing"
      <4>1. ASSUME c \in idlers  PROVE conn[c].phase = "idle"
        BY <2>4, <4>1 DEF IdlersListen, Failed, AtRest, Handshake
      <4>2. ASSUME c \in idlers  PROVE conn[c].assoc /\ conn[c].role = "down"
        BY <4>1, <4>2 DEF ConnsOK, Shape, ConnOK, Bound, Listening
      <4>3. ASSUME c \in idlers  PROVE conn' = Moved(c, "failing")
        BY <2>4, <4>1, <4>2, <4>3 DEF Failed, FailedDownload, Listening
      <4>. QED  BY <4>3 DEF Moved, ConnsOK, Conn
    <3>. QED  BY <3>1, <3>2 DEF IdlersListen
  <2>5. CASE RefuseConnection(c) \/ EndData(c) \/ FileNotAvailable(c) \/ FailDownload(c) \/ PutDenied(c)
    <3>1. c \notin idlers
      BY <2>5 DEF RefuseConnection, EndData, FileNotAvailable, FailDownload, PutDenied, IdlersListen
    <3>2. UNCHANGED idlers /\ \A d \in Conns \ {c} : conn'[d] = conn[d]
      BY <2>5 DEF RefuseConnection, EndData, FileNotAvailable, FailDownload, PutDenied, Moved, ConnsOK
    <3>. QED  BY <2>1, <3>1, <3>2
  <2>6. CASE AddDownloadConnection(c) \/ AddUploadConnection(c) \/ AddConnection(c) \/ CheckDownloads(c)
    <3>1. c \notin idlers
      BY <2>6 DEF AddDownloadConnection, AddUploadConnection, AddConnection, CheckDownloads,
         HandsOver, IdlersListen
    <3>2. UNCHANGED idlers /\ \A d \in Conns \ {c} : conn'[d] = conn[d]
      BY <2>6 DEF AddDownloadConnection, AddUploadConnection, AddConnection, CheckDownloads,
         Put, Moved, ConnsOK
    <3>. QED  BY <2>1, <3>1, <3>2
  <2>7. CASE GetDownload(c)
    <3>1. c \notin idlers  BY <2>7 DEF GetDownload, IdlersListen
    <3>2. UNCHANGED idlers /\ \A d \in Conns \ {c} : conn'[d] = conn[d]
      BY <2>7 DEF GetDownload, Moved, ConnsOK
    <3>. QED  BY <2>1, <3>1, <3>2
  <2>8. CASE Park(c)
    <3>1. idlers' = idlers \cup {c} /\ conn' = Moved(c, "idle")  BY <2>8 DEF Park
    <3>2. conn'[c].phase = "idle" /\ \A d \in Conns \ {c} : conn'[d] = conn[d]
      BY <3>1 DEF Moved, ConnsOK, Conn
    <3>. QED  BY <3>1, <3>2 DEF IdlersListen
  <2>9. CASE Updated(c) \/ OnFailed(c)
    <3>1. idlers' = idlers \ {c} /\ \A d \in Conns \ {c} : conn'[d] = conn[d]
      BY <2>9 DEF Updated, OnFailed, Put, ConnsOK
    <3>. QED  BY <2>1, <3>1
  <2>. QED  BY <1>3, <2>2, <2>3, <2>4, <2>5, <2>6, <2>7, <2>8, <2>9 DEF ConnNext, Handler
<1>. QED  BY <1>1, <1>2, <1>3 DEF Next

(***************************************************************************)
(* What a step of one connection does to the others, and to what it is     *)
(* downloading itself.                                                     *)
(***************************************************************************)
Drops(c) == EndData(c) \/ PutDenied(c) \/ FailDownload(c) \/ (OnFailed(c) /\ Downloading(c))

LEMMA ConnDownloads ==
  ASSUME ConnsOK, NEW c \in Conns, ConnNext(c)
  PROVE  /\ \A d \in Conns \ {c} : conn'[d] = conn[d]
         /\ \/ Drops(c)
            \/ Downloading(c) /\ conn'[c].user = conn[c].user /\ conn'[c].seg = conn[c].seg
            \/ ~Downloading(c)
         /\ Returning(c) => Drops(c)
<1>. DEFINE r == conn[c]
<1>. USE DEF At, Downloading, Returning
<1>1. r \in Conn /\ ConnOK(r)  BY DEF ConnsOK, Shape
<1>2. CASE \E u \in Users : Connected(c, u)
  <2>1. \A d \in Conns \ {c} : conn'[d] = conn[d]  BY <1>2 DEF Connected, ConnsOK
  <2>2. r.phase = "gone"  BY <1>2 DEF Connected
  <2>. QED  BY <1>1, <2>1, <2>2 DEF ConnOK
<1>3. CASE MyNick(c) \/ Direction(c) \/ INF(c)
  <2>1. \A d \in Conns \ {c} : conn'[d] = conn[d]
    BY <1>3 DEF MyNick, Direction, INF, Put, Moved, ConnsOK
  <2>2. r.phase \in {"nick", "direction", "inf"}  BY <1>3 DEF MyNick, Direction, INF
  <2>. QED  BY <1>1, <2>1, <2>2 DEF ConnOK
<1>4. ASSUME NEW e \in BOOLEAN, Failed(c, e)
      PROVE  /\ \A d \in Conns \ {c} : conn'[d] = conn[d]
             /\ \/ r.seg # NoSegment /\ conn'[c].user = r.user /\ conn'[c].seg = r.seg
                \/ r.seg = NoSegment
             /\ ~Returning(c)
  <2>1. \A d \in Conns \ {c} : conn'[d] = conn[d]
    BY <1>4 DEF Failed, FailedDownload, Put, Moved, ConnsOK
  <2>2. r.phase \in AtRest  BY <1>4 DEF Failed
  <2>3. CASE r.phase = "busy"
    <3>1. r.assoc /\ r.role = "down" /\ r.phase \in Listening
      BY <1>1, <2>3 DEF ConnOK, Bound, Listening
    <3>2. conn' = Moved(c, "failing")  BY <1>4, <3>1 DEF Failed, FailedDownload
    <3>. QED  BY <1>1, <2>1, <2>3, <3>2 DEF Moved, ConnsOK, Conn
  <2>4. CASE r.phase # "busy"
    BY <1>1, <2>1, <2>2, <2>4 DEF ConnOK, AtRest, Handshake
  <2>. QED  BY <2>3, <2>4
<1>5. CASE RefuseConnection(c) \/ FileNotAvailable(c)
  <2>1. /\ \A d \in Conns \ {c} : conn'[d] = conn[d]
        /\ conn'[c].user = r.user /\ conn'[c].seg = r.seg
    BY <1>1, <1>5 DEF RefuseConnection, FileNotAvailable, Moved, ConnsOK, Conn
  <2>2. r.phase \in {"added", "busy"}  BY <1>5 DEF RefuseConnection, FileNotAvailable
  <2>. QED  BY <2>1, <2>2
<1>6. CASE AddDownloadConnection(c) \/ AddUploadConnection(c) \/ AddConnection(c) \/ CheckDownloads(c)
  <2>1. \A d \in Conns \ {c} : conn'[d] = conn[d]
    BY <1>6 DEF AddDownloadConnection, AddUploadConnection, AddConnection, CheckDownloads,
       Put, Moved, ConnsOK
  <2>2. r.phase \in {"key", "ready", "added", "checking"}
    BY <1>6 DEF AddDownloadConnection, AddUploadConnection, AddConnection, CheckDownloads, HandsOver
  <2>. QED  BY <1>1, <2>1, <2>2 DEF ConnOK
<1>7. CASE GetDownload(c) \/ Park(c)
  <2>1. \A d \in Conns \ {c} : conn'[d] = conn[d]
    BY <1>7 DEF GetDownload, Park, Moved, ConnsOK
  <2>2. r.phase \in {"getting", "parking"}  BY <1>7 DEF GetDownload, Park
  <2>. QED  BY <1>1, <2>1, <2>2 DEF ConnOK
<1>8. CASE Updated(c)
  <2>1. /\ \A d \in Conns \ {c} : conn'[d] = conn[d]
        /\ conn'[c].user = r.user /\ conn'[c].seg = r.seg
    BY <1>1, <1>8 DEF Updated, ConnsOK, Conn
  <2>2. r.phase \in {"idle", "busy"}  BY <1>8 DEF Updated
  <2>. QED  BY <2>1, <2>2
<1>9. CASE EndData(c) \/ PutDenied(c) \/ FailDownload(c)
  <2>1. \A d \in Conns \ {c} : conn'[d] = conn[d]
    BY <1>9 DEF EndData, PutDenied, FailDownload, ConnsOK
  <2>. QED  BY <1>9, <2>1 DEF Drops
<1>10. CASE OnFailed(c)
  <2>1. \A d \in Conns \ {c} : conn'[d] = conn[d]  BY <1>10 DEF OnFailed, Put, ConnsOK
  <2>. QED  BY <1>10, <2>1 DEF Drops
<1>11. ASSUME NEW e \in BOOLEAN, Failed(c, e)
       PROVE  /\ \A d \in Conns \ {c} : conn'[d] = conn[d]
              /\ \/ Drops(c)
                 \/ Downloading(c) /\ conn'[c].user = conn[c].user /\ conn'[c].seg = conn[c].seg
                 \/ ~Downloading(c)
              /\ Returning(c) => Drops(c)
  BY <1>4, <1>11
<1>. QED  BY <1>2, <1>3, <1>5, <1>6, <1>7, <1>8, <1>9, <1>10, <1>11 DEF ConnNext, Handler

LEMMA RunningStep == ASSUME RunningBacked, running \subseteq Users, ConnsOK, Next  PROVE RunningBacked'
<1>. USE DEF RunningBacked, Downloading
<1>1. ASSUME NEW u \in Users, UserNext(u)  PROVE RunningBacked'
  <2>1. running' \subseteq running
    BY <1>1 DEF UserNext, UserComes, UserConnected, UserGoes, AddSource, RemoveSource, DropSource,
       RemoveDownload, downloadVars, queueVars,
       GetDownloadConnection, Forced, SecondOffline, SecondUnwanted, SecondAttempt, SecondTimeout
  <2>. QED  BY <1>1, <2>1, UserFields
<1>2. ASSUME NEW p \in Priorities, SetPriority(p)  PROVE RunningBacked'
  BY <1>2 DEF SetPriority, downloadVars
<1>3. ASSUME NEW c \in Conns, ConnNext(c)  PROVE RunningBacked'
  <2>1. CASE Drops(c)
    <3>1. running' = running \ {conn[c].user}
      BY <2>1 DEF Drops, EndData, PutDenied, FailDownload, OnFailed, PutDownload, RemoveDownload
    <3>. QED  BY <1>3, <3>1, ConnDownloads
  <2>2. CASE GetDownload(c) /\ running' # running
    <3>1. /\ running' = running \cup {conn[c].user}
          /\ \E s \in Free : conn' = [conn EXCEPT ![c].phase = "busy", ![c].seg = s]
      BY <2>2 DEF GetDownload, downloadVars
    <3>2. /\ conn[c] \in Conn /\ ConnOK(conn[c]) /\ conn[c].phase = "getting"
      BY <2>2 DEF GetDownload, At, ConnsOK, Shape
    <3>3. conn'[c].user = conn[c].user /\ conn'[c].seg \in Segments
      BY <3>1, <3>2 DEF Free, ConnsOK, Conn
    <3>4. \A d \in Conns \ {c} : conn'[d] = conn[d]  BY <1>3, ConnDownloads
    <3>5. ASSUME NEW u \in running'
          PROVE  \E d \in Conns : conn'[d].user = u /\ conn'[d].seg # NoSegment
      <4>1. CASE u = conn[c].user
        BY <3>3, <4>1, ConnectionsAssumption
      <4>2. CASE u # conn[c].user
        <5>1. PICK d \in Conns : conn[d].user = u /\ conn[d].seg # NoSegment
          BY <3>1, <3>5, <4>2
        <5>. QED  BY <3>4, <4>2, <5>1
      <4>. QED  BY <4>1, <4>2
    <3>. QED  BY <3>5
  <2>3. CASE ~Drops(c) /\ running' \subseteq running
    BY <1>3, <2>3, ConnDownloads
  <2>4. ~Drops(c) => GetDownload(c) \/ running' \subseteq running
    BY <1>3 DEF ConnNext, Handler, Drops, Connected, MyNick, Direction, INF, Failed, RefuseConnection,
       FileNotAvailable, DropSource, RemoveDownload, AddDownloadConnection, AddUploadConnection,
       AddConnection, CheckDownloads, Park, Updated, OnFailed, queueVars, downloadVars
  <2>. QED  BY <2>1, <2>2, <2>3, <2>4
<1>. QED  BY <1>1, <1>2, <1>3 DEF Next

-----------------------------------------------------------------------------
(***************************************************************************)
(* Wishes.  What a user has to offer is what no connection holds, in the   *)
(* item's list or aside.                                                   *)
(***************************************************************************)
Offers(u) ==
  /\ u \in sources
  /\ priority # "PAUSED"
  /\ \E s \in Segments \ done : \A c \in Conns : conn[c].seg # s

WishPt ==
  \A u \in online \ arriving :
    Offers(u) /\ (\A c \in Conns : ~Returning(c)) => Has(u) \/ u \in asks

LEMMA WishForm ==
  /\ fetching \subseteq Conns => (NoWishForgotten <=> WishPt)
  /\ fetching' \subseteq Conns => (NoWishForgotten' <=> WishPt')
<1>1. ASSUME fetching \subseteq Conns  PROVE NoWishForgotten <=> WishPt
  BY <1>1 DEF NoWishForgotten, WishPt, Offers, Free, HeldAside
<1>2. ASSUME fetching' \subseteq Conns  PROVE NoWishForgotten' <=> WishPt'
  BY <1>2 DEF NoWishForgotten, WishPt, Offers, Free, HeldAside
<1>. QED  BY <1>1, <1>2

LEMMA ItemHas == \A r \in Item : r # NoItem
BY DEF Item, States, NoItem

\* A step that makes no new wish of a user and keeps what answers his old one.
LEMMA WishKept ==
  ASSUME WishPt, NEW u \in Users,
         u \in online' \ arriving' => u \in online \ arriving,
         u \in sources' => u \in sources, UNCHANGED priority, done \subseteq done',
         \A c \in Conns : conn'[c].seg = conn[c].seg \/ conn[c].seg = NoSegment
                                                     \/ conn[c].seg \in done',
         \A c \in Conns : Returning(c) => Returning(c)',
         Has(u) => Has(u)', u \in asks => u \in asks'
  PROVE  u \in online' \ arriving' /\ Offers(u)' /\ (\A c \in Conns : ~Returning(c)')
           => Has(u)' \/ u \in asks'
<1>. SUFFICES ASSUME u \in online' \ arriving', Offers(u)', \A c \in Conns : ~Returning(c)'
              PROVE  Has(u)' \/ u \in asks'
  OBVIOUS
<1>1. PICK s \in Segments \ done' : \A c \in Conns : conn'[c].seg # s  BY DEF Offers
<1>2. \A c \in Conns : conn[c].seg # s  BY <1>1, ConnectionsAssumption
<1>3. Offers(u)  BY <1>1, <1>2 DEF Offers
<1>. QED  BY <1>3 DEF WishPt

\* A connection's step frees items but removes none.
LEMMA HasKept ==
  ASSUME ItemsOK, ConnsOK, NEW c \in Conns, ConnNext(c), NEW u \in Users, Has(u)
  PROVE  Has(u)'
<1>1. item[u] \in Item  BY ItemFact DEF Has, ItemsOK
<1>2. CASE UNCHANGED item  BY <1>2 DEF Has
<1>3. CASE MyNick(c)
  <2>1. item'[u] = item[u] \/ item'[u] = [item[u] EXCEPT !.errors = 0]
    BY <1>3 DEF MyNick
  <2>. QED  BY <1>1, <2>1 DEF Has, Item, States, NoItem
<1>4. CASE INF(c)
  <2>1. item'[u] = item[u] \/ item'[u] = [item[u] EXCEPT !.errors = 0]
    BY <1>4 DEF INF, ItemsOK
  <2>. QED  BY <1>1, <2>1 DEF Has, Item, States, NoItem
<1>5. CASE AddDownloadConnection(c)
  <2>1. item'[u] = item[u] \/ item'[u] = [item[u] EXCEPT !.state = "ACTIVE"]
    BY <1>5 DEF AddDownloadConnection, ItemsOK
  <2>. QED  BY <1>1, <2>1 DEF Has, Item, States, NoItem
<1>6. ASSUME NEW e \in BOOLEAN, Failed(c, e)  PROVE Has(u)'
  <2>1. item'[u] = item[u] \/ item'[u].state = "WAITING"
    BY <1>6 DEF Failed, FailedDownload, ItemsOK
  <2>. QED  BY <1>1, <2>1 DEF Has, NoItem
<1>. QED
  BY <1>2, <1>3, <1>4, <1>5, <1>6
  DEF ConnNext, Handler, Connected, Direction, RefuseConnection, EndData, FileNotAvailable,
      FailDownload, AddUploadConnection, AddConnection, CheckDownloads, GetDownload, Park, Updated,
      PutDenied, OnFailed, cmVars

LEMMA WishStep ==
  ASSUME WishPt, TypeOK, Shape, AssocPt, RunningBacked, Next  PROVE WishPt'
<1>. DEFINE Answered(u) == u \in online' \ arriving' /\ Offers(u)' /\ (\A c \in Conns : ~Returning(c)')
                             => Has(u)' \/ u \in asks'
<1>. USE DEF At
<1>0. ItemsOK /\ ConnsOK  BY DEF ItemsOK, ConnsOK, TypeOK
<1>1. SUFFICES ASSUME NEW u \in Users  PROVE Answered(u)
  <2>1. SetsOK  BY DEF TypeOK, SetsOK
  <2>2. online' \subseteq Users  BY <1>0, <2>1, SetsStep DEF SetsOK
  <2>. QED  BY <2>2 DEF WishPt
<1>2. ASSUME NEW v \in Users, UserNext(v)  PROVE Answered(u)
  <2>. USE DEF cmVars, queueVars, downloadVars, userVars, DropSource
  <2>1. /\ \A c \in Conns : conn'[c].seg = conn[c].seg
        /\ \A c \in Conns : Returning(c) <=> Returning(c)'
    BY <1>0, <1>2, UserFields DEF Returning, Downloading
  <2>2. CASE UserComes(v)
    BY <2>1, <2>2, WishKept DEF UserComes, Has
  <2>3. CASE UserConnected(v)
    <3>1. CASE u # v
      BY <2>1, <2>3, <3>1, WishKept DEF UserConnected, Has
    <3>2. CASE u = v
      <4>1. Offers(u)' => Unfinished /\ priority # "PAUSED" /\ u \in sources
        BY <2>3 DEF UserConnected, Offers, Unfinished
      <4>. QED  BY <2>3, <3>2, <4>1 DEF UserConnected
    <3>. QED  BY <3>1, <3>2
  <2>4. CASE UserGoes(v) \/ RemoveSource(v)
    BY <2>1, <2>4, WishKept DEF UserGoes, RemoveSource, Has
  <2>5. CASE AddSource(v)
    <3>1. CASE u # v \/ u \notin online'
      BY <2>1, <2>5, <3>1, WishKept DEF AddSource, Has
    <3>2. CASE u = v /\ u \notin running /\ u \in online'
      <4>1. Offers(u)' => Unfinished /\ priority # "PAUSED"
        BY <2>5 DEF AddSource, Offers, Unfinished
      <4>. QED  BY <2>5, <3>2, <4>1 DEF AddSource
    <3>3. CASE u \in running
      <4>1. PICK c \in Conns : conn[c].user = u /\ Downloading(c)
        BY <3>3 DEF RunningBacked
      <4>2. CASE Returning(c)  BY <2>1, <4>2
      <4>3. CASE ~Returning(c)
        <5>1. ConnOK(conn[c])  BY DEF Shape
        <5>2. conn[c].phase = "busy"
          BY <4>1, <4>3, <5>1 DEF Returning, Downloading, ConnOK
        <5>3. Binds(conn[c], u, "down")
          BY <4>1, <5>1, <5>2 DEF ConnOK, Bound, Listening, Binds
        <5>4. item[u].state = "ACTIVE"  BY <5>3 DEF AssocPt
        <5>5. Has(u)  BY <5>4 DEF Has, NoItem
        <5>. QED  BY <2>5, <5>5 DEF AddSource, Has
      <4>. QED  BY <4>2, <4>3
    <3>. QED  BY <3>1, <3>2, <3>3
  <2>6. CASE GetDownloadConnection(v)
    <3>1. Has(v)'
      <4>1. CASE Has(v)  BY <2>6, <4>1 DEF GetDownloadConnection, Has
      <4>2. CASE ~Has(v)
        BY <1>0, <2>6, <4>2, ItemFact, ItemHas DEF GetDownloadConnection, Has, ItemsOK
      <4>. QED  BY <4>1, <4>2
    <3>2. CASE u = v  BY <3>1, <3>2
    <3>3. CASE u # v
      <4>1. Has(u) => Has(u)'  BY <1>0, <2>6, <3>3 DEF GetDownloadConnection, Has, ItemsOK
      <4>. QED  BY <2>1, <2>6, <3>3, <4>1, WishKept DEF GetDownloadConnection
    <3>. QED  BY <3>2, <3>3
  <2>7. CASE SecondOffline(v) \/ SecondUnwanted(v)
    <3>1. CASE u = v /\ SecondOffline(v)
      BY <3>1 DEF SecondOffline
    <3>2. CASE u = v /\ SecondUnwanted(v)
      <4>1. u \notin sources \/ Free = {} \/ priority = "PAUSED"
        BY <3>2 DEF SecondUnwanted, HasDownload
      <4>2. fetching \subseteq Conns  BY DEF TypeOK
      <4>3. UNCHANGED <<sources, priority, done>>  BY <3>2 DEF SecondUnwanted
      <4>4. ~Offers(u)'  BY <2>1, <4>1, <4>2, <4>3 DEF Offers, Free
      <4>. QED  BY <4>4
    <3>3. CASE u # v
      <4>1. Has(u) => Has(u)'
        BY <1>0, <2>7, <3>3 DEF SecondOffline, SecondUnwanted, PutCQI, Has, ItemsOK
      <4>. QED  BY <2>1, <2>7, <3>3, <4>1, WishKept DEF SecondOffline, SecondUnwanted
    <3>. QED  BY <2>7, <3>1, <3>2, <3>3
  <2>8. CASE SecondAttempt(v) \/ SecondTimeout(v) \/ Forced(v)
    <3>1. Has(u) => Has(u)'
      <4>1. item[v] \in Item
        BY <1>0, <2>8, ItemFact DEF SecondAttempt, SecondTimeout, Forced, Due, InTurn, Pending, Has, ItemsOK
      <4>2. item'[v].state # "none"
        <5>1. CASE SecondAttempt(v)
          <6>1. NextState(v) # "none"  BY <4>1 DEF NextState, Item, States
          <6>. QED  BY <1>0, <4>1, <5>1, <6>1 DEF SecondAttempt, ItemsOK, Item
        <5>2. CASE SecondTimeout(v)  BY <1>0, <4>1, <5>2 DEF SecondTimeout, ItemsOK, Item
        <5>3. CASE Forced(v)  BY <1>0, <4>1, <5>3 DEF Forced, ItemsOK, Item, States
        <5>. QED  BY <2>8, <5>1, <5>2, <5>3
      <4>3. u # v => item'[u] = item[u]
        BY <1>0, <2>8 DEF SecondAttempt, SecondTimeout, Forced, ItemsOK
      <4>. QED  BY <4>2, <4>3 DEF Has, NoItem
    <3>. QED  BY <2>1, <2>8, <3>1, WishKept DEF SecondAttempt, SecondTimeout, Forced
  <2>. QED  BY <1>2, <2>2, <2>3, <2>4, <2>5, <2>6, <2>7, <2>8 DEF UserNext
<1>3. ASSUME NEW p \in Priorities, SetPriority(p)  PROVE Answered(u)
  <2>1. UNCHANGED <<conn, item, sources, done, online, arriving>>
    BY <1>3 DEF SetPriority, cmVars, userVars
  <2>2. /\ priority' = p
        /\ asks' = IF p = "HIGHEST" \/ priority = "PAUSED" THEN asks \cup (sources \cap online) ELSE asks
    BY <1>3 DEF SetPriority
  <2>3. CASE priority = "PAUSED"
    BY <2>1, <2>2, <2>3 DEF Offers
  <2>4. CASE priority # "PAUSED"
    <3>1. Offers(u)' => Offers(u)  BY <2>1, <2>4 DEF Offers
    <3>2. \A c \in Conns : Returning(c) <=> Returning(c)'  BY <2>1 DEF Returning, Downloading
    <3>. QED  BY <2>1, <2>2, <3>1, <3>2 DEF WishPt, Has
  <2>. QED  BY <2>3, <2>4
<1>4. ASSUME NEW c \in Conns, ConnNext(c)  PROVE Answered(u)
  <2>. USE DEF cmVars, queueVars, downloadVars, userVars
  <2>1. CASE PutDenied(c) \/ FailDownload(c) \/ (OnFailed(c) /\ Downloading(c))
    <3>1. PutDownload(c) /\ UNCHANGED <<sources, priority, done, online>>
      BY <2>1 DEF PutDenied, FailDownload, OnFailed
    <3>2. Offers(u)' => Unfinished /\ priority # "PAUSED" /\ u \in sources
      BY <3>1 DEF Offers, Unfinished
    <3>. QED  BY <3>1, <3>2 DEF PutDownload
  <2>2. CASE Drops(c) => EndData(c)
    <3>1. Has(u) => Has(u)'  BY <1>0, <1>4, HasKept
    <3>2. /\ u \in online' \ arriving' => u \in online \ arriving
          /\ u \in sources' => u \in sources
          /\ UNCHANGED priority /\ done \subseteq done' /\ (u \in asks => u \in asks')
      BY <1>4 DEF ConnNext, Handler, Connected, MyNick, Direction, INF, Failed, RefuseConnection,
         EndData, FileNotAvailable, FailDownload, DropSource, AddDownloadConnection,
         AddUploadConnection, AddConnection, CheckDownloads, GetDownload, Park, Updated, PutDenied,
         OnFailed, PutDownload
    <3>3. \A d \in Conns : \/ conn'[d].seg = conn[d].seg \/ conn[d].seg = NoSegment
                           \/ conn[d].seg \in done'
      <4>1. EndData(c) => conn[c].seg \in done'  BY DEF EndData
      <4>. QED  BY <1>0, <1>4, <2>2, <4>1, ConnDownloads DEF Downloading
    <3>4. \A d \in Conns : Returning(d) => Returning(d)'
      <4>1. EndData(c) => ~Returning(c)  BY DEF EndData, Returning
      <4>2. ~Returning(c)  BY <1>0, <1>4, <2>2, <4>1, ConnDownloads
      <4>. QED  BY <1>0, <1>4, <4>2, ConnDownloads DEF Returning, Downloading
    <3>. QED  BY <3>1, <3>2, <3>3, <3>4, WishKept
  <2>. QED  BY <2>1, <2>2 DEF Drops
<1>. QED  BY <1>1, <1>2, <1>3, <1>4 DEF Next

-----------------------------------------------------------------------------
LEMMA NextInv == ASSUME IInv, [Next]_vars  PROVE IInv'
<1>. USE DEF IInv
<1>1. /\ ConnsOK /\ idlers \subseteq Conns /\ running \subseteq Users /\ fetching \subseteq Conns
      /\ ItemsOK /\ AssocPt /\ WishPt
  BY AssocForm, WishForm DEF ConnsOK, ItemsOK, TypeOK
<1>2. CASE Next
  <2>1. TypeOK' /\ Shape'  BY <1>2, TypeStep
  <2>2. AssocPt'  BY <1>1, <1>2, AssocStep
  <2>3. IdlersListen'  BY <1>1, <1>2, IdlersStep
  <2>4. RunningBacked'  BY <1>1, <1>2, RunningStep
  <2>5. WishPt'  BY <1>1, <1>2, WishStep
  <2>6. fetching' \subseteq Conns  BY <2>1 DEF TypeOK
  <2>. QED  BY <2>1, <2>2, <2>3, <2>4, <2>5, <2>6, AssocForm, WishForm
<1>3. CASE UNCHANGED vars
  <2>1. TypeOK' /\ Shape' /\ IdlersListen' /\ RunningBacked'
    BY <1>3 DEF vars, TypeOK, Shape, ConnOK, IdlersListen, At, RunningBacked, Downloading
  <2>2. AssocPt'  BY <1>1, <1>3 DEF vars, AssocPt
  <2>3. WishPt'  BY <1>1, <1>3 DEF vars, WishPt, Offers, Returning, Downloading, Has
  <2>. QED  BY <1>1, <1>3, <2>1, <2>2, <2>3, AssocForm, WishForm DEF vars
<1>. QED  BY <1>2, <1>3

LEMMA Invariant == Spec => []IInv
BY InitInv, NextInv, PTL DEF Spec

(***************************************************************************)
(* Whatever users, hubs, peers and the timer do, and however many there    *)
(* are: every state of ConnectionManager and DownloadManager the model can *)
(* reach is well formed.                                                   *)
(***************************************************************************)
THEOREM TypeCorrect == Spec => []TypeOK
BY Invariant, PTL DEF IInv

(***************************************************************************)
(* An item is active exactly while one connection is associated with it    *)
(* (ConnectionManager::addDownloadConnection, addUploadConnection and      *)
(* failed): failed frees the item of the connection it is told of, and no  *)
(* other connection's.                                                     *)
(***************************************************************************)
THEOREM ActiveAssociated == Spec => []ActiveIffAssociated
BY Invariant, PTL DEF IInv

(***************************************************************************)
(* DownloadManager::idlers holds no connection whose failure will not be   *)
(* heard of, so checkIdle wakes a connection that exists.                  *)
(***************************************************************************)
THEOREM IdlersAlive == Spec => []IdlersListen
BY Invariant, PTL DEF IInv

(***************************************************************************)
(* A source that is online with something to download from him has an item *)
(* in ConnectionManager or a thread about to ask for one, whatever the     *)
(* timer has removed in the meantime.                                      *)
(***************************************************************************)
THEOREM WishesKept == Spec => []NoWishForgotten
BY Invariant, PTL DEF IInv
=============================================================================
