----------------------------- MODULE UploadSlots -----------------------------
(***************************************************************************)
(* UploadManager's slots: who gets one, how they are counted, and the      *)
(* users who wait for one.                                                 *)
(*                                                                         *)
(* What holds UploadManager::cs is one step.  removeConnection changes a   *)
(* counter without the lock, by a load and a store: what another thread    *)
(* writes in between is overwritten, or overwrites.  The files asked for,  *)
(* speeds and the clock are left out: what has a deadline may expire at    *)
(* any time.                                                               *)
(***************************************************************************)
EXTENDS Integers, SequencesExt

CONSTANTS
  Users,
  Nobody,
  Conns,                \* UserConnection objects that upload
  Favourites,           \* FavoriteManager::hasSlot
  Friends,              \* bound: whom the user reserves slots for
  SLOTS,                \* getSlots()
  EXTRA_SLOTS,
  EXTRA_PARTIAL_SLOTS,
  MIN_UPLOAD_SPEED,     \* 0 turns automatic slots off
  AUTO_SLOTS

ASSUME UploadSlotsAssumption ==
  /\ Nobody \notin Users
  /\ Favourites \subseteq Users /\ Friends \subseteq Users
  /\ SLOTS \in 0 .. 255
  /\ {EXTRA_SLOTS, EXTRA_PARTIAL_SLOTS, MIN_UPLOAD_SPEED, AUTO_SLOTS} \subseteq Nat

VARIABLES
  conn,
  counter,        \* running, extra and extraPartial, by the slots they count
  leaving,        \* the slot whose counter a connection's thread has to change
  loaded,         \* the value it has read of it
  raced,          \* history: some change was lost
  reservedSlots,
  notifiedUsers,
  uploadQueue     \* WaitingUser, in their order

counterVars == <<counter, leaving, loaded, raced>>
userVars == <<reservedSlots, notifiedUsers, uploadQueue>>
vars == <<conn, counterVars, userVars>>

Slots == {"STDSLOT", "EXTRASLOT", "PARTIALSLOT"}
NotLoaded == -1
Wrapped(n) == n % 256    \* uint8_t

(***************************************************************************)
(* state: STATE_GET, or STATE_SEND and STATE_RUNNING as "BUSY".  upload:   *)
(* in uploads, or in delayUploads, waiting for the next chunk.  why:       *)
(* history, what its standard slot was given for.                          *)
(***************************************************************************)
Conn == [user : Users \cup {Nobody}, slotType : Slots \cup {"NOSLOT"},
         state : {"GET", "BUSY"}, upload : {"none", "running", "delayed"},
         why : {"none", "person", "free", "auto"}]
Gone == [user |-> Nobody, slotType |-> "NOSLOT", state |-> "GET", upload |-> "none",
         why |-> "none"]
Alive(c) == conn[c].user # Nobody

Init ==
  /\ conn = [c \in Conns |-> Gone]
  /\ counter = [s \in Slots |-> 0]
  /\ leaving = [c \in Conns |-> "NOSLOT"]
  /\ loaded = [c \in Conns |-> NotLoaded]
  /\ raced = FALSE
  /\ reservedSlots = {}
  /\ notifiedUsers = {}
  /\ uploadQueue = <<>>

-----------------------------------------------------------------------------
(* The counters.                                                           *)

\* prepareFile, when the slot is another one
Recounted_KeepsOld(old, new) ==
  [s \in Slots |-> IF s = new /\ old # new THEN Wrapped(counter[s] + 1) ELSE counter[s]]

Recounted(old, new) ==
  [s \in Slots |-> CASE s = old /\ s # new -> Wrapped(counter[s] - 1)
                     [] s = new /\ s # old -> Wrapped(counter[s] + 1)
                     [] OTHER              -> counter[s]]

\* removeConnection
Leaves(c) == leaving[c] # "NOSLOT"

\* bound: after one lost change, nobody touches a counter another is changing
MayTouch(slot) == raced => \A d \in Conns : leaving[d] = slot => loaded[d] = NotLoaded

Load(c) ==
  /\ Leaves(c) /\ loaded[c] = NotLoaded
  /\ MayTouch(leaving[c])
  /\ loaded' = [loaded EXCEPT ![c] = counter[leaving[c]]]
  /\ UNCHANGED <<conn, counter, leaving, raced, userVars>>

Store(c) ==
  /\ Leaves(c) /\ loaded[c] # NotLoaded
  /\ LET slot == leaving[c]
         race == counter[slot] # loaded[c]
     IN  /\ \/ counter' = [counter EXCEPT ![slot] = Wrapped(loaded[c] - 1)]
            \/ race /\ UNCHANGED counter
         /\ raced' = (raced \/ race)
  /\ leaving' = [leaving EXCEPT ![c] = "NOSLOT"]
  /\ loaded' = [loaded EXCEPT ![c] = NotLoaded]
  /\ UNCHANGED <<conn, userVars>>

FreeSlots == IF SLOTS > counter["STDSLOT"] THEN SLOTS - counter["STDSLOT"] ELSE 0
Full == FreeSlots = 0

-----------------------------------------------------------------------------
(* Connections.                                                            *)

\* ConnectionManager has one upload connection for a user at a time.
AddConnection(c, u) ==
  /\ ~Alive(c) /\ ~Leaves(c)
  /\ \A d \in Conns : conn[d].user # u
  /\ conn' = [conn EXCEPT ![c] = [Gone EXCEPT !.user = u]]
  /\ UNCHANGED <<counterVars, userVars>>

\* clearUserFiles, for each of the users
Cleared(users) ==
  LET kept[n \in 0 .. Len(uploadQueue)] ==
        IF n = 0 THEN <<>>
        ELSE IF uploadQueue[n] \in users THEN kept[n - 1]
        ELSE Append(kept[n - 1], uploadQueue[n])
  IN  kept[Len(uploadQueue)]

\* addFailedUpload
AddFailedUpload_Again(u) == Append(uploadQueue, u)

AddFailedUpload(u) ==
  IF u \in ToSet(uploadQueue) THEN uploadQueue ELSE Append(uploadQueue, u)

HasFreeSlot(u) ==
  /\ ~Full
  /\ (uploadQueue = <<>> /\ notifiedUsers = {}) \/ u \in notifiedUsers

\* getAutoSlot, but for the time of the last grant and the speed
AutoSlotAllowed == MIN_UPLOAD_SPEED # 0 /\ SLOTS + AUTO_SLOTS >= counter["STDSLOT"]

(***************************************************************************)
(* prepareFile, once it has the file.  kind: an ordinary file; one that is *)
(* small, or a list, for a user who supports mini slots; a file of which   *)
(* we have only parts.  auto: automatic slots are due.  twin: hasUpload.   *)
(***************************************************************************)
Standard(c, auto, twin) ==
  LET u == conn[c].user IN
  /\ u \in reservedSlots \cup Favourites \/ auto \/ HasFreeSlot(u)
  /\ ~twin

SlotFor(c, kind, auto, twin, op) ==
  CASE conn[c].slotType = "STDSLOT" \/ Standard(c, auto, twin) -> "STDSLOT"
    [] OTHER ->
         CASE /\ kind = "mini"
              /\ conn[c].slotType = "EXTRASLOT" \/ op \/ counter["EXTRASLOT"] < EXTRA_SLOTS
                -> "EXTRASLOT"
           [] /\ kind = "partial"
              /\ \/ conn[c].slotType = "PARTIALSLOT"
                 \/ counter["PARTIALSLOT"] < EXTRA_PARTIAL_SLOTS
                -> "PARTIALSLOT"
           [] OTHER -> "NOSLOT"

Reason(u, slotType) ==
  IF slotType # "STDSLOT" THEN "none"
  ELSE IF u \in reservedSlots \cup Favourites THEN "person"
  ELSE IF HasFreeSlot(u) THEN "free" ELSE "auto"

Grant(c, slotType) ==
  LET u == conn[c].user IN
  /\ conn[c].slotType # slotType => MayTouch(conn[c].slotType) /\ MayTouch(slotType)
  /\ conn' = [conn EXCEPT ![c].state = "BUSY", ![c].upload = "running",
                         ![c].slotType = slotType,
                         ![c].why = IF conn[c].slotType = slotType THEN @
                                    ELSE Reason(u, slotType)]
  /\ counter' = Recounted(conn[c].slotType, slotType)
  /\ uploadQueue' = Cleared({u})
  /\ notifiedUsers' = notifiedUsers \ {u}
  /\ UNCHANGED <<leaving, loaded, raced, reservedSlots>>

\* The connection is told to end, but may ask again before it does.
Refuse(c) ==
  /\ uploadQueue' = AddFailedUpload(conn[c].user)
  /\ UNCHANGED <<conn, counterVars, reservedSlots, notifiedUsers>>

PrepareFile(c) ==
  /\ Alive(c) /\ conn[c].state = "GET"
  /\ \E kind \in {"file", "mini", "partial"}, auto, twin, op \in BOOLEAN :
       /\ auto => AutoSlotAllowed
       /\ twin => \E d \in Conns \ {c} : conn[d].upload = "running"
       /\ LET slotType == SlotFor(c, kind, auto, twin, op) IN
          IF slotType = "NOSLOT" THEN Refuse(c) ELSE Grant(c, slotType)

\* A chunk waits for the next one; the slot is kept in any case.
TransmitDone(c) ==
  /\ conn[c].state = "BUSY"
  /\ \E upload \in {"none", "delayed"} :
       conn' = [conn EXCEPT ![c].state = "GET", ![c].upload = upload]
  /\ UNCHANGED <<counterVars, userVars>>

\* ConnectionManager::failed and putCQI, which end a delayed upload, then
\* on(Failed) and removeConnection
Failed(c) ==
  /\ Alive(c)
  /\ conn' = [conn EXCEPT ![c] = Gone]
  /\ leaving' = [leaving EXCEPT ![c] = conn[c].slotType]
  /\ UNCHANGED <<counter, loaded, raced, userVars>>

-----------------------------------------------------------------------------
(* Timers, the user, and the hubs.                                         *)

\* notifyQueuedUsers
Notified ==
  LET room == FreeSlots - Cardinality(notifiedUsers)
  IN  IF room <= 0 THEN 0
      ELSE IF room < Len(uploadQueue) THEN room ELSE Len(uploadQueue)

Second ==
  /\ \E expired \in SUBSET {c \in Conns : conn[c].upload = "delayed"} :
       conn' = [c \in Conns |-> IF c \in expired THEN [conn[c] EXCEPT !.upload = "none"]
                                ELSE conn[c]]
  /\ notifiedUsers' = notifiedUsers \cup ToSet(SubSeq(uploadQueue, 1, Notified))
  /\ uploadQueue' = SubSeq(uploadQueue, Notified + 1, Len(uploadQueue))
  /\ UNCHANGED <<counterVars, reservedSlots>>

\* A user who was notified and did not ask in time loses his place.
Minute_KeepsNotified(reserved, notified) ==
  /\ reservedSlots' = reservedSlots \ reserved
  /\ uploadQueue' = Cleared(notified)
  /\ UNCHANGED <<conn, counterVars, notifiedUsers>>

Minute(reserved, notified) ==
  /\ reservedSlots' = reservedSlots \ reserved
  /\ uploadQueue' = Cleared(notified)
  /\ notifiedUsers' = notifiedUsers \ notified
  /\ UNCHANGED <<conn, counterVars>>

ReserveSlot(u) ==
  /\ u \in Friends \ reservedSlots
  /\ reservedSlots' = reservedSlots \cup {u}
  /\ UNCHANGED <<conn, counterVars, notifiedUsers, uploadQueue>>

UnreserveSlot(u) ==
  /\ u \in reservedSlots
  /\ reservedSlots' = reservedSlots \ {u}
  /\ UNCHANGED <<conn, counterVars, notifiedUsers, uploadQueue>>

UserDisconnected(u) ==
  /\ u \in ToSet(uploadQueue)
  /\ uploadQueue' = Cleared({u})
  /\ UNCHANGED <<conn, counterVars, reservedSlots, notifiedUsers>>

-----------------------------------------------------------------------------
MinuteFor(u) ==
  \E reserved \in SUBSET reservedSlots, notified \in SUBSET notifiedUsers :
    u \in notified /\ Minute(reserved, notified)

Next ==
  \/ \E c \in Conns :
       \/ \E u \in Users : AddConnection(c, u)
       \/ PrepareFile(c) \/ TransmitDone(c) \/ Failed(c) \/ Load(c) \/ Store(c)
  \/ Second
  \/ \E reserved \in SUBSET reservedSlots, notified \in SUBSET notifiedUsers :
       Minute(reserved, notified)
  \/ \E u \in Users : ReserveSlot(u) \/ UnreserveSlot(u) \/ UserDisconnected(u)

Spec == Init /\ [][Next]_vars

\* The timers tick, nobody stays notified for ever, and threads go on.
Fairness ==
  /\ WF_vars(Second)
  /\ \A u \in Users : WF_vars(MinuteFor(u))
  /\ \A c \in Conns : WF_vars(Load(c) \/ Store(c))

LiveSpec == Spec /\ Fairness

-----------------------------------------------------------------------------
\* The types; and nobody waits in two places of the queue.
SlotsTypeOK ==
  /\ conn \in [Conns -> Conn]
  /\ counter \in [Slots -> 0 .. 255]
  /\ leaving \in [Conns -> Slots \cup {"NOSLOT"}]
  /\ loaded \in [Conns -> {NotLoaded} \cup 0 .. 255]
  /\ raced \in BOOLEAN
  /\ reservedSlots \subseteq Users
  /\ notifiedUsers \subseteq Users
  /\ uploadQueue \in Seq(Users)
  /\ IsInjective(uploadQueue)

(***************************************************************************)
(* Unless a change of a counter was lost to the race of removeConnection,  *)
(* the counters agree with the slots the connections have, no upload is    *)
(* without a slot, and no more free slots are given than the user has set; *)
(* those of favourites and reservations, and the automatic ones, are apart *)
(* (AutoSlotsBounded).                                                     *)
(***************************************************************************)
Holders(slotType) == {c \in Conns : conn[c].slotType = slotType}

CountersAgree ==
  (\A c \in Conns : ~Leaves(c)) =>
    \A s \in Slots : counter[s] = Cardinality(Holders(s))

UploadsHaveSlots ==
  \A c \in Conns : conn[c].upload # "none" => Alive(c) /\ conn[c].slotType # "NOSLOT"

GivenFor(reasons) == Cardinality({c \in Holders("STDSLOT") : conn[c].why \in reasons})

OrdinaryBounded == GivenFor({"free"}) <= SLOTS

SlotsAccounted == ~raced => CountersAgree /\ UploadsHaveSlots /\ OrdinaryBounded

(***************************************************************************)
(* The comment "Max slots" in getAutoSlot, and "Maximum auto opened", as   *)
(* AUTO_SLOTS is called: the slots the client opens by itself are at most  *)
(* AUTO_SLOTS beyond those the user has set.                               *)
(***************************************************************************)
AutoSlotsBounded == ~raced => GivenFor({"free", "auto"}) <= SLOTS + AUTO_SLOTS

(***************************************************************************)
(* While slots stay free, every user in the queue is called in the end,    *)
(* though users who were called before him do not come, and come late.     *)
(***************************************************************************)
WaitingCalled ==
  \A u \in Users : u \in ToSet(uploadQueue) ~> u \notin ToSet(uploadQueue) \/ Full
=============================================================================
