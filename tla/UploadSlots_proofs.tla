------------------------- MODULE UploadSlots_proofs -------------------------
(***************************************************************************)
(* Proofs about UploadSlots, for any users and settings: of the types for  *)
(* any connections, and of the counters for as many as eight bits count.   *)
(***************************************************************************)
EXTENDS UploadSlots, FiniteSetTheorems, NaturalsInduction, WellFoundedInduction, TLAPS

FewConnections == IsFiniteSet(Conns) /\ Cardinality(Conns) <= 255

-----------------------------------------------------------------------------
(***************************************************************************)
(* The inductive invariant.  A slot is counted from its granting until the *)
(* counter has been changed for the connection that has left.              *)
(***************************************************************************)
Counted(s) == {c \in Conns : conn[c].slotType = s \/ leaving[c] = s}
Given(reasons) == {c \in Holders("STDSLOT") : conn[c].why \in reasons}

Types ==
  /\ conn \in [Conns -> Conn]
  /\ counter \in [Slots -> 0 .. 255]
  /\ leaving \in [Conns -> Slots \cup {"NOSLOT"}]
  /\ raced \in BOOLEAN

\* A connection that has left holds nothing, one that is alive is not leaving.
Shape ==
  \A c \in Conns :
    /\ ~Alive(c) => conn[c] = Gone
    /\ Alive(c) => leaving[c] = "NOSLOT"
    /\ conn[c].state = "BUSY" => conn[c].slotType \in Slots
    /\ conn[c].upload # "none" => conn[c].slotType \in Slots

CountersExact == \A s \in Slots : counter[s] = Cardinality(Counted(s))

AutoBound == SLOTS + (IF MIN_UPLOAD_SPEED = 0 THEN 0 ELSE AUTO_SLOTS + 1)

IInv ==
  /\ Types
  /\ Shape
  /\ ~raced => /\ CountersExact
               /\ Cardinality(Given({"free"})) <= SLOTS
               /\ Cardinality(Given({"free", "auto"})) <= AutoBound

-----------------------------------------------------------------------------
\* Sets of connections are finite, and the counters can count them.
LEMMA Counting ==
  ASSUME FewConnections, NEW S \in SUBSET Conns
  PROVE  IsFiniteSet(S) /\ Cardinality(S) \in 0 .. 255
<1>1. IsFiniteSet(S) /\ Cardinality(S) <= Cardinality(Conns)
  BY FS_Subset DEF FewConnections
<1>2. Cardinality(S) \in Nat /\ Cardinality(Conns) \in Nat
  BY <1>1, FS_CardinalityType DEF FewConnections
<1>. QED BY <1>1, <1>2 DEF FewConnections

\* A subset is no larger.
LEMMA Smaller ==
  ASSUME FewConnections, NEW S \in SUBSET Conns, NEW T \in SUBSET S
  PROVE  Cardinality(T) <= Cardinality(S)
  BY Counting, FS_Subset

LEMMA Bounds ==
  /\ SLOTS \in Nat /\ AUTO_SLOTS \in Nat /\ MIN_UPLOAD_SPEED \in Nat
  /\ AutoBound \in Nat /\ SLOTS <= AutoBound
<1>1. SLOTS \in Nat /\ AUTO_SLOTS \in Nat /\ MIN_UPLOAD_SPEED \in Nat
  BY UploadSlotsAssumption
<1>. QED BY <1>1 DEF AutoBound

LEMMA InitInv ==
  ASSUME FewConnections, Init
  PROVE  IInv
<1>1. Gone \in Conn /\ Gone.slotType = "NOSLOT" /\ Gone.upload = "none" /\ Gone.state = "GET"
      /\ Gone.user = Nobody
  BY DEF Gone, Conn
<1>2. Types
  <2>1. conn \in [Conns -> Conn]
    BY <1>1 DEF Init
  <2>2. counter \in [Slots -> 0 .. 255] /\ leaving \in [Conns -> Slots \cup {"NOSLOT"}]
    BY DEF Init
  <2>3. raced \in BOOLEAN
    BY Zenon DEF Init
  <2>. QED BY <2>1, <2>2, <2>3, Zenon DEF Types
<1>3. Shape
  BY <1>1 DEF Shape, Init, Alive
<1>4. \A s \in Slots : Counted(s) = {}
  BY <1>1 DEF Counted, Init, Slots
<1>5. CountersExact
  BY <1>4, FS_EmptySet DEF CountersExact, Init
<1>6. Given({"free"}) = {} /\ Given({"free", "auto"}) = {}
  BY <1>1 DEF Given, Holders, Init
<1>7. Cardinality(Given({"free"})) <= SLOTS /\ Cardinality(Given({"free", "auto"})) <= AutoBound
  BY <1>6, FS_EmptySet, Bounds
<1>. QED BY <1>2, <1>3, <1>5, <1>7 DEF IInv

-----------------------------------------------------------------------------
\* A step that leaves the slots of the connections, and what they were given
\* for, as they are.
LEMMA SlotsKept ==
  ASSUME FewConnections, IInv, Types', Shape', UNCHANGED <<counter, raced>>,
         \A s \in Slots : Counted(s)' = Counted(s),
         \A c \in Conns : conn'[c].slotType = "STDSLOT" =>
           conn[c].slotType = "STDSLOT" /\ conn'[c].why = conn[c].why
  PROVE  IInv'
<1>. SUFFICES ASSUME ~raced
              PROVE  /\ CountersExact'
                     /\ Cardinality(Given({"free"})') <= SLOTS
                     /\ Cardinality(Given({"free", "auto"})') <= AutoBound
  BY DEF IInv, AutoBound
<1>1. CountersExact'
  BY DEF IInv, CountersExact
<1>2. ASSUME NEW r PROVE Given(r)' \subseteq Given(r) /\ Given(r) \subseteq Conns
  BY DEF Given, Holders
<1>3. ASSUME NEW r, NEW b \in Nat, Cardinality(Given(r)) <= b
      PROVE  Cardinality(Given(r)') <= b
  <2>1. Cardinality(Given(r)') <= Cardinality(Given(r))
    BY <1>2, Smaller
  <2>2. Cardinality(Given(r)) \in 0 .. 255 /\ Cardinality(Given(r)') \in 0 .. 255
    BY <1>2, Counting
  <2>. QED BY <1>3, <2>1, <2>2
<1>. QED BY <1>1, <1>3, Bounds DEF IInv

LEMMA AddConnectionKeeps ==
  ASSUME FewConnections, IInv, NEW c \in Conns, NEW u \in Users, AddConnection(c, u)
  PROVE  IInv'
<1>1. /\ ~Alive(c) /\ ~Leaves(c)
      /\ conn' = [conn EXCEPT ![c] = [Gone EXCEPT !.user = u]]
      /\ UNCHANGED <<counter, leaving, raced>>
  BY DEF AddConnection, counterVars
<1>2. [Gone EXCEPT !.user = u] \in Conn /\ conn[c] = Gone
  BY <1>1 DEF IInv, Shape, Gone, Conn
<1>3. Types'
  BY <1>1, <1>2 DEF IInv, Types
<1>4. Shape'
  BY <1>1 DEF IInv, Types, Shape, Alive, Gone, Leaves
<1>5. \A s \in Slots : Counted(s)' = Counted(s)
  BY <1>1, <1>2 DEF Counted, Gone, IInv, Types
<1>. QED BY <1>1, <1>3, <1>4, <1>5, SlotsKept DEF Gone, IInv, Types

LEMMA TransmitDoneKeeps ==
  ASSUME FewConnections, IInv, NEW c \in Conns, TransmitDone(c)
  PROVE  IInv'
<1>1. PICK upload \in {"none", "delayed"} :
        conn' = [conn EXCEPT ![c].state = "GET", ![c].upload = upload]
  BY DEF TransmitDone
<1>2. conn[c].state = "BUSY" /\ UNCHANGED <<counter, leaving, raced>>
  BY DEF TransmitDone, counterVars
<1>3. Types'
  <2>1. [conn[c] EXCEPT !.state = "GET", !.upload = upload] \in Conn
    BY DEF IInv, Types, Conn
  <2>2. conn' = [conn EXCEPT ![c] = [conn[c] EXCEPT !.state = "GET", !.upload = upload]]
    BY <1>1 DEF IInv, Types
  <2>. QED BY <1>2, <2>1, <2>2 DEF IInv, Types
<1>4. Shape'
  BY <1>1, <1>2 DEF IInv, Types, Conn, Shape, Alive, Gone
<1>5. \A s \in Slots : Counted(s)' = Counted(s)
  BY <1>1, <1>2 DEF Counted, IInv, Types, Conn
<1>. QED BY <1>1, <1>2, <1>3, <1>4, <1>5, SlotsKept DEF IInv, Types, Conn

LEMMA FailedKeeps ==
  ASSUME FewConnections, IInv, NEW c \in Conns, Failed(c)
  PROVE  IInv'
<1>1. /\ Alive(c) /\ leaving[c] = "NOSLOT"
      /\ conn' = [conn EXCEPT ![c] = Gone]
      /\ leaving' = [leaving EXCEPT ![c] = conn[c].slotType]
      /\ UNCHANGED <<counter, raced>>
  BY DEF Failed, IInv, Shape
<1>2. Gone \in Conn /\ conn[c].slotType \in Slots \cup {"NOSLOT"}
  BY DEF IInv, Types, Gone, Conn
<1>3. Types'
  BY <1>1, <1>2 DEF IInv, Types
<1>4. Shape'
  BY <1>1 DEF IInv, Types, Shape, Alive, Gone
<1>5. \A s \in Slots : Counted(s)' = Counted(s)
  BY <1>1, <1>2 DEF Counted, Gone, IInv, Types, Slots
<1>. QED BY <1>1, <1>3, <1>4, <1>5, SlotsKept DEF Gone, IInv, Types

LEMMA SecondKeeps ==
  ASSUME FewConnections, IInv, Second
  PROVE  IInv'
<1>1. PICK expired \in SUBSET {c \in Conns : conn[c].upload = "delayed"} :
        conn' = [c \in Conns |-> IF c \in expired THEN [conn[c] EXCEPT !.upload = "none"]
                                 ELSE conn[c]]
  BY DEF Second
<1>2. UNCHANGED <<counter, leaving, raced>>
  BY DEF Second, counterVars
<1>3. \A c \in Conns : /\ conn'[c] \in Conn
                       /\ conn'[c].user = conn[c].user /\ conn'[c].slotType = conn[c].slotType
                       /\ conn'[c].state = conn[c].state /\ conn'[c].why = conn[c].why
                       /\ conn'[c].upload # "none" => conn[c].upload # "none"
                       /\ conn[c] = Gone => conn'[c] = Gone
  BY <1>1 DEF IInv, Types, Conn, Gone
<1>4. Types'
  BY <1>1, <1>2, <1>3 DEF IInv, Types
<1>5. Shape'
  BY <1>2, <1>3 DEF IInv, Shape, Alive
<1>6. \A s \in Slots : Counted(s)' = Counted(s)
  BY <1>2, <1>3 DEF Counted
<1>. QED BY <1>2, <1>3, <1>4, <1>5, <1>6, SlotsKept

LEMMA LoadKeeps ==
  ASSUME FewConnections, IInv, UNCHANGED <<conn, counter, leaving, raced>>
  PROVE  IInv'
<1>1. Types' /\ Shape'
  BY DEF IInv, Types, Shape, Alive
<1>2. \A s \in Slots : Counted(s)' = Counted(s)
  BY DEF Counted
<1>. QED BY <1>1, <1>2, SlotsKept

\* One more or one less is counted as such.
LEMMA WrappedFacts ==
  /\ \A n \in 0 .. 254 : Wrapped(n + 1) = n + 1
  /\ \A n \in 1 .. 255 : Wrapped(n - 1) = n - 1
  /\ \A n \in Int : Wrapped(n) \in 0 .. 255
  BY DEF Wrapped

LEMMA StoreKeeps ==
  ASSUME FewConnections, IInv, NEW c \in Conns, Store(c),
         loaded[c] \in Int
  PROVE  IInv'
<1>1. PICK slot \in Slots : slot = leaving[c]
  BY DEF Store, Leaves, IInv, Types
<1>2. /\ conn' = conn
      /\ leaving' = [leaving EXCEPT ![c] = "NOSLOT"]
      /\ \/ counter' = [counter EXCEPT ![slot] = Wrapped(loaded[c] - 1)]
         \/ counter[slot] # loaded[c] /\ counter' = counter
      /\ raced' = (raced \/ counter[slot] # loaded[c])
  BY <1>1 DEF Store
<1>3. Types'
  <2>1. counter' \in [Slots -> 0 .. 255]
    BY <1>2, WrappedFacts DEF IInv, Types
  <2>2. raced' \in BOOLEAN
    BY <1>2, Zenon DEF IInv, Types
  <2>3. leaving' \in [Conns -> Slots \cup {"NOSLOT"}]
    BY <1>2 DEF IInv, Types
  <2>. QED BY <1>2, <2>1, <2>2, <2>3, Zenon DEF IInv, Types
<1>4. Shape'
  BY <1>1, <1>2 DEF IInv, Types, Shape, Alive
<1>5. ASSUME ~raced'
      PROVE  /\ CountersExact'
             /\ Cardinality(Given({"free"})') <= SLOTS
             /\ Cardinality(Given({"free", "auto"})') <= AutoBound
  <2>1. ~raced /\ counter[slot] = loaded[c]
    BY <1>2, <1>5, Zenon
  <2>2. counter' = [counter EXCEPT ![slot] = Wrapped(counter[slot] - 1)]
    BY <1>2, <2>1
  <2>3. c \in Counted(slot) /\ Counted(slot)' = Counted(slot) \ {c}
    <3>1. conn[c].slotType # slot
      BY <1>1 DEF IInv, Shape, Gone, Slots
    <3>2. \A d \in Conns : d # c => leaving'[d] = leaving[d]
      BY <1>2 DEF IInv, Types
    <3>3. leaving'[c] = "NOSLOT" /\ slot # "NOSLOT"
      BY <1>1, <1>2 DEF IInv, Types, Slots
    <3>. QED BY <1>1, <1>2, <3>1, <3>2, <3>3 DEF Counted
  <2>4. \A s \in Slots : s # slot => Counted(s)' = Counted(s)
    <3>1. \A d \in Conns : \A s \in Slots : s # slot => (leaving'[d] = s <=> leaving[d] = s)
      BY <1>1, <1>2 DEF IInv, Types, Slots
    <3>. QED BY <1>2, <3>1 DEF Counted
  <2>5. IsFiniteSet(Counted(slot)) /\ Cardinality(Counted(slot)) \in 0 .. 255
        /\ Cardinality(Counted(slot)') \in 0 .. 255
    BY Counting DEF Counted
  <2>6. Cardinality(Counted(slot)') = Cardinality(Counted(slot)) - 1
    BY <2>3, <2>5, FS_RemoveElement
  <2>7. counter[slot] = Cardinality(Counted(slot)) /\ counter[slot] \in 1 .. 255
    BY <2>1, <2>5, <2>6 DEF IInv, CountersExact
  <2>8. Wrapped(counter[slot] - 1) = counter[slot] - 1
    BY <2>7, WrappedFacts
  <2>9. \A s \in Slots : counter'[s] = Cardinality(Counted(s)')
    BY <2>1, <2>2, <2>4, <2>6, <2>7, <2>8 DEF IInv, Types, CountersExact
  <2>10. Given({"free"})' = Given({"free"}) /\ Given({"free", "auto"})' = Given({"free", "auto"})
    BY <1>2 DEF Given, Holders
  <2>. QED BY <2>1, <2>9, <2>10 DEF IInv, CountersExact
<1>. QED BY <1>3, <1>4, <1>5 DEF IInv, AutoBound

-----------------------------------------------------------------------------
(***************************************************************************)
(* Granting a slot.  The reason it is granted for bounds its number.       *)
(***************************************************************************)
LEMMA ReasonFact ==
  ASSUME NEW c \in Conns, NEW kind, NEW auto \in BOOLEAN, NEW twin \in BOOLEAN,
         NEW op \in BOOLEAN, NEW slotType, auto => AutoSlotAllowed,
         slotType = SlotFor(c, kind, auto, twin, op),
         conn[c].slotType # "STDSLOT", slotType = "STDSLOT"
  PROVE  /\ Reason(conn[c].user, slotType) \in {"person", "free", "auto"}
         /\ Reason(conn[c].user, slotType) = "free" => ~Full
         /\ Reason(conn[c].user, slotType) = "auto" => AutoSlotAllowed
<1>1. Standard(c, auto, twin)
  BY DEF SlotFor
<1>. QED BY <1>1 DEF Standard, Reason, HasFreeSlot

LEMMA SlotForType ==
  ASSUME NEW c \in Conns, NEW kind, NEW auto, NEW twin, NEW op
  PROVE  SlotFor(c, kind, auto, twin, op) \in Slots \cup {"NOSLOT"}
  BY DEF SlotFor, Slots

LEMMA GrantKeeps ==
  ASSUME FewConnections, IInv, NEW c \in Conns, Alive(c), NEW slotType \in Slots,
         Grant(c, slotType),
         conn[c].slotType # "STDSLOT" /\ slotType = "STDSLOT" =>
           /\ Reason(conn[c].user, slotType) \in {"person", "free", "auto"}
           /\ Reason(conn[c].user, slotType) = "free" => ~Full
           /\ Reason(conn[c].user, slotType) = "auto" => AutoSlotAllowed
  PROVE  IInv'
<1>. DEFINE old == conn[c].slotType
            why == IF old = slotType THEN conn[c].why ELSE Reason(conn[c].user, slotType)
<1>1. /\ conn' = [conn EXCEPT ![c].state = "BUSY", ![c].upload = "running",
                              ![c].slotType = slotType, ![c].why = why]
      /\ counter' = Recounted(old, slotType)
      /\ UNCHANGED <<leaving, raced>>
  BY DEF Grant
<1>2. why \in {"none", "person", "free", "auto"}
  BY DEF Reason, IInv, Types, Conn
<1>. DEFINE new == [conn[c] EXCEPT !.state = "BUSY", !.upload = "running",
                                   !.slotType = slotType, !.why = why]
<1>3. /\ conn'[c].slotType = slotType /\ conn'[c].why = why /\ conn'[c].user = conn[c].user
      /\ conn'[c].state = "BUSY"
      /\ \A d \in Conns : d # c => conn'[d] = conn[d]
      /\ conn' \in [Conns -> Conn]
  <2>. HIDE DEF why, old
  <2>1. conn[c] \in Conn /\ conn \in [Conns -> Conn]
    BY DEF IInv, Types
  <2>2. conn' = [conn EXCEPT ![c] = new]
    BY <1>1, <2>1
  <2>3. /\ new \in Conn /\ new.slotType = slotType /\ new.why = why
        /\ new.user = conn[c].user /\ new.state = "BUSY"
    BY <1>2, <2>1 DEF Conn
  <2>. QED BY <2>1, <2>2, <2>3
<1>4. leaving[c] = "NOSLOT" /\ old \in Slots \cup {"NOSLOT"}
  BY DEF IInv, Types, Shape, Conn
<1>5. Types'
  <2>1. counter' \in [Slots -> 0 .. 255]
    BY <1>1, WrappedFacts DEF Recounted, IInv, Types
  <2>. QED BY <1>1, <1>3, <2>1 DEF IInv, Types
<1>6. Shape'
  BY <1>1, <1>3, <1>4 DEF IInv, Shape, Alive, Gone
<1>7. ASSUME ~raced
      PROVE  /\ CountersExact'
             /\ Cardinality(Given({"free"})') <= SLOTS
             /\ Cardinality(Given({"free", "auto"})') <= AutoBound
  <2>1. \A s \in Slots : counter[s] = Cardinality(Counted(s))
    BY <1>7 DEF IInv, CountersExact
  <2>2. \A s \in Slots : /\ IsFiniteSet(Counted(s)) /\ Cardinality(Counted(s)) \in 0 .. 255
                         /\ Cardinality(Counted(s)') \in 0 .. 255
    BY Counting DEF Counted
  <2>3. \A s \in Slots :
          /\ s = old /\ s # slotType => Counted(s)' = Counted(s) \ {c}
          /\ s = slotType => Counted(s)' = Counted(s) \cup {c}
          /\ s # old /\ s # slotType => Counted(s)' = Counted(s)
    <3>1. slotType # "NOSLOT"
      BY DEF Slots
    <3>. QED BY <1>1, <1>3, <1>4, <3>1 DEF Counted, Slots
  <2>4. CASE old = slotType
    <3>1. \A s \in Slots : counter'[s] = counter[s]
      BY <1>1, <2>4 DEF Recounted
    <3>2. \A s \in Slots : Counted(s)' = Counted(s)
      BY <2>3, <2>4 DEF Counted
    <3>3. CountersExact'
      BY <2>1, <3>1, <3>2 DEF CountersExact
    <3>4. Given({"free"})' = Given({"free"}) /\ Given({"free", "auto"})' = Given({"free", "auto"})
      BY <1>3, <2>4 DEF Given, Holders
    <3>. QED BY <1>7, <3>3, <3>4 DEF IInv
  <2>5. CASE old # slotType
    <3>1. c \notin Counted(slotType) /\ (old \in Slots => c \in Counted(old))
      BY <1>4, <2>5 DEF Counted, Slots
    <3>2. ASSUME NEW s \in Slots PROVE counter'[s] = Cardinality(Counted(s)')
      <4>1. CASE s = old
        <5>1. Counted(s)' = Counted(s) \ {c} /\ counter'[s] = Wrapped(counter[s] - 1)
          BY <1>1, <2>3, <2>5, <4>1 DEF Recounted
        <5>2. Cardinality(Counted(s)') = Cardinality(Counted(s)) - 1
          BY <2>2, <3>1, <4>1, <5>1, FS_RemoveElement
        <5>3. counter[s] \in 1 .. 255
          BY <2>1, <2>2, <5>2
        <5>. QED BY <2>1, <5>1, <5>2, <5>3, WrappedFacts
      <4>2. CASE s = slotType
        <5>1. Counted(s)' = Counted(s) \cup {c} /\ counter'[s] = Wrapped(counter[s] + 1)
          BY <1>1, <2>3, <2>5, <4>2 DEF Recounted
        <5>2. Cardinality(Counted(s)') = Cardinality(Counted(s)) + 1
          BY <2>2, <3>1, <4>2, <5>1, FS_AddElement
        <5>3. counter[s] \in 0 .. 254
          BY <2>1, <2>2, <5>2
        <5>. QED BY <2>1, <5>1, <5>2, <5>3, WrappedFacts
      <4>3. CASE s # old /\ s # slotType
        <5>1. Counted(s)' = Counted(s) /\ counter'[s] = counter[s]
          BY <1>1, <2>3, <2>5, <4>3 DEF Recounted
        <5>. QED BY <2>1, <5>1
      <4>. QED BY <4>1, <4>2, <4>3
    <3>3. ASSUME NEW r PROVE /\ Given(r) \subseteq Conns
                             /\ Given(r)' \subseteq Given(r) \cup {c}
                             /\ slotType # "STDSLOT" \/ why \notin r => Given(r)' \subseteq Given(r)
      BY <1>3 DEF Given, Holders
    <3>4. Given({"free"}) \subseteq Counted("STDSLOT")
          /\ Given({"free", "auto"}) \subseteq Counted("STDSLOT") /\ "STDSLOT" \in Slots
      BY DEF Given, Holders, Counted, Slots
    <3>5. ASSUME NEW r, NEW b \in Nat, Cardinality(Given(r)) <= b,
                 Given(r) \subseteq Counted("STDSLOT"),
                 slotType = "STDSLOT" /\ why \in r => counter["STDSLOT"] < b
          PROVE  Cardinality(Given(r)') <= b
      <4>1. IsFiniteSet(Given(r)) /\ Cardinality(Given(r)) \in Nat
            /\ Cardinality(Given(r)') \in Nat
            /\ IsFiniteSet(Given(r) \cup {c}) /\ Cardinality(Given(r) \cup {c}) \in Nat
        BY <3>3, Counting
      <4>2. CASE slotType = "STDSLOT" /\ why \in r
        <5>1. Cardinality(Given(r)) < b
          <6>1. Counted("STDSLOT") \subseteq Conns
            BY DEF Counted
          <6>2. Cardinality(Given(r)) <= Cardinality(Counted("STDSLOT"))
            BY <3>5, <6>1, Smaller
          <6>3. Cardinality(Counted("STDSLOT")) = counter["STDSLOT"]
                /\ Cardinality(Counted("STDSLOT")) \in Nat
            BY <2>1, <2>2, <3>4
          <6>. QED BY <3>5, <4>1, <4>2, <6>2, <6>3
        <5>2. Cardinality(Given(r) \cup {c}) <= Cardinality(Given(r)) + 1
          BY <4>1, FS_AddElement
        <5>3. Cardinality(Given(r)') <= Cardinality(Given(r) \cup {c})
          BY <3>3, Smaller
        <5>. QED BY <4>1, <5>1, <5>2, <5>3
      <4>3. CASE ~(slotType = "STDSLOT" /\ why \in r)
        <5>1. Given(r)' \subseteq Given(r)
          BY <3>3, <4>3
        <5>2. Cardinality(Given(r)') <= Cardinality(Given(r))
          BY <3>3, <5>1, Smaller
        <5>. QED BY <3>5, <4>1, <5>2
      <4>. QED BY <4>2, <4>3
    <3>6. counter["STDSLOT"] \in Nat
      BY <2>1, <2>2, <3>4
    <3>7. slotType = "STDSLOT" /\ why = "free" => counter["STDSLOT"] < SLOTS
      <4>. SUFFICES ASSUME slotType = "STDSLOT", why = "free" PROVE counter["STDSLOT"] < SLOTS
        OBVIOUS
      <4>1. ~Full
        BY <2>5
      <4>. QED BY <4>1, <3>6, Bounds DEF Full, FreeSlots
    <3>8. slotType = "STDSLOT" /\ why = "auto" => counter["STDSLOT"] < AutoBound
      <4>. SUFFICES ASSUME slotType = "STDSLOT", why = "auto" PROVE counter["STDSLOT"] < AutoBound
        OBVIOUS
      <4>1. AutoSlotAllowed
        BY <2>5
      <4>. QED BY <4>1, <3>6, Bounds DEF AutoSlotAllowed, AutoBound
    <3>9. Cardinality(Given({"free"})') <= SLOTS
      BY <1>7, <3>4, <3>5, <3>7, Bounds DEF IInv
    <3>10. Cardinality(Given({"free", "auto"})') <= AutoBound
      <4>1. slotType = "STDSLOT" /\ why \in {"free", "auto"} => counter["STDSLOT"] < AutoBound
        BY <3>6, <3>7, <3>8, Bounds
      <4>. QED BY <1>7, <3>4, <3>5, <4>1, Bounds DEF IInv
    <3>. QED BY <3>2, <3>9, <3>10 DEF CountersExact
  <2>. QED BY <2>4, <2>5
<1>. QED BY <1>1, <1>5, <1>6, <1>7 DEF IInv, AutoBound

LEMMA PrepareFileKeeps ==
  ASSUME FewConnections, IInv, NEW c \in Conns, PrepareFile(c)
  PROVE  IInv'
<1>1. PICK kind \in {"file", "mini", "partial"}, auto \in BOOLEAN, twin \in BOOLEAN,
           op \in BOOLEAN :
        /\ auto => AutoSlotAllowed
        /\ IF SlotFor(c, kind, auto, twin, op) = "NOSLOT" THEN Refuse(c)
           ELSE Grant(c, SlotFor(c, kind, auto, twin, op))
  BY Zenon DEF PrepareFile
<1>2. PICK slotType \in Slots \cup {"NOSLOT"} : slotType = SlotFor(c, kind, auto, twin, op)
  BY SlotForType
<1>3. CASE slotType = "NOSLOT"
  BY <1>1, <1>2, <1>3, LoadKeeps DEF Refuse, counterVars
<1>4. CASE slotType # "NOSLOT"
  <2>1. Alive(c) /\ slotType \in Slots /\ Grant(c, slotType)
    BY <1>1, <1>2, <1>4 DEF PrepareFile
  <2>2. conn[c].slotType # "STDSLOT" /\ slotType = "STDSLOT" =>
           /\ Reason(conn[c].user, slotType) \in {"person", "free", "auto"}
           /\ Reason(conn[c].user, slotType) = "free" => ~Full
           /\ Reason(conn[c].user, slotType) = "auto" => AutoSlotAllowed
    BY <1>1, <1>2, ReasonFact
  <2>. QED BY <2>1, <2>2, GrantKeeps
<1>. QED BY <1>3, <1>4

-----------------------------------------------------------------------------
(***************************************************************************)
(* The types, for any number of connections.  The queue is the hard part:  *)
(* a user enters it where he is not in it, and what takes users out of it  *)
(* leaves each of the others in one place.  notifiedUsers has to be finite *)
(* for the room that is left to be a number.                               *)
(***************************************************************************)
Lined(q) == q \in Seq(Users) /\ IsInjective(q)

TInv == SlotsTypeOK /\ IsFiniteSet(notifiedUsers)

NatOrder == {p \in Nat \X Nat : p[1] < p[2]}

\* Counting up to k.
LEMMA CountUp ==
  ASSUME NEW k \in Nat, NEW T, 0 \in T, \A n \in 0 .. k : n \in T /\ n < k => n + 1 \in T
  PROVE  k \in T
<1>. DEFINE missing == {n \in 0 .. k : n \notin T}
<1>1. SUFFICES ASSUME k \notin T PROVE FALSE
  OBVIOUS
<1>2. missing \in SUBSET Nat /\ missing # {}
  BY <1>1
<1>3. IsWellFoundedOn(NatOrder, Nat)
  <2>1. OpToRel(<, Nat) = NatOrder
    BY DEF OpToRel, NatOrder
  <2>. QED BY <2>1, NatLessThanWellFounded, Zenon
<1>4. PICK m \in missing : \A n \in missing : ~(<<n, m>> \in NatOrder)
  <2>. HIDE DEF missing
  <2>. QED BY <1>2, <1>3, WFMin
<1>5. m # 0 /\ m \in 0 .. k
  BY <1>4
<1>6. m - 1 \in 0 .. k /\ m - 1 < k /\ <<m - 1, m>> \in NatOrder
  BY <1>5 DEF NatOrder
<1>7. m - 1 \in T
  BY <1>4, <1>6
<1>. QED BY <1>4, <1>5, <1>6, <1>7

\* f is what Cleared keeps of the first k users of q.
IsKept(q, users, k, f) ==
  f = [n \in 0 .. k |-> IF n = 0 THEN <<>>
                        ELSE IF q[n] \in users THEN f[n - 1]
                        ELSE Append(f[n - 1], q[n])]

LEMMA KeptThere ==
  ASSUME NEW q, NEW users, NEW k \in Nat
  PROVE  \E f : IsKept(q, users, k, f)
<1>. DEFINE T == {n \in Nat : \E f : IsKept(q, users, n, f)}
            Step(n, f) == IF q[n] \in users THEN f[n - 1] ELSE Append(f[n - 1], q[n])
<1>1. 0 \in T
  <2>1. IsKept(q, users, 0, [n \in 0 .. 0 |-> <<>>])
    BY DEF IsKept
  <2>. QED BY <2>1
<1>2. ASSUME NEW n \in 0 .. k, n \in T PROVE n + 1 \in T
  <2>1. PICK f : IsKept(q, users, n, f)
    BY <1>2
  <2>. DEFINE last == IF q[n + 1] \in users THEN f[n] ELSE Append(f[n], q[n + 1])
              g == [i \in 0 .. n + 1 |-> IF i = n + 1 THEN last ELSE f[i]]
              h == [i \in 0 .. n + 1 |-> IF i = 0 THEN <<>> ELSE Step(i, g)]
  <2>2. ASSUME NEW i \in 0 .. n + 1 PROVE g[i] = h[i]
    <3>1. CASE i = n + 1
      <4>1. g[n] = f[n] /\ i - 1 = n /\ i # 0
        BY <3>1
      <4>2. g[i] = last /\ h[i] = Step(i, g)
        BY <3>1, <4>1
      <4>3. Step(i, g) = last
        BY <3>1, <4>1
      <4>. QED BY <4>2, <4>3
    <3>2. CASE i = 0
      BY <2>1, <3>2 DEF IsKept
    <3>3. CASE i # n + 1 /\ i # 0
      <4>1. i \in 0 .. n /\ i - 1 \in 0 .. n
        BY <3>3
      <4>2. f[i] = Step(i, f)
        BY <2>1, <3>3, <4>1 DEF IsKept
      <4>3. g[i] = f[i] /\ g[i - 1] = f[i - 1]
        BY <3>3, <4>1
      <4>. QED BY <3>3, <4>2, <4>3
    <3>. QED BY <3>1, <3>2, <3>3
  <2>3. g = h
    BY <2>2
  <2>4. IsKept(q, users, n + 1, g)
    BY <2>3 DEF IsKept
  <2>. QED BY <2>4
<1>3. k \in T
  <2>. HIDE DEF T
  <2>. QED BY <1>1, <1>2, CountUp
<1>. QED BY <1>3

\* Who stays in the queue stays in one place of it.
LEMMA ClearedLined ==
  ASSUME Lined(uploadQueue), NEW users
  PROVE  Lined(Cleared(users))
<1>. DEFINE q == uploadQueue
            k == Len(uploadQueue)
            f == CHOOSE kept : IsKept(q, users, k, kept)
            Good(n) == /\ Lined(f[n])
                       /\ \A i \in 1 .. Len(f[n]) : \E j \in 1 .. n : f[n][i] = q[j]
            T == {n \in 0 .. k : Good(n)}
<1>1. k \in Nat /\ q \in Seq(Users) /\ IsInjective(q)
  BY DEF Lined
<1>2. Cleared(users) = f[k]
  BY DEF Cleared, IsKept
<1>3. IsKept(q, users, k, f)
  <2>1. \E kept : IsKept(q, users, k, kept)
    BY <1>1, KeptThere
  <2>. QED BY <2>1
<1>. HIDE DEF f
<1>4. 0 \in T
  <2>1. f[0] = <<>>
    BY <1>1, <1>3 DEF IsKept
  <2>2. Lined(<<>>)
    BY DEF Lined, IsInjective
  <2>3. \A i \in 1 .. Len(f[0]) : \E j \in 1 .. 0 : f[0][i] = q[j]
    BY <2>1
  <2>. QED BY <1>1, <2>1, <2>2, <2>3
<1>5. ASSUME NEW n \in 0 .. k, n \in T, n < k PROVE n + 1 \in T
  <2>1. n + 1 \in 1 .. k /\ q[n + 1] \in Users
    BY <1>1, <1>5
  <2>2. f[n + 1] = IF q[n + 1] \in users THEN f[n] ELSE Append(f[n], q[n + 1])
    <3>1. n + 1 \in 0 .. k /\ n + 1 # 0 /\ (n + 1) - 1 = n
      BY <1>1, <1>5
    <3>2. f[n + 1] = IF q[n + 1] \in users THEN f[(n + 1) - 1]
                     ELSE Append(f[(n + 1) - 1], q[n + 1])
      <4>. HIDE DEF q, k
      <4>. QED BY <1>3, <3>1 DEF IsKept
    <3>. QED BY <3>1, <3>2
  <2>3. CASE q[n + 1] \in users
    <3>1. f[n + 1] = f[n] /\ Good(n)
      BY <1>5, <2>2, <2>3
    <3>2. \A i \in 1 .. Len(f[n]) : \E j \in 1 .. n + 1 : f[n][i] = q[j]
      <4>1. \A j \in 1 .. n : j \in 1 .. n + 1
        BY <1>5
      <4>. QED BY <3>1, <4>1
    <3>3. Lined(f[n + 1])
      BY <3>1
    <3>4. \A i \in 1 .. Len(f[n + 1]) : \E j \in 1 .. n + 1 : f[n + 1][i] = q[j]
      BY <3>1, <3>2
    <3>. QED BY <2>1, <3>3, <3>4
  <2>4. CASE q[n + 1] \notin users
    <3>1. f[n + 1] = Append(f[n], q[n + 1]) /\ f[n] \in Seq(Users) /\ IsInjective(f[n])
      BY <1>5, <2>2, <2>4 DEF Lined
    <3>2. \A i \in 1 .. Len(f[n]) : f[n][i] # q[n + 1]
      BY <1>1, <1>5, <2>1 DEF IsInjective
    <3>3. /\ f[n + 1] \in Seq(Users) /\ Len(f[n + 1]) = Len(f[n]) + 1
          /\ \A i \in 1 .. Len(f[n]) : f[n + 1][i] = f[n][i]
          /\ f[n + 1][Len(f[n]) + 1] = q[n + 1]
      BY <2>1, <3>1
    <3>4. IsInjective(f[n + 1])
      BY <3>1, <3>2, <3>3 DEF IsInjective
    <3>5. \A i \in 1 .. Len(f[n + 1]) : \E j \in 1 .. n + 1 : f[n + 1][i] = q[j]
      BY <1>5, <2>1, <3>1, <3>3
    <3>. QED BY <2>1, <3>3, <3>4, <3>5 DEF Lined
  <2>. QED BY <2>3, <2>4
<1>6. k \in T
  <2>. HIDE DEF T
  <2>. QED BY <1>1, <1>4, <1>5, CountUp
<1>. QED BY <1>2, <1>6

LEMMA AddFailedUploadLined ==
  ASSUME Lined(uploadQueue), NEW u \in Users
  PROVE  Lined(AddFailedUpload(u))
<1>1. CASE u \in ToSet(uploadQueue)
  BY <1>1 DEF AddFailedUpload
<1>2. CASE u \notin ToSet(uploadQueue)
  <2>1. \A i \in 1 .. Len(uploadQueue) : uploadQueue[i] # u
    BY <1>2 DEF ToSet, Lined
  <2>. QED BY <1>2, <2>1 DEF AddFailedUpload, Lined, IsInjective
<1>. QED BY <1>1, <1>2

\* on(Second) calls users from the front of the queue, as many as there is room for.
LEMMA SecondTypes ==
  ASSUME TInv, Second
  PROVE  /\ Lined(uploadQueue') /\ notifiedUsers' \subseteq Users /\ IsFiniteSet(notifiedUsers')
<1>. DEFINE q == uploadQueue
            called == ToSet(SubSeq(q, 1, Notified))
<1>1. q \in Seq(Users) /\ IsInjective(q) /\ Len(q) \in Nat
  BY DEF TInv, SlotsTypeOK
<1>2. Notified \in 0 .. Len(q)
  <2>1. Cardinality(notifiedUsers) \in Nat
    BY FS_CardinalityType DEF TInv
  <2>2. FreeSlots \in Nat
    <3>1. counter["STDSLOT"] \in 0 .. 255
      BY DEF TInv, SlotsTypeOK, Slots
    <3>. QED BY <3>1, Bounds DEF FreeSlots
  <2>. QED BY <1>1, <2>1, <2>2 DEF Notified
<1>3. uploadQueue' = SubSeq(q, Notified + 1, Len(q)) /\ notifiedUsers' = notifiedUsers \cup called
  BY DEF Second
<1>. HIDE DEF q
<1>4. called \subseteq Users /\ IsFiniteSet(called)
  <2>1. SubSeq(q, 1, Notified) \in Seq(Users)
    BY <1>1, <1>2
  <2>2. called \subseteq Users
    BY <2>1 DEF ToSet
  <2>3. IsFiniteSet(1 .. Len(SubSeq(q, 1, Notified)))
    BY <2>1, FS_Interval
  <2>4. SubSeq(q, 1, Notified) \in Surjection(1 .. Len(SubSeq(q, 1, Notified)), called)
    <3>. DEFINE s == SubSeq(q, 1, Notified)
    <3>1. s \in Seq(Users) /\ DOMAIN s = 1 .. Len(s) /\ called = {s[i] : i \in DOMAIN s}
      BY <2>1 DEF ToSet
    <3>2. s = [i \in 1 .. Len(s) |-> s[i]] /\ \A i \in 1 .. Len(s) : s[i] \in called
      <4>. HIDE DEF s, called
      <4>. QED BY <3>1
    <3>3. \A u \in called : \E i \in 1 .. Len(s) : s[i] = u
      <4>. HIDE DEF s, called
      <4>. QED BY <3>1
    <3>. HIDE DEF s, called
    <3>4. s \in [1 .. Len(s) -> called]
      BY <3>2
    <3>5. s \in Surjection(1 .. Len(s), called)
      BY <3>3, <3>4 DEF Surjection
    <3>. QED BY <3>5 DEF s
  <2>. QED BY <2>2, <2>3, <2>4, FS_Surjection
<1>5. IsFiniteSet(notifiedUsers') /\ notifiedUsers' \subseteq Users
  BY <1>3, <1>4, FS_Union DEF TInv, SlotsTypeOK
<1>6. Lined(uploadQueue')
  BY <1>1, <1>2, <1>3 DEF Lined, IsInjective
<1>. QED BY <1>5, <1>6

LEMMA QueueStep ==
  ASSUME TInv, [Next]_vars
  PROVE  Lined(uploadQueue') /\ notifiedUsers' \subseteq Users /\ IsFiniteSet(notifiedUsers')
<1>. USE DEF TInv, SlotsTypeOK
<1>1. Lined(uploadQueue)
  BY DEF Lined
<1>2. ASSUME UNCHANGED <<uploadQueue, notifiedUsers>>
      PROVE  Lined(uploadQueue') /\ notifiedUsers' \subseteq Users /\ IsFiniteSet(notifiedUsers')
  BY <1>1, <1>2
<1>3. ASSUME NEW c \in Conns, PrepareFile(c)
      PROVE  Lined(uploadQueue') /\ notifiedUsers' \subseteq Users /\ IsFiniteSet(notifiedUsers')
  <2>1. conn[c].user \in Users
    BY <1>3 DEF PrepareFile, Alive, Conn
  <2>2. CASE Refuse(c)
    BY <1>1, <2>1, <2>2, AddFailedUploadLined DEF Refuse
  <2>3. ASSUME NEW slotType, Grant(c, slotType)
        PROVE  Lined(uploadQueue') /\ notifiedUsers' \subseteq Users /\ IsFiniteSet(notifiedUsers')
    <3>1. /\ uploadQueue' = Cleared({conn[c].user})
          /\ notifiedUsers' = notifiedUsers \ {conn[c].user}
      BY <2>3 DEF Grant
    <3>. QED BY <1>1, <3>1, ClearedLined, FS_Difference
  <2>. QED BY <1>3, <2>2, <2>3, Zenon DEF PrepareFile
<1>4. ASSUME NEW r, NEW n, Minute(r, n)
      PROVE  Lined(uploadQueue') /\ notifiedUsers' \subseteq Users /\ IsFiniteSet(notifiedUsers')
  BY <1>1, <1>4, ClearedLined, FS_Difference DEF Minute
<1>5. ASSUME NEW u \in Users, UserDisconnected(u)
      PROVE  Lined(uploadQueue') /\ notifiedUsers' \subseteq Users /\ IsFiniteSet(notifiedUsers')
  BY <1>1, <1>5, ClearedLined DEF UserDisconnected
<1>6. ASSUME NEW c \in Conns, NEW u \in Users, AddConnection(c, u)
      PROVE  UNCHANGED <<uploadQueue, notifiedUsers>>
  BY <1>6 DEF AddConnection, userVars
<1>7. ASSUME NEW c \in Conns, TransmitDone(c) \/ Failed(c) \/ Load(c) \/ Store(c)
      PROVE  UNCHANGED <<uploadQueue, notifiedUsers>>
  BY <1>7 DEF TransmitDone, Failed, Load, Store, userVars
<1>8. ASSUME NEW u \in Users, ReserveSlot(u) \/ UnreserveSlot(u)
      PROVE  UNCHANGED <<uploadQueue, notifiedUsers>>
  BY <1>8 DEF ReserveSlot, UnreserveSlot
<1>9. UNCHANGED vars => UNCHANGED <<uploadQueue, notifiedUsers>>
  BY DEF vars, userVars
<1>. QED BY <1>2, <1>3, <1>4, <1>5, <1>6, <1>7, <1>8, <1>9, SecondTypes, Zenon DEF Next

\* A connection whose slot is granted keeps its type.
LEMMA GrantTypes ==
  ASSUME TInv, NEW c \in Conns, NEW slotType \in Slots, Grant(c, slotType)
  PROVE  conn' \in [Conns -> Conn] /\ counter' \in [Slots -> 0 .. 255]
<1>. DEFINE why == IF conn[c].slotType = slotType THEN conn[c].why
                   ELSE Reason(conn[c].user, slotType)
            new == [conn[c] EXCEPT !.state = "BUSY", !.upload = "running",
                                   !.slotType = slotType, !.why = why]
<1>1. conn[c] \in Conn /\ conn \in [Conns -> Conn] /\ counter \in [Slots -> 0 .. 255]
  BY DEF TInv, SlotsTypeOK
<1>2. why \in {"none", "person", "free", "auto"}
  BY <1>1 DEF Reason, Conn
<1>3. conn' = [conn EXCEPT ![c].state = "BUSY", ![c].upload = "running",
                           ![c].slotType = slotType, ![c].why = why]
      /\ counter' = Recounted(conn[c].slotType, slotType)
  BY DEF Grant
<1>4. conn' \in [Conns -> Conn]
  <2>. HIDE DEF why
  <2>1. conn' = [conn EXCEPT ![c] = new]
    BY <1>1, <1>3
  <2>2. new \in Conn
    BY <1>1, <1>2 DEF Conn
  <2>. QED BY <1>1, <2>1, <2>2
<1>5. counter' \in [Slots -> 0 .. 255]
  BY <1>1, <1>3, WrappedFacts DEF Recounted
<1>. QED BY <1>4, <1>5

LEMMA CountStep ==
  ASSUME TInv, [Next]_vars
  PROVE  /\ conn' \in [Conns -> Conn]
         /\ counter' \in [Slots -> 0 .. 255]
         /\ leaving' \in [Conns -> Slots \cup {"NOSLOT"}]
         /\ loaded' \in [Conns -> {NotLoaded} \cup 0 .. 255]
         /\ raced' \in BOOLEAN
<1>. DEFINE Counters == /\ counter' \in [Slots -> 0 .. 255]
                        /\ leaving' \in [Conns -> Slots \cup {"NOSLOT"}]
                        /\ loaded' \in [Conns -> {NotLoaded} \cup 0 .. 255]
                        /\ raced' \in BOOLEAN
            Good == conn' \in [Conns -> Conn] /\ Counters
<1>1. /\ conn \in [Conns -> Conn]
      /\ counter \in [Slots -> 0 .. 255]
      /\ leaving \in [Conns -> Slots \cup {"NOSLOT"}]
      /\ loaded \in [Conns -> {NotLoaded} \cup 0 .. 255]
      /\ raced \in BOOLEAN
  BY DEF TInv, SlotsTypeOK
<1>2. Gone \in Conn
  BY DEF Gone, Conn
<1>3. ASSUME UNCHANGED counterVars PROVE Counters
  BY <1>1, <1>3, Zenon DEF counterVars
<1>4. ASSUME UNCHANGED <<conn, counterVars>> PROVE Good
  BY <1>1, <1>3, <1>4
<1>5. ASSUME NEW c \in Conns, NEW u \in Users, AddConnection(c, u) PROVE Good
  <2>1. [Gone EXCEPT !.user = u] \in Conn
    BY DEF Gone, Conn
  <2>. QED BY <1>1, <1>3, <1>5, <2>1 DEF AddConnection
<1>6. ASSUME NEW c \in Conns, TransmitDone(c) PROVE Good
  <2>1. PICK upload \in {"none", "delayed"} :
          conn' = [conn EXCEPT ![c].state = "GET", ![c].upload = upload]
    BY <1>6 DEF TransmitDone
  <2>2. conn' = [conn EXCEPT ![c] = [conn[c] EXCEPT !.state = "GET", !.upload = upload]]
    BY <1>1, <2>1
  <2>3. [conn[c] EXCEPT !.state = "GET", !.upload = upload] \in Conn
    <3>1. conn[c] \in Conn
      BY <1>1, <1>6
    <3>. QED BY <2>1, <3>1 DEF Conn
  <2>4. conn' \in [Conns -> Conn]
    BY <1>1, <2>2, <2>3
  <2>. QED BY <1>3, <1>6, <2>4 DEF TransmitDone
<1>7. ASSUME NEW c \in Conns, Failed(c) PROVE Good
  <2>1. conn[c].slotType \in Slots \cup {"NOSLOT"}
    BY <1>1 DEF Conn
  <2>2. raced' \in BOOLEAN
    BY <1>1, <1>7, Zenon DEF Failed
  <2>. QED BY <1>1, <1>2, <1>7, <2>1, <2>2 DEF Failed
<1>8. ASSUME NEW c \in Conns, Load(c) PROVE Good
  <2>1. counter[leaving[c]] \in 0 .. 255
    BY <1>1, <1>8 DEF Load, Leaves
  <2>2. raced' \in BOOLEAN
    BY <1>1, <1>8, Zenon DEF Load
  <2>. QED BY <1>1, <1>8, <2>1, <2>2 DEF Load
<1>9. ASSUME NEW c \in Conns, Store(c) PROVE Good
  <2>1. leaving[c] \in Slots /\ loaded[c] \in Int
    BY <1>1, <1>9 DEF Store, Leaves, NotLoaded
  <2>2. Wrapped(loaded[c] - 1) \in 0 .. 255
    BY <2>1, WrappedFacts
  <2>3. raced' \in BOOLEAN
    BY <1>1, <1>9, Zenon DEF Store
  <2>4. counter' \in [Slots -> 0 .. 255]
    BY <1>1, <1>9, <2>1, <2>2 DEF Store
  <2>. QED BY <1>1, <1>9, <2>3, <2>4 DEF Store
<1>10. ASSUME NEW c \in Conns, PrepareFile(c) PROVE Good
  <2>1. ASSUME NEW slotType \in Slots, Grant(c, slotType) PROVE Good
    <3>1. UNCHANGED <<leaving, loaded, raced>>
      BY <2>1 DEF Grant
    <3>. QED BY <1>1, <2>1, <3>1, GrantTypes, Zenon
  <2>2. CASE Refuse(c)
    BY <1>4, <2>2 DEF Refuse
  <2>3. PICK slotType \in Slots \cup {"NOSLOT"} :
          IF slotType = "NOSLOT" THEN Refuse(c) ELSE Grant(c, slotType)
    BY <1>10, SlotForType, Zenon DEF PrepareFile
  <2>. HIDE DEF Good
  <2>. QED BY <2>1, <2>2, <2>3
<1>11. ASSUME Second PROVE Good
  <2>1. PICK expired \in SUBSET {c \in Conns : conn[c].upload = "delayed"} :
          conn' = [c \in Conns |-> IF c \in expired THEN [conn[c] EXCEPT !.upload = "none"]
                                   ELSE conn[c]]
    BY <1>11 DEF Second
  <2>2. \A c \in Conns : [conn[c] EXCEPT !.upload = "none"] \in Conn
    BY <1>1 DEF Conn
  <2>3. conn' \in [Conns -> Conn]
    BY <1>1, <2>1, <2>2
  <2>. QED BY <1>3, <1>11, <2>3 DEF Second
<1>12. ASSUME NEW u \in Users, ReserveSlot(u) \/ UnreserveSlot(u) \/ UserDisconnected(u)
       PROVE  Good
  BY <1>4, <1>12 DEF ReserveSlot, UnreserveSlot, UserDisconnected
<1>13. ASSUME NEW r, NEW n, Minute(r, n) PROVE Good
  BY <1>4, <1>13 DEF Minute
<1>14. UNCHANGED vars => Good
  BY <1>4 DEF vars
<1>15. Good
  <2>. HIDE DEF Good
  <2>. QED BY <1>5, <1>6, <1>7, <1>8, <1>9, <1>10, <1>11, <1>12, <1>13, <1>14, Zenon DEF Next
<1>. QED BY <1>15, Zenon

LEMMA ReservedStep ==
  ASSUME TInv, [Next]_vars
  PROVE  reservedSlots' \subseteq Users
<1>1. reservedSlots \subseteq Users
  BY DEF TInv, SlotsTypeOK
<1>2. ASSUME NEW u \in Users, ReserveSlot(u) \/ UnreserveSlot(u) PROVE reservedSlots' \subseteq Users
  BY <1>1, <1>2 DEF ReserveSlot, UnreserveSlot
<1>3. ASSUME NEW r, NEW n, Minute(r, n) PROVE reservedSlots' \subseteq Users
  BY <1>1, <1>3 DEF Minute
<1>4. ASSUME NEW c \in Conns, PrepareFile(c) PROVE UNCHANGED reservedSlots
  BY <1>4 DEF PrepareFile, Refuse, Grant
<1>5. ASSUME NEW c \in Conns, TransmitDone(c) \/ Failed(c) \/ Load(c) \/ Store(c)
      PROVE  UNCHANGED reservedSlots
  BY <1>5 DEF TransmitDone, Failed, Load, Store, userVars
<1>6. ASSUME NEW c \in Conns, NEW u \in Users, AddConnection(c, u) PROVE UNCHANGED reservedSlots
  BY <1>6 DEF AddConnection, userVars
<1>7. ASSUME NEW u \in Users, UserDisconnected(u) PROVE UNCHANGED reservedSlots
  BY <1>7 DEF UserDisconnected
<1>8. Second \/ UNCHANGED vars => UNCHANGED reservedSlots
  BY DEF Second, vars, userVars
<1>. QED BY <1>1, <1>2, <1>3, <1>4, <1>5, <1>6, <1>7, <1>8, Zenon DEF Next

\* The slots, their counters and who waits keep their types, and no refusal, call,
\* grant, timer or user who leaves makes a user wait in two places of the queue.
THEOREM TypesAreKept == Spec => []SlotsTypeOK
<1>1. Init => TInv
  <2>. SUFFICES ASSUME Init PROVE TInv
    OBVIOUS
  <2>1. conn \in [Conns -> Conn]
    BY DEF Init, Gone, Conn
  <2>2. /\ counter \in [Slots -> 0 .. 255] /\ leaving \in [Conns -> Slots \cup {"NOSLOT"}]
        /\ loaded \in [Conns -> {NotLoaded} \cup 0 .. 255]
        /\ reservedSlots \subseteq Users /\ notifiedUsers \subseteq Users
        /\ uploadQueue \in Seq(Users) /\ IsInjective(uploadQueue)
    BY DEF Init, IsInjective
  <2>3. raced \in BOOLEAN
    BY Zenon DEF Init
  <2>4. IsFiniteSet(notifiedUsers)
    BY FS_EmptySet DEF Init
  <2>. QED BY <2>1, <2>2, <2>3, <2>4, Zenon DEF TInv, SlotsTypeOK
<1>2. TInv /\ [Next]_vars => TInv'
  BY CountStep, QueueStep, ReservedStep, Zenon DEF TInv, SlotsTypeOK, Lined
<1>3. TInv => SlotsTypeOK
  BY DEF TInv
<1>. QED BY <1>1, <1>2, <1>3, PTL DEF Spec

-----------------------------------------------------------------------------
\* IInv is kept by every step; the types bound what Store writes.

LEMMA NextInv ==
  ASSUME FewConnections, IInv, SlotsTypeOK, [Next]_vars
  PROVE  IInv'
<1>1. ASSUME NEW c \in Conns, NEW u \in Users, AddConnection(c, u) PROVE IInv'
  BY <1>1, AddConnectionKeeps
<1>2. ASSUME NEW c \in Conns, PrepareFile(c) PROVE IInv'
  BY <1>2, PrepareFileKeeps
<1>3. ASSUME NEW c \in Conns, TransmitDone(c) PROVE IInv'
  BY <1>3, TransmitDoneKeeps
<1>4. ASSUME NEW c \in Conns, Failed(c) PROVE IInv'
  BY <1>4, FailedKeeps
<1>5. ASSUME NEW c \in Conns, Load(c) PROVE IInv'
  BY <1>5, LoadKeeps DEF Load
<1>6. ASSUME NEW c \in Conns, Store(c) PROVE IInv'
  <2>1. loaded[c] \in Int
    <3>1. loaded \in [Conns -> {NotLoaded} \cup 0 .. 255]
      BY DEF SlotsTypeOK
    <3>. QED BY <3>1 DEF NotLoaded
  <2>. QED BY <1>6, <2>1, StoreKeeps
<1>7. CASE Second
  BY <1>7, SecondKeeps
<1>8. ASSUME UNCHANGED <<conn, counterVars>> PROVE IInv'
  BY <1>8, LoadKeeps DEF counterVars
<1>. QED BY <1>1, <1>2, <1>3, <1>4, <1>5, <1>6, <1>7, <1>8, Zenon
     DEF Next, Minute, ReserveSlot, UnreserveSlot, UserDisconnected, vars, counterVars

LEMMA Invariant == FewConnections => (Spec => []IInv)
<1>1. FewConnections /\ Init => IInv
  BY InitInv
<1>2. FewConnections /\ IInv /\ SlotsTypeOK /\ [Next]_vars => IInv'
  BY NextInv
<1>3. FewConnections => []FewConnections
  OBVIOUS
<1>. QED BY <1>1, <1>2, <1>3, TypesAreKept, PTL DEF Spec

\* The counters agree with the slots in use unless a change was lost, no upload
\* is without a slot, and removals, grants and timers in any order never let more
\* free slots be given than the user has set.
THEOREM SlotsAreAccounted == FewConnections => (Spec => []SlotsAccounted)
<1>1. FewConnections /\ IInv => SlotsAccounted
  <2>. SUFFICES ASSUME FewConnections, IInv, ~raced
                PROVE  CountersAgree /\ UploadsHaveSlots /\ OrdinaryBounded
    BY DEF SlotsAccounted
  <2>1. CountersAgree
    <3>. SUFFICES ASSUME \A c \in Conns : ~Leaves(c), NEW s \in Slots
                  PROVE  counter[s] = Cardinality(Holders(s))
      BY DEF CountersAgree
    <3>1. Counted(s) = Holders(s)
      BY DEF Counted, Holders, Leaves, Slots
    <3>. QED BY <3>1 DEF IInv, CountersExact
  <2>2. UploadsHaveSlots
    BY DEF UploadsHaveSlots, IInv, Shape, Gone, Slots
  <2>3. OrdinaryBounded
    BY DEF OrdinaryBounded, GivenFor, Given, IInv
  <2>. QED BY <2>1, <2>2, <2>3
<1>2. FewConnections => []FewConnections
  OBVIOUS
<1>. QED BY <1>1, <1>2, Invariant, PTL

\* getAutoSlot's comparison lets one automatic slot more be opened than AUTO_SLOTS
\* says (AutoSlotsBounded), and never a second one.
THEOREM AutoSlotsOneOver ==
  FewConnections /\ MIN_UPLOAD_SPEED # 0 =>
    (Spec => [](~raced => GivenFor({"free", "auto"}) <= SLOTS + AUTO_SLOTS + 1))
<1>. DEFINE Bounded == ~raced => GivenFor({"free", "auto"}) <= SLOTS + AUTO_SLOTS + 1
<1>. SUFFICES ASSUME FewConnections, MIN_UPLOAD_SPEED # 0 PROVE Spec => []Bounded
  OBVIOUS
<1>1. IInv => Bounded
  <2>1. AutoBound = SLOTS + AUTO_SLOTS + 1
    BY Bounds DEF AutoBound
  <2>. QED BY <2>1 DEF GivenFor, Given, Holders, IInv
<1>2. Spec => []IInv
  BY Invariant
<1>. HIDE DEF Bounded
<1>. QED BY <1>1, <1>2, PTL
=============================================================================
