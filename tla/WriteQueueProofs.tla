-------------------------- MODULE WriteQueueProofs --------------------------
(* Theorems about WriteQueue, for every number of sockets and ring size. *)
EXTENDS WriteQueue, TLAPS

(* The cursors stay on the ring. *)
LEMMA ZeroInSlots == 0 \in Slots
  BY NAssumption DEF Slots

LEMMA SuccessorInSlots == ASSUME NEW i \in Slots PROVE Successor(i) \in Slots
  BY NAssumption DEF Slots, Successor

(* Clearing a socket keeps the types: slots are emptied, never filled. *)
LEMMA ClearSlotsType ==
  ASSUME TypeOK, NEW s \in Sockets, ClearSlots(s)
  PROVE  /\ writes' \in [Slots -> Message \cup {NoMsg}]
         /\ lastBuffered' \in Slots /\ lastWritten' \in Slots
         /\ added' \in Nat /\ base' \in Nat
         /\ sent' \in [Sockets -> Seq([msg : Message, to : Nat])]
         /\ overwritten' \subseteq Nat /\ cleared' \subseteq Nat
<1>1. writes' \in [Slots -> Message \cup {NoMsg}]
  BY DEF TypeOK, ClearSlots
<1>2. cleared' \subseteq Nat
  BY DEF TypeOK, ClearSlots, Pending, Message
<1>3. added' \in Nat /\ base' \in Nat /\ overwritten' \subseteq Nat
      /\ sent' \in [Sockets -> Seq([msg : Message, to : Nat])]
  BY DEF TypeOK, ClearSlots
<1>4. lastBuffered' \in Slots /\ lastWritten' \in Slots
  BY ZeroInSlots DEF ClearSlots
<1>5. QED
  BY <1>1, <1>2, <1>3, <1>4

(* A close frees the slots of the current socket, or nothing (API). *)
LEMMA ClosedEffect ==
  ASSUME TypeOK, NEW s \in Sockets, Closed(s)
  PROVE  \/ protocol # "api" /\ current \in Sockets /\ ClearSlots(current)
         \/ protocol = "api" /\ UNCHANGED <<ring, history>>
BY DEF TypeOK, Closed

(* Type correctness: in particular the cursors never leave the ring and a  *)
(* walk is always on behalf of one of the protocol's sockets.              *)
THEOREM TypeCorrect == Spec => []TypeOK
<1>1. Init => TypeOK
  <2> SUFFICES ASSUME Init PROVE TypeOK
    OBVIOUS
  <2>1. sent \in [Sockets -> Seq([msg : Message, to : Nat])]
    BY DEF Init
  <2>2. QED
    BY <2>1, ZeroInSlots, ProtocolsAssumption DEF Init, TypeOK
<1>2. TypeOK /\ [Next]_vars => TypeOK'
  <2> SUFFICES ASSUME TypeOK, [Next]_vars PROVE TypeOK'
    OBVIOUS
  <2>1. CASE UNCHANGED vars
    BY <2>1 DEF TypeOK, vars, ring, walk, link, history
  <2>2. ASSUME NEW s \in Sockets, Established(s) PROVE TypeOK'
    <3>1. conn[s] + 1 \in Nat
      BY DEF TypeOK
    <3>2. conn' \in [Sockets -> Nat] /\ open' \subseteq Sockets
      BY <2>2, <3>1 DEF TypeOK, Established
    <3>3. current' \in Sockets \cup {NoSocket} /\ overlapped' \in BOOLEAN
      BY <2>2 DEF TypeOK, Established, CurrentAfter
    <3>4. QED
      BY <2>2, <3>2, <3>3 DEF TypeOK, Established, ring, walk, history
  <2>3. ASSUME NEW s \in Sockets, AddWriteToQueue(s) PROVE TypeOK'
    <3>1. [fd |-> s, conn |-> conn[s], id |-> added] \in Message
      BY <2>3 DEF TypeOK, Message
    <3>2. writes' \in [Slots -> Message \cup {NoMsg}]
      BY <2>3, <3>1 DEF TypeOK, AddWriteToQueue
    <3>3. overwritten' \subseteq Nat
      BY <2>3 DEF TypeOK, AddWriteToQueue, Message
    <3>4. added' \in Nat /\ lastBuffered' \in Slots
      BY <2>3, SuccessorInSlots DEF TypeOK, AddWriteToQueue
    <3>5. QED
      BY <2>3, <3>2, <3>3, <3>4 DEF TypeOK, AddWriteToQueue, walk, link
  <2>4. ASSUME NEW s \in Sockets, ProcessQueue(s) PROVE TypeOK'
    BY <2>4 DEF TypeOK, ProcessQueue, ring, link, history
  <2>6. ASSUME NEW s \in Sockets, Closed(s) PROVE TypeOK'
    <3>1. CASE current \in Sockets /\ ClearSlots(current)
      BY <2>6, <3>1, ClearSlotsType DEF TypeOK, Closed, walk
    <3>2. CASE UNCHANGED <<ring, history>>
      BY <2>6, <3>2 DEF TypeOK, Closed, ring, history, walk
    <3>3. QED BY <2>6, <3>1, <3>2, ClosedEffect
  <2>7. CASE SkipSlot
    BY <2>7 DEF TypeOK, SkipSlot, ring, link, history
  <2>8. CASE WriteSlot
    <3>1. walker \in Sockets /\ writes[lastWritten] \in Message
      BY <2>8 DEF TypeOK, WriteSlot, Pending
    <3>2. [msg |-> writes[lastWritten], to |-> conn[walker]] \in [msg : Message, to : Nat]
      BY <3>1 DEF TypeOK
    <3>3. sent' \in [Sockets -> Seq([msg : Message, to : Nat])]
      <4> DEFINE Entry == [msg : Message, to : Nat]
                 entry == [msg |-> writes[lastWritten], to |-> conn[walker]]
      <4>1. entry \in Entry
        BY <3>2
      <4>2. sent \in [Sockets -> Seq(Entry)] /\ sent' = [sent EXCEPT ![walker] = Append(@, entry)]
        BY <2>8 DEF TypeOK, WriteSlot
      <4> HIDE DEF Entry, entry
      <4>3. sent' \in [Sockets -> Seq(Entry)]
        BY <3>1, <4>1, <4>2
      <4>4. QED
        BY <4>3 DEF Entry
    <3>4. writes' \in [Slots -> Message \cup {NoMsg}]
      BY <2>8 DEF TypeOK, WriteSlot
    <3>5. partial' \in BOOLEAN
      BY <2>8 DEF WriteSlot
    <3>6. QED
      BY <2>8, <3>3, <3>4, <3>5 DEF TypeOK, WriteSlot, link
  <2>9. CASE Increment
    BY <2>9, SuccessorInSlots DEF TypeOK, Increment, link, history
  <2>10. QED
    BY <2>1, <2>2, <2>3, <2>4, <2>6, <2>7, <2>8, <2>9 DEF Next, Walk
<1>3. QED
  BY <1>1, <1>2, PTL DEF Spec

-----------------------------------------------------------------------------
(* The fourth conjunct of Accounted. *)
AllAccepted == \A id \in 0 .. added - 1 :
  InSlot(id) \/ WasSent(id) \/ id \in overwritten \/ id \in cleared

LEMMA AccountedParts ==
  Accounted <=> NoDuplicate /\ NoInvention /\ OneFate /\ AllAccepted
  BY DEF Accounted, AllAccepted

(* What a slot that is not empty holds. *)
LEMMA SlotType ==
  ASSUME TypeOK, NEW i \in Slots, writes[i] # NoMsg
  PROVE  writes[i] \in Message /\ writes[i].id \in Nat /\ writes[i].fd \in Sockets
  BY DEF TypeOK, Message

LEMMA SentType ==
  ASSUME TypeOK, NEW s \in Sockets, NEW i \in DOMAIN sent[s]
  PROVE  sent[s][i].msg \in Message /\ sent[s][i].msg.id \in Nat
<1> DEFINE Entry == [msg : Message, to : Nat]
<1>1. sent[s] \in Seq(Entry)
  BY DEF TypeOK
<1> HIDE DEF Entry
<1>2. sent[s][i] \in Entry
  BY <1>1
<1>3. sent[s][i].msg \in Message
  BY <1>2 DEF Entry
<1>4. QED
  BY <1>3 DEF Message

(* A step that touches neither the slots nor the histories of messages. *)
LEMMA AccountedFrame ==
  ASSUME Accounted, UNCHANGED <<writes, added, sent, overwritten, cleared>>
  PROVE  Accounted'
  BY DEF Accounted, NoDuplicate, NoInvention, OneFate, InSlot, WasSent

(* Accepting a message: it takes a slot, and what the slot held becomes    *)
(* overwritten.                                                            *)
LEMMA AddAccounted ==
  ASSUME TypeOK, Accounted, NEW s \in Sockets, AddWriteToQueue(s)
  PROVE  Accounted'
<1> DEFINE b == lastBuffered
           new == [fd |-> s, conn |-> conn[s], id |-> added]
<1>1. /\ b \in Slots /\ added \in Nat
      /\ writes' = [writes EXCEPT ![b] = new]
      /\ overwritten' = overwritten \cup {w.id : w \in {writes[b]} \ {NoMsg}}
      /\ added' = added + 1
      /\ UNCHANGED <<sent, cleared>>
  BY DEF AddWriteToQueue, TypeOK
<1>2. /\ writes'[b] = new /\ new # NoMsg /\ new.id = added
      /\ \A i \in Slots \ {b} : writes'[i] = writes[i]
  <2>1. new \in Message
    BY DEF TypeOK, Message
  <2>2. QED
    BY <1>1, <2>1, NoMsgAssumption DEF TypeOK
<1>3. \A i \in Slots : writes[i] # NoMsg => writes[i].id \in Nat /\ writes[i].id < added
  BY SlotType DEF Accounted, NoInvention
<1>4. /\ writes[b] = NoMsg => overwritten' = overwritten
      /\ writes[b] # NoMsg => overwritten' = overwritten \cup {writes[b].id}
  BY <1>1
<1> HIDE DEF b, new
<1>5. NoDuplicate'
  BY <1>1, <1>2, <1>3 DEF Accounted, NoDuplicate
<1>6. NoInvention'
  <2>1. \A i \in Slots : writes'[i] # NoMsg => writes'[i].id < added'
    BY <1>1, <1>2, <1>3
  <2>2. \A t \in Sockets : \A i \in DOMAIN sent'[t] : sent'[t][i].msg.id < added'
    <3> SUFFICES ASSUME NEW t \in Sockets, NEW i \in DOMAIN sent[t]
                 PROVE  sent[t][i].msg.id < added + 1
      BY <1>1
    <3>1. sent[t][i].msg.id \in Nat /\ sent[t][i].msg.id < added
      BY SentType DEF Accounted, NoInvention
    <3>2. QED
      BY <3>1, <1>1
  <2>3. \A id \in overwritten' \cup cleared' : id < added'
    <3>1. \A id \in overwritten \cup cleared : id \in Nat /\ id < added
      BY DEF Accounted, NoInvention, TypeOK
    <3>2. QED
      BY <3>1, <1>1, <1>3, <1>4
  <2>4. QED
    BY <2>1, <2>2, <2>3 DEF NoInvention
<1>7. OneFate'
  <2>1. overwritten' \cap cleared' = {}
    BY <1>1, <1>4 DEF Accounted, OneFate
  <2>2. ASSUME NEW i \in Slots, writes'[i] # NoMsg
        PROVE  (writes[i].id \notin overwritten \cup cleared /\ ~WasSent(writes[i].id))'
    <3>1. CASE i = b
      <4>1. added \notin overwritten' \cup cleared'
        BY <1>1, <1>3, <1>4 DEF Accounted, NoInvention
      <4>2. ~WasSent(added)
        BY <1>1 DEF Accounted, NoInvention, WasSent
      <4>3. QED
        BY <3>1, <4>1, <4>2, <1>1, <1>2 DEF WasSent
    <3>2. CASE i # b
      <4>1. writes'[i] = writes[i] /\ writes[b] # NoMsg => writes[i].id # writes[b].id
        BY <1>1, <1>2, <2>2, <3>2 DEF Accounted, NoDuplicate
      <4>2. writes'[i] = writes[i]
        BY <1>2, <3>2
      <4>3. writes[i].id \notin overwritten' \cup cleared'
        BY <1>1, <1>4, <2>2, <4>1, <4>2 DEF Accounted, OneFate
      <4>4. ~WasSent(writes[i].id)
        BY <2>2, <4>2 DEF Accounted, OneFate
      <4>5. QED
        BY <1>1, <4>2, <4>3, <4>4 DEF WasSent
    <3>3. QED BY <3>1, <3>2
  <2>3. ASSUME NEW t \in Sockets, NEW i \in DOMAIN sent'[t]
        PROVE  sent'[t][i].msg.id \notin overwritten' \cup cleared'
    <3>1. WasSent(sent[t][i].msg.id)
      BY <1>1 DEF WasSent
    <3>2. writes[b] # NoMsg => sent[t][i].msg.id # writes[b].id
      BY <3>1, <1>1 DEF Accounted, OneFate
    <3>3. QED
      BY <1>1, <1>4, <3>2 DEF Accounted, OneFate
  <2>4. QED
    BY <2>1, <2>2, <2>3 DEF OneFate
<1>8. AllAccepted'
  <2> SUFFICES ASSUME NEW id \in 0 .. added
               PROVE  InSlot(id)' \/ WasSent(id)' \/ id \in overwritten' \/ id \in cleared'
    BY <1>1 DEF AllAccepted
  <2>1. CASE id = added
    BY <1>1, <1>2, <2>1 DEF InSlot
  <2>2. CASE id # added
    <3>1. id \in 0 .. added - 1
      BY <1>1, <2>2
    <3>2. InSlot(id) => InSlot(id)' \/ id \in overwritten'
      BY <1>1, <1>2, <1>4 DEF InSlot
    <3>3. WasSent(id) => WasSent(id)'
      BY <1>1 DEF WasSent
    <3>4. QED
      BY <1>1, <3>1, <3>2, <3>3 DEF Accounted
  <2>3. QED BY <2>1, <2>2
<1>9. QED
  BY <1>5, <1>6, <1>7, <1>8 DEF Accounted, AllAccepted

(* What lws_write adds to the record of sent messages. *)
LEMMA WriteSlotEffect ==
  ASSUME TypeOK, WriteSlot
  PROVE  /\ walker \in Sockets /\ lastWritten \in Slots
         /\ writes[lastWritten] # NoMsg /\ writes[lastWritten].fd = walker
         /\ writes' = [writes EXCEPT ![lastWritten] = NoMsg]
         /\ \A t \in Sockets : t # walker => sent'[t] = sent[t]
         /\ Len(sent[walker]) \in Nat
         /\ DOMAIN sent[walker] = 1 .. Len(sent[walker])
         /\ DOMAIN sent'[walker] = 1 .. Len(sent[walker]) + 1
         /\ \A i \in 1 .. Len(sent[walker]) : sent'[walker][i] = sent[walker][i]
         /\ sent'[walker][Len(sent[walker]) + 1]
              = [msg |-> writes[lastWritten], to |-> conn[walker]]
<1> DEFINE Entry == [msg : Message, to : Nat]
           entry == [msg |-> writes[lastWritten], to |-> conn[walker]]
<1>1. /\ walker \in Sockets /\ lastWritten \in Slots
      /\ writes[lastWritten] # NoMsg /\ writes[lastWritten].fd = walker
      /\ writes' = [writes EXCEPT ![lastWritten] = NoMsg]
  BY DEF TypeOK, WriteSlot, Pending
<1>2. entry \in Entry
  BY <1>1 DEF TypeOK
<1>3. /\ sent \in [Sockets -> Seq(Entry)]
      /\ sent' = [sent EXCEPT ![walker] = Append(@, entry)]
  BY DEF TypeOK, WriteSlot
<1> HIDE DEF Entry, entry
<1>4. sent[walker] \in Seq(Entry) /\ sent'[walker] = Append(sent[walker], entry)
  BY <1>1, <1>3
<1>5. /\ Len(sent[walker]) \in Nat
      /\ DOMAIN sent[walker] = 1 .. Len(sent[walker])
      /\ DOMAIN sent'[walker] = 1 .. Len(sent[walker]) + 1
      /\ \A i \in 1 .. Len(sent[walker]) : sent'[walker][i] = sent[walker][i]
      /\ sent'[walker][Len(sent[walker]) + 1] = entry
  BY <1>2, <1>4
<1>6. \A t \in Sockets : t # walker => sent'[t] = sent[t]
  BY <1>1, <1>3
<1>7. QED
  BY <1>1, <1>5, <1>6 DEF entry

LEMMA SentAfterWrite ==
  ASSUME TypeOK, WriteSlot, NEW t \in Sockets, NEW i \in DOMAIN sent'[t]
  PROVE  \/ i \in DOMAIN sent[t] /\ sent'[t][i] = sent[t][i]
         \/ /\ t = walker /\ i = Len(sent[walker]) + 1
            /\ sent'[t][i] = [msg |-> writes[lastWritten], to |-> conn[walker]]
<1>1. CASE t # walker
  BY <1>1, WriteSlotEffect
<1>2. CASE t = walker
  <2>1. Len(sent[walker]) \in Nat /\ i \in 1 .. Len(sent[walker]) + 1
    BY <1>2, WriteSlotEffect
  <2>2. CASE i = Len(sent[walker]) + 1
    BY <1>2, <2>2, WriteSlotEffect
  <2>3. CASE i # Len(sent[walker]) + 1
    BY <1>2, <2>1, <2>3, WriteSlotEffect
  <2>4. QED BY <2>2, <2>3
<1>3. QED BY <1>1, <1>2

(* Sending a message: it leaves its slot and is recorded once. *)
LEMMA WriteSlotAccounted ==
  ASSUME TypeOK, Accounted, WriteSlot
  PROVE  Accounted'
<1> DEFINE k == lastWritten
           m == writes[lastWritten]
           L == Len(sent[walker])
<1>1. /\ walker \in Sockets /\ k \in Slots /\ m # NoMsg
      /\ writes' = [writes EXCEPT ![k] = NoMsg]
      /\ UNCHANGED <<added, overwritten, cleared>>
  BY WriteSlotEffect DEF WriteSlot
<1>2. /\ writes'[k] = NoMsg
      /\ \A i \in Slots \ {k} : writes'[i] = writes[i]
  BY <1>1 DEF TypeOK
<1>3. \A t \in Sockets : \A i \in DOMAIN sent'[t] :
         \/ i \in DOMAIN sent[t] /\ sent'[t][i] = sent[t][i]
         \/ t = walker /\ i = L + 1 /\ sent'[t][i].msg = m
  BY SentAfterWrite
<1>4. \A t \in Sockets : \A i \in DOMAIN sent[t] :
         i \in DOMAIN sent'[t] /\ sent'[t][i] = sent[t][i]
  <2>1. \A i \in DOMAIN sent[walker] :
          i \in DOMAIN sent'[walker] /\ sent'[walker][i] = sent[walker][i]
    BY WriteSlotEffect
  <2>2. QED
    BY <2>1, WriteSlotEffect
<1>5. L + 1 \in DOMAIN sent'[walker] /\ sent'[walker][L + 1].msg = m
  BY WriteSlotEffect
<1>6. ~WasSent(m.id) /\ m.id \notin overwritten \cup cleared /\ m.id < added
  BY <1>1 DEF Accounted, OneFate, NoInvention
<1> HIDE DEF k, m, L
<1>7. NoDuplicate'
  <2>1. \A i, j \in Slots : writes'[i] # NoMsg /\ writes'[j] # NoMsg
                              /\ writes'[i].id = writes'[j].id => i = j
    BY <1>2 DEF Accounted, NoDuplicate
  <2>2. ASSUME NEW t \in Sockets, NEW u \in Sockets,
               NEW i \in DOMAIN sent'[t], NEW j \in DOMAIN sent'[u],
               sent'[t][i].msg.id = sent'[u][j].msg.id
        PROVE  t = u /\ i = j
    BY <1>3, <1>6, <2>2 DEF Accounted, NoDuplicate, WasSent
  <2>3. QED
    BY <2>1, <2>2 DEF NoDuplicate
<1>8. NoInvention'
  BY <1>1, <1>2, <1>3, <1>6 DEF Accounted, NoInvention
<1>9. OneFate'
  <2>1. ASSUME NEW i \in Slots, writes'[i] # NoMsg
        PROVE  (writes[i].id \notin overwritten \cup cleared /\ ~WasSent(writes[i].id))'
    <3>1. i # k /\ writes'[i] = writes[i]
      BY <1>2, <2>1
    <3>2. writes[i].id # m.id
      BY <1>1, <2>1, <3>1 DEF Accounted, NoDuplicate, m, k
    <3>3. writes[i].id \notin overwritten \cup cleared /\ ~WasSent(writes[i].id)
      BY <2>1, <3>1 DEF Accounted, OneFate
    <3>4. QED
      BY <1>1, <1>3, <3>1, <3>2, <3>3 DEF WasSent
  <2>2. ASSUME NEW t \in Sockets, NEW i \in DOMAIN sent'[t]
        PROVE  sent'[t][i].msg.id \notin overwritten' \cup cleared'
    BY <1>1, <1>3, <1>6 DEF Accounted, OneFate
  <2>3. overwritten' \cap cleared' = {}
    BY <1>1 DEF Accounted, OneFate
  <2>4. QED
    BY <2>1, <2>2, <2>3 DEF OneFate
<1>10. AllAccepted'
  <2> SUFFICES ASSUME NEW id \in 0 .. added - 1
               PROVE  InSlot(id)' \/ WasSent(id)' \/ id \in overwritten \/ id \in cleared
    BY <1>1 DEF AllAccepted
  <2>1. WasSent(id) => WasSent(id)'
    BY <1>4 DEF WasSent
  <2>2. InSlot(id) => InSlot(id)' \/ WasSent(id)'
    <3> SUFFICES ASSUME NEW i \in Slots, writes[i] # NoMsg, writes[i].id = id
                 PROVE  InSlot(id)' \/ WasSent(id)'
      BY DEF InSlot
    <3>1. CASE i = k
      BY <1>1, <1>5, <3>1 DEF WasSent, m, k
    <3>2. CASE i # k
      BY <1>2, <3>2 DEF InSlot
    <3>3. QED BY <3>1, <3>2
  <2>3. QED
    BY <2>1, <2>2 DEF Accounted
<1>11. QED
  BY <1>7, <1>8, <1>9, <1>10 DEF Accounted, AllAccepted

(* Clearing a socket: its messages move from their slots to cleared. *)
LEMMA ClearAccounted ==
  ASSUME TypeOK, Accounted, NEW s \in Sockets, ClearSlots(s)
  PROVE  Accounted'
<1>1. /\ \A i \in Slots : writes'[i] = IF i \in Pending(s) THEN NoMsg ELSE writes[i]
      /\ cleared' = cleared \cup {writes[i].id : i \in Pending(s)}
      /\ UNCHANGED <<added, sent, overwritten>>
      /\ \A i \in Pending(s) : i \in Slots /\ writes[i] # NoMsg
  BY DEF ClearSlots, Pending
<1>2. \A i \in Slots : writes'[i] # NoMsg => i \notin Pending(s) /\ writes'[i] = writes[i]
  BY <1>1
<1>3. NoDuplicate'
  BY <1>1, <1>2 DEF Accounted, NoDuplicate
<1>4. NoInvention'
  BY <1>1, <1>2 DEF Accounted, NoInvention
<1>5. OneFate'
  <2>1. overwritten' \cap cleared' = {}
    BY <1>1 DEF Accounted, OneFate
  <2>2. ASSUME NEW i \in Slots, writes'[i] # NoMsg
        PROVE  (writes[i].id \notin overwritten \cup cleared /\ ~WasSent(writes[i].id))'
    <3>1. i \notin Pending(s) /\ writes'[i] = writes[i] /\ writes[i] # NoMsg
      BY <1>2, <2>2
    <3>2. \A j \in Pending(s) : writes[j].id # writes[i].id
      BY <1>1, <3>1 DEF Accounted, NoDuplicate
    <3>3. writes[i].id \notin overwritten \cup cleared /\ ~WasSent(writes[i].id)
      BY <3>1 DEF Accounted, OneFate
    <3>4. QED
      BY <1>1, <3>1, <3>2, <3>3 DEF WasSent
  <2>3. ASSUME NEW t \in Sockets, NEW i \in DOMAIN sent'[t]
        PROVE  sent'[t][i].msg.id \notin overwritten' \cup cleared'
    <3>1. WasSent(sent[t][i].msg.id) /\ sent'[t][i] = sent[t][i]
      BY <1>1, <2>3 DEF WasSent
    <3>2. \A j \in Pending(s) : writes[j].id # sent[t][i].msg.id
      BY <1>1, <3>1 DEF Accounted, OneFate
    <3>3. QED
      BY <1>1, <3>1, <3>2 DEF Accounted, OneFate
  <2>4. QED
    BY <2>1, <2>2, <2>3 DEF OneFate
<1>6. AllAccepted'
  <2> SUFFICES ASSUME NEW id \in 0 .. added - 1
               PROVE  InSlot(id)' \/ WasSent(id)' \/ id \in overwritten' \/ id \in cleared'
    BY <1>1 DEF AllAccepted
  <2>1. InSlot(id) => InSlot(id)' \/ id \in cleared'
    BY <1>1 DEF InSlot
  <2>2. WasSent(id) => WasSent(id)'
    BY <1>1 DEF WasSent
  <2>3. QED
    BY <1>1, <2>1, <2>2 DEF Accounted
<1>7. QED
  BY <1>3, <1>4, <1>5, <1>6 DEF Accounted, AllAccepted

(* Every message the daemon accepts for a socket is in one slot, or was    *)
(* sent once, or was freed once: no buffer leaks and none is used twice.   *)
THEOREM AccountedAlways == Spec => []Accounted
<1>1. Init => Accounted
  BY DEF Init, Accounted, NoDuplicate, NoInvention, OneFate, InSlot, WasSent
<1>2. TypeOK /\ Accounted /\ [Next]_vars => Accounted'
  <2> SUFFICES ASSUME TypeOK, Accounted, [Next]_vars PROVE Accounted'
    OBVIOUS
  <2>1. CASE UNCHANGED vars
    BY <2>1, AccountedFrame DEF vars, ring, history
  <2>2. ASSUME NEW s \in Sockets, Established(s) PROVE Accounted'
    BY <2>2, AccountedFrame DEF Established, ring, history
  <2>3. ASSUME NEW s \in Sockets, AddWriteToQueue(s) PROVE Accounted'
    BY <2>3, AddAccounted
  <2>4. ASSUME NEW s \in Sockets, ProcessQueue(s) PROVE Accounted'
    BY <2>4, AccountedFrame DEF ProcessQueue, ring, history
  <2>6. ASSUME NEW s \in Sockets, Closed(s) PROVE Accounted'
    BY <2>6, ClosedEffect, ClearAccounted, AccountedFrame DEF ring, history
  <2>7. CASE SkipSlot
    BY <2>7, AccountedFrame DEF SkipSlot, ring, history
  <2>8. CASE WriteSlot
    BY <2>8, WriteSlotAccounted
  <2>9. CASE Increment
    BY <2>9, AccountedFrame DEF Increment, history
  <2>10. QED
    BY <2>1, <2>2, <2>3, <2>4, <2>6, <2>7, <2>8, <2>9 DEF Next, Walk
<1>3. QED
  BY TypeCorrect, <1>1, <1>2, PTL DEF Spec

-----------------------------------------------------------------------------
(* How many messages ago the slot i was filled, if no reset came between. *)
Age(i) == IF i < lastBuffered THEN lastBuffered - i ELSE lastBuffered + N - i

(* A message accepted since the last reset sits as far behind lastBuffered *)
(* as there were messages accepted since: what makes the N-th message      *)
(* after it, and no earlier one, land on its slot.                         *)
AgeInv ==
  /\ base <= added
  /\ \A i \in Slots : writes[i] # NoMsg /\ writes[i].id >= base
                        => writes[i].id + Age(i) = added

LEMMA AgeStep ==
  ASSUME TypeOK, NEW i \in Slots
  PROVE  /\ Age(lastBuffered) = N
         /\ lastBuffered' = Successor(lastBuffered) =>
              Age(i)' = IF i = lastBuffered THEN 1 ELSE Age(i) + 1
<1>1. /\ N \in Nat /\ N > 0 /\ i \in Int /\ lastBuffered \in Int
      /\ 0 <= i /\ i <= N - 1 /\ 0 <= lastBuffered /\ lastBuffered <= N - 1
  BY NAssumption DEF TypeOK, Slots
<1>2. Age(lastBuffered) = N
  BY <1>1 DEF Age
<1>3. ASSUME lastBuffered' = Successor(lastBuffered)
      PROVE  Age(i)' = IF i = lastBuffered THEN 1 ELSE Age(i) + 1
  <2>1. CASE lastBuffered = N - 1
    BY <1>1, <1>3, <2>1 DEF Age, Successor
  <2>2. CASE lastBuffered # N - 1
    BY <1>1, <1>3, <2>2 DEF Age, Successor
  <2>3. QED BY <2>1, <2>2
<1>4. QED
  BY <1>2, <1>3

LEMMA AddAge ==
  ASSUME TypeOK, AgeInv, NEW s \in Sockets, AddWriteToQueue(s)
  PROVE  /\ AgeInv'
         /\ \A i \in Slots : (writes[i] # NoMsg /\ writes'[i] \notin {NoMsg, writes[i]})
              => writes[i].id < base \/ writes'[i].id = writes[i].id + N
<1> DEFINE b == lastBuffered
           new == [fd |-> s, conn |-> conn[s], id |-> added]
<1>1. /\ b \in Slots /\ added \in Nat /\ base \in Nat /\ N \in Nat
      /\ writes'[b] = new /\ new.id = added
      /\ \A i \in Slots \ {b} : writes'[i] = writes[i]
      /\ added' = added + 1 /\ base' = base
      /\ lastBuffered' = Successor(lastBuffered)
  BY NAssumption DEF AddWriteToQueue, TypeOK
<1>2. \A i \in Slots : writes[i] # NoMsg => writes[i].id \in Nat
  BY SlotType
<1>3. \A i \in Slots : Age(i) \in Nat /\ Age(i)' = IF i = b THEN 1 ELSE Age(i) + 1
  <2> SUFFICES ASSUME NEW i \in Slots
               PROVE  Age(i) \in Nat /\ Age(i)' = IF i = b THEN 1 ELSE Age(i) + 1
    OBVIOUS
  <2>1. Age(i) \in Nat
    BY NAssumption DEF TypeOK, Slots, Age
  <2>2. QED
    BY <1>1, <2>1, AgeStep
<1>4. Age(b) = N
  BY <1>1, AgeStep
<1> HIDE DEF b, new
<1>5. AgeInv'
  <2>1. base' <= added'
    BY <1>1 DEF AgeInv
  <2>2. ASSUME NEW i \in Slots, writes'[i] # NoMsg, writes'[i].id >= base'
        PROVE  writes'[i].id + Age(i)' = added'
    <3>1. CASE i = b
      BY <1>1, <1>3, <3>1
    <3>2. CASE i # b
      BY <1>1, <1>2, <1>3, <2>2, <3>2 DEF AgeInv
    <3>3. QED BY <3>1, <3>2
  <2>3. QED
    BY <2>1, <2>2 DEF AgeInv
<1>6. ASSUME NEW i \in Slots, writes[i] # NoMsg, writes'[i] \notin {NoMsg, writes[i]}
      PROVE  writes[i].id < base \/ writes'[i].id = writes[i].id + N
  <2>1. i = b
    BY <1>1, <1>6
  <2>2. QED
    BY <1>1, <1>2, <1>4, <1>6, <2>1 DEF AgeInv
<1>7. QED
  BY <1>5, <1>6

(* The other steps empty slots or leave them alone. *)
LEMMA EmptyingKeepsAge ==
  ASSUME TypeOK, AgeInv, UNCHANGED <<lastBuffered, added, base>>,
         \A i \in Slots : writes'[i] = writes[i] \/ writes'[i] = NoMsg
  PROVE  AgeInv'
  BY DEF AgeInv, Age

LEMMA ClearAge ==
  ASSUME TypeOK, Accounted, NEW s \in Sockets, ClearSlots(s)
  PROVE  /\ AgeInv'
         /\ \A i \in Slots : writes'[i] \in {NoMsg, writes[i]}
<1>1. /\ base' = added /\ added' = added /\ added \in Nat
      /\ \A i \in Slots : writes'[i] \in {NoMsg, writes[i]}
  BY DEF ClearSlots, TypeOK
<1>2. \A i \in Slots : writes[i] # NoMsg => writes[i].id \in Nat /\ writes[i].id < added
  BY SlotType DEF Accounted, NoInvention
<1>3. QED
  BY <1>1, <1>2 DEF AgeInv

(* A message is replaced only by the N-th message accepted after it, if    *)
(* the cursors were not reset meanwhile.                                   *)
OnlyNth ==
  \A i \in Slots :
    (writes[i] # NoMsg /\ writes'[i] \notin {NoMsg, writes[i]})
      => writes[i].id < base \/ writes'[i].id = writes[i].id + N

(* Every step keeps the ages. *)
LEMMA AgeInvStep == TypeOK /\ Accounted /\ AgeInv /\ [Next]_vars => AgeInv' /\ OnlyNth
<1> SUFFICES ASSUME TypeOK, Accounted, AgeInv, [Next]_vars
             PROVE  AgeInv' /\ OnlyNth
  OBVIOUS
<1> DEFINE Quiet == /\ UNCHANGED <<lastBuffered, added, base>>
                    /\ \A i \in Slots : writes'[i] = writes[i] \/ writes'[i] = NoMsg
<1>1. Quiet => AgeInv' /\ OnlyNth
  BY EmptyingKeepsAge DEF OnlyNth
<1>2. CASE UNCHANGED vars
  BY <1>1, <1>2 DEF vars, ring, history
<1>3. ASSUME NEW s \in Sockets, Established(s) PROVE AgeInv' /\ OnlyNth
  BY <1>1, <1>3 DEF Established, ring, history
<1>4. ASSUME NEW s \in Sockets, AddWriteToQueue(s) PROVE AgeInv' /\ OnlyNth
  BY <1>4, AddAge DEF OnlyNth
<1>5. ASSUME NEW s \in Sockets, ProcessQueue(s) PROVE AgeInv' /\ OnlyNth
  BY <1>1, <1>5 DEF ProcessQueue, ring, history
<1>7. ASSUME NEW s \in Sockets, Closed(s) PROVE AgeInv' /\ OnlyNth
  <2>1. CASE current \in Sockets /\ ClearSlots(current)
    BY <2>1, ClearAge DEF OnlyNth
  <2>2. CASE UNCHANGED <<ring, history>>
    BY <1>1, <2>2 DEF ring, history
  <2>3. QED BY <1>7, <2>1, <2>2, ClosedEffect
<1>8. CASE SkipSlot
  BY <1>1, <1>8 DEF SkipSlot, ring, history
<1>9. CASE WriteSlot
  <2>1. \A i \in Slots : writes'[i] = writes[i] \/ writes'[i] = NoMsg
    BY <1>9, WriteSlotEffect DEF TypeOK
  <2>2. QED
    BY <1>1, <1>9, <2>1 DEF WriteSlot
<1>10. CASE Increment
  BY <1>1, <1>10 DEF Increment, history
<1>11. QED
  BY <1>2, <1>3, <1>4, <1>5, <1>7, <1>8, <1>9, <1>10 DEF Next, Walk

(* A message is pushed out of the ring only by the N-th message accepted   *)
(* after it, as long as no socket's close resets the cursors.              *)
THEOREM OverwriteDistanceHolds == Spec => OverwriteDistance
<1>1. Init => AgeInv
  BY DEF Init, AgeInv
<1>2. TypeOK /\ Accounted /\ AgeInv /\ [Next]_vars => AgeInv' /\ [OnlyNth]_vars
  BY AgeInvStep
<1>3. QED
  BY TypeCorrect, AccountedAlways, <1>1, <1>2, PTL DEF Spec, OverwriteDistance, OnlyNth

-----------------------------------------------------------------------------
(* While a display or plugin has had one page at a time, that page is the  *)
(* current one and whatever is in the ring is for its connection.          *)
OnePage == protocol # "api" /\ ~overlapped
QueuedForOpen ==
  OnePage =>
    /\ open = {current} \ {NoSocket}
    /\ \A i \in Slots : writes[i] # NoMsg =>
         writes[i].fd \in open /\ writes[i].conn = conn[writes[i].fd]

LEMMA AddresseeStep ==
  TypeOK /\ QueuedForOpen /\ SentToAddressee /\ [Next]_vars
    => QueuedForOpen' /\ SentToAddressee'
<1> SUFFICES ASSUME TypeOK, QueuedForOpen, SentToAddressee, [Next]_vars
             PROVE  QueuedForOpen' /\ SentToAddressee'
  OBVIOUS
<1>1. ASSUME UNCHANGED <<protocol, sent, overlapped>> PROVE SentToAddressee'
  BY <1>1 DEF SentToAddressee
<1>2. ASSUME UNCHANGED link,
             \A i \in Slots : writes'[i] = writes[i] \/ writes'[i] = NoMsg
      PROVE  QueuedForOpen'
  BY <1>2 DEF QueuedForOpen, OnePage, link
<1>4. CASE UNCHANGED vars
  BY <1>1, <1>2, <1>4 DEF vars, ring, link, history
<1>5. ASSUME NEW s \in Sockets, Established(s) PROVE QueuedForOpen' /\ SentToAddressee'
  <2>1. UNCHANGED <<writes, sent>>
    BY <1>5 DEF Established, ring, history
  <2>2. ASSUME OnePage'
        PROVE  /\ open' = {current'} \ {NoSocket}
               /\ \A i \in Slots : writes[i] = NoMsg
    <3>1. OnePage /\ open = {}
      BY <1>5, <2>2 DEF OnePage, Established
    <3>2. current = NoSocket /\ \A i \in Slots : writes[i] = NoMsg
      BY <3>1 DEF QueuedForOpen
    <3>3. open' = {s} /\ current' = s
      BY <1>5, <3>1, <3>2 DEF TypeOK, Established, CurrentAfter, OnePage
    <3>4. QED
      BY <3>2, <3>3, SocketsAssumption
  <2>3. QueuedForOpen'
    BY <2>1, <2>2 DEF QueuedForOpen
  <2>4. OnePage' => OnePage
    BY <1>5 DEF Established, OnePage
  <2>5. QED
    BY <2>1, <2>3, <2>4 DEF SentToAddressee, OnePage
<1>6. ASSUME NEW s \in Sockets, AddWriteToQueue(s) PROVE QueuedForOpen' /\ SentToAddressee'
  <2>1. s \in open /\ UNCHANGED <<protocol, open, conn, current, overlapped, sent>>
    BY <1>6 DEF AddWriteToQueue, MayWriteTo, link
  <2>2. \A i \in Slots : writes'[i] = writes[i]
          \/ writes'[i] = [fd |-> s, conn |-> conn[s], id |-> added]
    BY <1>6 DEF AddWriteToQueue, TypeOK
  <2>3. QED
    BY <1>1, <2>1, <2>2 DEF QueuedForOpen, OnePage
<1>7. ASSUME NEW s \in Sockets, ProcessQueue(s) PROVE QueuedForOpen' /\ SentToAddressee'
  BY <1>1, <1>2, <1>7 DEF ProcessQueue, ring, link, history
<1>9. ASSUME NEW s \in Sockets, Closed(s) PROVE QueuedForOpen' /\ SentToAddressee'
  <2>1. /\ s \in open /\ open' = open \ {s} /\ current' = NoSocket
        /\ OnePage' = OnePage /\ UNCHANGED <<protocol, overlapped>>
    BY <1>9 DEF Closed, OnePage
  <2>2. CASE current \in Sockets /\ ClearSlots(current)
    <3>1. /\ sent' = sent
          /\ \A i \in Slots : writes'[i] # NoMsg =>
               writes'[i] = writes[i] /\ writes[i].fd # current
      BY <2>2 DEF ClearSlots, Pending
    <3>2. ASSUME OnePage
          PROVE  open' = {} /\ \A i \in Slots : writes'[i] = NoMsg
      BY <2>1, <3>1, <3>2 DEF QueuedForOpen
    <3>3. QED
      BY <1>1, <2>1, <3>1, <3>2 DEF QueuedForOpen
  <2>3. CASE protocol = "api" /\ UNCHANGED <<ring, history>>
    BY <1>1, <2>1, <2>3 DEF QueuedForOpen, OnePage, history
  <2>4. QED BY <1>9, <2>2, <2>3, ClosedEffect
<1>10. CASE SkipSlot
  BY <1>1, <1>2, <1>10 DEF SkipSlot, ring, link, history
<1>11. CASE WriteSlot
  <2>1. QueuedForOpen'
    BY <1>2, <1>11, WriteSlotEffect DEF WriteSlot, TypeOK
  <2>2. ASSUME NEW t \in Sockets, NEW i \in DOMAIN sent'[t]
        PROVE  /\ sent'[t][i].msg.fd = t
               /\ OnePage => sent'[t][i].msg.conn = sent'[t][i].to
    <3>1. CASE i \in DOMAIN sent[t] /\ sent'[t][i] = sent[t][i]
      BY <3>1 DEF SentToAddressee, OnePage
    <3>2. CASE /\ t = walker
               /\ sent'[t][i] = [msg |-> writes[lastWritten], to |-> conn[walker]]
      BY <1>11, <3>2, WriteSlotEffect DEF QueuedForOpen
    <3>3. QED
      BY <1>11, <3>1, <3>2, SentAfterWrite
  <2>3. UNCHANGED <<protocol, overlapped>>
    BY <1>11 DEF WriteSlot, link
  <2>4. QED
    BY <2>1, <2>2, <2>3 DEF SentToAddressee, OnePage
<1>12. CASE Increment
  BY <1>1, <1>2, <1>12 DEF Increment, link, history
<1>13. QED
  BY <1>4, <1>5, <1>6, <1>7, <1>9, <1>10, <1>11, <1>12 DEF Next, Walk

(* A message goes out on the descriptor it was written for and, while a    *)
(* display or plugin has one page at a time, never to a later page that    *)
(* was given the same descriptor.                                          *)
THEOREM SentToAddresseeAlways == Spec => []SentToAddressee
<1>1. Init => QueuedForOpen /\ SentToAddressee
  BY DEF Init, QueuedForOpen, OnePage, SentToAddressee
<1>2. QED
  BY TypeCorrect, <1>1, AddresseeStep, PTL DEF Spec

-----------------------------------------------------------------------------
(* No other socket, no partial write and no overflow yet.                  *)
Calm == Undisturbed /\ overwritten = {}

Occupied(i) == writes[i] # NoMsg

(* Where the walk, or the next one, looks next.                            *)
NextSlot == IF pc = "slot" THEN lastWritten ELSE Successor(lastWritten)

(* Between two callbacks nothing walks, and only the current page is       *)
(* walked; a partial write is remembered.                                  *)
WalkerInv ==
  /\ walker = NoSocket => pc = "slot"
  /\ walker # NoSocket => walker \in open
  /\ partial => delayed

(* While calm, the messages in the ring are the newest, without a gap, and *)
(* the oldest of them is next; those sent were older; and between two      *)
(* walks a message waits unless the cursors meet.                          *)
CalmInv ==
  Calm =>
    /\ \A i \in Slots : Occupied(i) =>
         /\ writes[i].id >= base
         /\ Age(i) <= Age(NextSlot)
         /\ Occupied(NextSlot)
         /\ \A j \in Slots : Age(j) < Age(i) => Occupied(j)
         /\ \A s \in Sockets : \A k \in DOMAIN sent[s] : sent[s][k].msg.id < writes[i].id
    /\ walker = NoSocket /\ lastWritten # lastBuffered => Occupied(lastWritten)
    /\ \A s \in Sockets : \A i, j \in DOMAIN sent[s] :
         i < j => sent[s][i].msg.id < sent[s][j].msg.id

(* Everything the order of the messages rests on.                          *)
OrderIInv ==
  TypeOK /\ Accounted /\ AgeInv /\ QueuedForOpen /\ SentToAddressee /\ WalkerInv /\ CalmInv

(* Each slot has an age of its own, and the next slot is one newer.        *)
LEMMA Ages ==
  ASSUME TypeOK, NEW i \in Slots
  PROVE  /\ Age(i) \in Nat /\ 1 <= Age(i) /\ Age(i) <= N
         /\ \A j \in Slots : Age(i) = Age(j) => i = j
         /\ Successor(i) \in Slots
         /\ Age(i) > 1 => Age(Successor(i)) = Age(i) - 1
         /\ Age(i) = N => i = lastBuffered
<1>1. \A j \in Slots : j \in Int /\ 0 <= j /\ j <= N - 1
  BY NAssumption DEF Slots
<1>2. N \in Nat /\ N > 0 /\ lastBuffered \in Slots
  BY NAssumption DEF TypeOK
<1>3. /\ Age(i) \in Nat /\ 1 <= Age(i) /\ Age(i) <= N
      /\ \A j \in Slots : Age(i) = Age(j) => i = j
  BY <1>1, <1>2 DEF Age
<1>4. Age(i) > 1 => Age(Successor(i)) = Age(i) - 1
  <2>1. CASE i = N - 1
    BY <1>1, <1>2, <2>1 DEF Age, Successor
  <2>2. CASE i # N - 1
    BY <1>1, <1>2, <2>2 DEF Age, Successor
  <2>3. QED
    BY <2>1, <2>2
<1>5. Age(i) = N => i = lastBuffered
  BY <1>1, <1>2 DEF Age
<1>6. QED
  BY <1>3, <1>4, <1>5, SuccessorInSlots

(* Steps that touch neither the ring nor what was sent.                    *)
LEMMA CalmFrame ==
  ASSUME CalmInv, Calm' => Calm, NextSlot' = NextSlot,
         UNCHANGED <<writes, lastBuffered, base, sent>>,
         Calm /\ walker' = NoSocket /\ lastWritten' # lastBuffered => Occupied(lastWritten')
  PROVE  CalmInv'
<1> SUFFICES ASSUME Calm' PROVE CalmInv'
  BY DEF CalmInv
<1>1. \A i \in Slots : Age(i)' = Age(i) /\ (Occupied(i)' <=> Occupied(i))
  BY DEF Age, Occupied
<1>2. Age(NextSlot)' = Age(NextSlot) /\ (Occupied(NextSlot)' <=> Occupied(NextSlot))
  BY DEF Age, Occupied
<1>3. Occupied(lastWritten)' <=> Occupied(lastWritten')
  BY DEF Occupied
<1>4. QED
  BY <1>1, <1>2, <1>3 DEF CalmInv

(* An empty ring is in order.                                              *)
LEMMA EmptyCalm ==
  ASSUME CalmInv, Calm' => Calm, sent' = sent, \A i \in Slots : ~Occupied(i)',
         walker' = NoSocket => lastWritten' = lastBuffered'
  PROVE  CalmInv'
  BY DEF CalmInv

(* A message is accepted: while calm its slot was free.                    *)
LEMMA AddCalm ==
  ASSUME OrderIInv, NEW s \in Sockets, AddWriteToQueue(s)
  PROVE  /\ CalmInv'
         /\ Calm /\ overwritten' # {} => \A i \in Slots : Occupied(i)
<1> DEFINE b == lastBuffered
           new == [fd |-> s, conn |-> conn[s], id |-> added]
<1>1. /\ b \in Slots /\ new # NoMsg /\ new.id = added /\ added \in Nat /\ base \in Nat
      /\ writes'[b] = new
      /\ \A i \in Slots \ {b} : writes'[i] = writes[i]
      /\ lastBuffered' = Successor(lastBuffered)
      /\ UNCHANGED <<lastWritten, walker, pc, sent, base>>
  <2>1. new \in Message
    BY DEF OrderIInv, TypeOK, Message
  <2>2. QED
    BY <2>1, NoMsgAssumption DEF AddWriteToQueue, OrderIInv, TypeOK, walk
<1>2. /\ walker = NoSocket /\ NextSlot = lastWritten /\ NextSlot' = lastWritten
      /\ lastWritten \in Slots /\ base <= added
  BY <1>1 DEF AddWriteToQueue, OrderIInv, WalkerInv, NextSlot, TypeOK, AgeInv
<1>3. overwritten' = overwritten \cup {w.id : w \in {writes[b]} \ {NoMsg}}
      /\ (Undisturbed' <=> Undisturbed)
  BY DEF AddWriteToQueue, link, walk, Undisturbed
<1>4. \A i \in Slots : /\ Age(i) \in Nat /\ 1 <= Age(i) /\ Age(i) <= N
                       /\ Age(i)' = IF i = b THEN 1 ELSE Age(i) + 1
                       /\ \A j \in Slots : Age(i) = Age(j) => i = j
  BY <1>1, Ages, AgeStep DEF OrderIInv
<1>5. Age(b) = N
  BY <1>1, AgeStep DEF OrderIInv
<1>6. CalmInv /\ N \in Nat
  BY NAssumption DEF OrderIInv
<1>7. \A t \in Sockets : \A k \in DOMAIN sent[t] : sent[t][k].msg.id < added
  BY DEF OrderIInv, Accounted, NoInvention
<1> HIDE DEF b, new
<1>8. \A i \in Slots : Occupied(i)' <=> i = b \/ Occupied(i)
  BY <1>1 DEF Occupied
<1>9. Calm /\ overwritten' # {} => \A i \in Slots : Occupied(i)
  <2> SUFFICES ASSUME Calm, overwritten' # {}, NEW i \in Slots PROVE Occupied(i)
    OBVIOUS
  <2>1. Occupied(b)
    BY <1>3 DEF Calm, Occupied
  <2>2. i # b => Age(i) < Age(b)
    BY <1>1, <1>4, <1>5, <1>6
  <2>3. QED
    BY <1>1, <1>6, <2>1, <2>2 DEF CalmInv
<1>10. ASSUME Calm' PROVE CalmInv'
  <2>1. Calm /\ ~Occupied(b)
    BY <1>3, <1>10 DEF Calm, Occupied
  <2>2. lastWritten = b => \A i \in Slots : ~Occupied(i)
    BY <1>2, <1>6, <2>1 DEF CalmInv
  <2>3. lastWritten # b => Occupied(lastWritten)
    BY <1>2, <1>6, <2>1 DEF CalmInv, b
  <2>4. Occupied(lastWritten)'
    BY <1>1, <1>2, <1>8, <2>3 DEF Occupied
  <2>5. ASSUME NEW i \in Slots, Occupied(i)'
        PROVE  /\ writes'[i].id >= base
               /\ Age(i)' <= Age(lastWritten)'
               /\ \A j \in Slots : Age(j)' < Age(i)' => Occupied(j)'
               /\ \A t \in Sockets : \A k \in DOMAIN sent[t] : sent[t][k].msg.id < writes'[i].id
    <3>1. CASE i = b
      <4>1. writes'[i].id = added /\ Age(i)' = 1
        BY <1>1, <1>4, <3>1
      <4>2. \A j \in Slots : Age(j)' >= 1 /\ Age(j)' \in Nat
        BY <1>4
      <4>3. Age(lastWritten)' >= 1
        BY <1>1, <1>2, <4>2 DEF Age
      <4>4. QED
        BY <1>1, <1>2, <1>7, <4>1, <4>2, <4>3
    <3>2. CASE i # b
      <4>1. /\ Occupied(i) /\ writes'[i] = writes[i] /\ lastWritten # b
            /\ Age(i)' = Age(i) + 1
        BY <1>1, <1>4, <1>8, <2>2, <2>5, <3>2
      <4>2. /\ writes[i].id >= base /\ Age(i) <= Age(lastWritten)
            /\ \A j \in Slots : Age(j) < Age(i) => Occupied(j)
            /\ \A t \in Sockets : \A k \in DOMAIN sent[t] : sent[t][k].msg.id < writes[i].id
        BY <1>2, <1>6, <2>1, <4>1 DEF CalmInv
      <4>3. Age(lastWritten)' = Age(lastWritten) + 1
        <5>1. \A j \in Slots : lastWritten = j /\ j # b => Age(j)' = Age(j) + 1
          BY <1>4
        <5>2. QED
          BY <1>1, <1>2, <4>1, <5>1 DEF Age
      <4>4. Age(i) + 1 <= Age(lastWritten) + 1
        BY <1>2, <1>4, <4>2
      <4>5. ASSUME NEW j \in Slots, Age(j)' < Age(i)' PROVE Occupied(j)'
        <5>1. CASE j = b
          BY <1>8, <5>1
        <5>2. CASE j # b
          BY <1>4, <1>8, <4>1, <4>2, <4>5, <5>2
        <5>3. QED
          BY <5>1, <5>2
      <4>6. QED
        BY <4>1, <4>2, <4>3, <4>4, <4>5
    <3>3. QED
      BY <3>1, <3>2
  <2>6. Age(NextSlot)' = Age(lastWritten)' /\ (Occupied(NextSlot)' <=> Occupied(lastWritten)')
    BY <1>1, <1>2 DEF Age, Occupied
  <2>7. \A t \in Sockets : \A i, j \in DOMAIN sent[t] :
          i < j => sent[t][i].msg.id < sent[t][j].msg.id
    BY <1>6, <2>1 DEF CalmInv
  <2>8. QED
    BY <1>1, <2>4, <2>5, <2>6, <2>7 DEF CalmInv
<1>11. QED
  BY <1>9, <1>10 DEF CalmInv

(* Only the last entry of what was sent is new.                            *)
LEMMA SentOrder ==
  ASSUME TypeOK, WriteSlot, NEW s \in Sockets,
         NEW i \in DOMAIN sent'[s], NEW j \in DOMAIN sent'[s], i < j
  PROVE  i \in DOMAIN sent[s] /\ sent'[s][i] = sent[s][i]
<1>1. CASE s # walker
  BY <1>1, WriteSlotEffect
<1>2. CASE s = walker
  <2>1. /\ Len(sent[s]) \in Nat
        /\ DOMAIN sent[s] = 1 .. Len(sent[s]) /\ DOMAIN sent'[s] = 1 .. Len(sent[s]) + 1
        /\ \A k \in 1 .. Len(sent[s]) : sent'[s][k] = sent[s][k]
    BY <1>2, WriteSlotEffect
  <2>2. i \in 1 .. Len(sent[s])
    BY <2>1
  <2>3. QED
    BY <2>1, <2>2
<1>3. QED
  BY <1>1, <1>2

(* The message that goes out is older than all the others in the ring.     *)
LEMMA WriteCalm ==
  ASSUME OrderIInv, WriteSlot
  PROVE  CalmInv'
<1> DEFINE w == lastWritten
<1> SUFFICES ASSUME Calm' PROVE CalmInv'
  BY DEF CalmInv
<1>1. /\ w \in Slots /\ walker \in Sockets /\ pc = "slot" /\ pc' = "increment"
      /\ UNCHANGED <<lastBuffered, lastWritten, walker, overwritten, base>>
      /\ Occupied(w) /\ walker # NoSocket
  BY DEF WriteSlot, OrderIInv, TypeOK, Pending, Occupied
<1>2. Calm
  BY DEF WriteSlot, Calm, Undisturbed, link
<1>3. \A i \in Slots : /\ Occupied(i)' => i # w
                       /\ i # w => writes'[i] = writes[i] /\ (Occupied(i)' <=> Occupied(i))
  BY DEF WriteSlot, OrderIInv, TypeOK, Occupied
<1>4. NextSlot = w /\ NextSlot' = Successor(w) /\ Successor(w) \in Slots
  BY <1>1, SuccessorInSlots DEF NextSlot
<1>5. \A i \in Slots : /\ Age(i)' = Age(i) /\ Age(i) \in Nat /\ 1 <= Age(i)
                       /\ \A j \in Slots : Age(i) = Age(j) => i = j
  BY <1>1, Ages DEF OrderIInv, Age
<1>6. Age(w) > 1 => Age(Successor(w)) = Age(w) - 1
  BY <1>1, Ages DEF OrderIInv
<1>7. \A i \in Slots : Occupied(i) =>
         /\ writes[i].id >= base
         /\ Age(i) <= Age(w)
         /\ \A j \in Slots : Age(j) < Age(i) => Occupied(j)
         /\ \A s \in Sockets : \A k \in DOMAIN sent[s] : sent[s][k].msg.id < writes[i].id
  BY <1>2, <1>4 DEF OrderIInv, CalmInv
<1>8. ASSUME NEW i \in Slots, Occupied(i)
      PROVE  writes[i].id + Age(i) = added /\ writes[i].id \in Nat /\ added \in Nat
  BY <1>7, <1>8, SlotType DEF OrderIInv, AgeInv, Occupied, TypeOK
<1>9. \A s \in Sockets : \A k \in DOMAIN sent'[s] :
        \/ k \in DOMAIN sent[s] /\ sent'[s][k] = sent[s][k]
        \/ sent'[s][k].msg = writes[w]
  BY SentAfterWrite DEF OrderIInv
<1> HIDE DEF w
<1>10. ASSUME NEW i \in Slots, Occupied(i)'
       PROVE  /\ writes'[i].id >= base
              /\ Age(i) <= Age(Successor(w))
              /\ Occupied(Successor(w))'
              /\ \A j \in Slots : Age(j) < Age(i) => Occupied(j)'
              /\ writes[w].id < writes'[i].id
              /\ \A s \in Sockets : \A k \in DOMAIN sent[s] : sent[s][k].msg.id < writes'[i].id
  <2>1. i # w /\ Occupied(i) /\ writes'[i] = writes[i]
    BY <1>3, <1>10
  <2>2. /\ Age(i) < Age(w) /\ Age(w) > 1 /\ Age(i) \in Nat /\ Age(w) \in Nat
    BY <1>1, <1>5, <1>7, <2>1
  <2>3. Age(Successor(w)) = Age(w) - 1 /\ Age(i) <= Age(Successor(w)) /\ Successor(w) # w
    BY <1>6, <2>2
  <2>4. Occupied(Successor(w))
    <3>1. \A j \in Slots : Age(j) < Age(w) => Occupied(j)
      BY <1>1, <1>7
    <3>2. Age(Successor(w)) < Age(w)
      BY <2>2, <2>3
    <3>3. QED
      BY <1>4, <3>1, <3>2
  <2>5. Occupied(Successor(w))'
    <3>1. \A j \in Slots : j = Successor(w) /\ Occupied(j) => Occupied(j)'
      BY <1>3, <2>3
    <3>2. writes'[Successor(w)] # NoMsg
      BY <1>3, <1>4, <2>3, <2>4 DEF Occupied
    <3>3. Successor(w)' = Successor(w)
      BY <1>1 DEF Successor, w
    <3>4. QED
      BY <3>2, <3>3 DEF Occupied
  <2>6. \A j \in Slots : Age(j) < Age(i) => Occupied(j)'
    BY <1>3, <1>5, <1>7, <2>1, <2>2
  <2>7. writes[w].id < writes[i].id
    BY <1>1, <1>8, <2>1, <2>2
  <2>8. QED
    BY <1>7, <2>1, <2>3, <2>5, <2>6, <2>7
<1>11. \A s \in Sockets : \A i, j \in DOMAIN sent'[s] :
         i < j => sent'[s][i].msg.id < sent'[s][j].msg.id
  <2> SUFFICES ASSUME NEW s \in Sockets, NEW i \in DOMAIN sent'[s], NEW j \in DOMAIN sent'[s],
                      i < j
               PROVE  sent'[s][i].msg.id < sent'[s][j].msg.id
    OBVIOUS
  <2>1. i \in DOMAIN sent[s] /\ sent'[s][i] = sent[s][i]
    BY SentOrder DEF OrderIInv
  <2>2. CASE j \in DOMAIN sent[s] /\ sent'[s][j] = sent[s][j]
    BY <1>2, <2>1, <2>2 DEF OrderIInv, CalmInv
  <2>3. CASE sent'[s][j].msg = writes[w]
    BY <1>1, <1>7, <2>1, <2>3
  <2>4. QED
    BY <1>9, <2>2, <2>3
<1>12. \A i \in Slots : Occupied(i)' => \A s \in Sockets : \A k \in DOMAIN sent'[s] :
         sent'[s][k].msg.id < writes'[i].id
  BY <1>9, <1>10
<1>13. Age(NextSlot)' = Age(Successor(w)) /\ (Occupied(NextSlot)' <=> Occupied(Successor(w))')
  BY <1>1, <1>4 DEF Age, Occupied, Successor, w
<1>14. QED
  BY <1>1, <1>5, <1>10, <1>11, <1>12, <1>13 DEF CalmInv

(* Every step keeps the order.                                             *)
LEMMA OrderStep ==
  ASSUME OrderIInv, [Next]_vars
  PROVE  /\ WalkerInv' /\ CalmInv'
         /\ Calm /\ overwritten' # {} => \A i \in Slots : Occupied(i)
<1> DEFINE Goal == /\ WalkerInv' /\ CalmInv'
                   /\ Calm /\ overwritten' # {} => \A i \in Slots : Occupied(i)
<1>1. TypeOK /\ QueuedForOpen /\ WalkerInv /\ CalmInv
  BY DEF OrderIInv
<1>2. \A s \in Sockets : s # NoSocket
  BY SocketsAssumption
<1>3. Calm => OnePage /\ overwritten = {} /\ ~delayed
  BY DEF Calm, Undisturbed, OnePage
<1>4. CASE UNCHANGED vars
  <2>1. CalmInv'
    BY <1>1, <1>4, CalmFrame DEF vars, ring, walk, link, history, NextSlot, Successor, Calm,
       Undisturbed, CalmInv
  <2>2. QED
    BY <1>1, <1>3, <1>4, <2>1 DEF vars, walk, link, history, WalkerInv
<1>5. ASSUME NEW s \in Sockets, Established(s) PROVE Goal
  <2>1. /\ walker = NoSocket /\ UNCHANGED <<writes, lastBuffered, lastWritten, walker, pc, partial,
                                           delayed, sent, base, overwritten, protocol>>
        /\ overlapped' = (overlapped \/ open # {})
    BY <1>5 DEF Established, ring, walk, history
  <2>2. Calm' => Calm
    BY <2>1 DEF Calm, Undisturbed
  <2>3. NextSlot' = NextSlot
    BY <2>1 DEF NextSlot, Successor
  <2>4. CalmInv'
    BY <1>1, <2>1, <2>2, <2>3, CalmFrame DEF CalmInv
  <2>5. QED
    BY <1>1, <1>3, <2>1, <2>4 DEF WalkerInv
<1>6. ASSUME NEW s \in Sockets, AddWriteToQueue(s) PROVE Goal
  BY <1>1, <1>6, AddCalm DEF WalkerInv, AddWriteToQueue, walk, link
<1>7. ASSUME NEW s \in Sockets, ProcessQueue(s) PROVE Goal
  <2>1. /\ walker = NoSocket /\ walker' = s /\ s \in open /\ pc' = "slot" /\ partial' = FALSE
        /\ UNCHANGED <<writes, lastBuffered, lastWritten, delayed, sent, base, overwritten,
                       protocol, overlapped, open>>
    BY <1>7 DEF ProcessQueue, MayWalk, ring, link, history
  <2>2. NextSlot' = NextSlot /\ (Calm' <=> Calm)
    BY <1>1, <2>1 DEF NextSlot, WalkerInv, Calm, Undisturbed
  <2>3. CalmInv'
    BY <1>1, <1>2, <2>1, <2>2, CalmFrame
  <2>4. QED
    BY <1>2, <1>3, <2>1, <2>3 DEF WalkerInv
<1>8. ASSUME NEW s \in Sockets, Closed(s) PROVE Goal
  <2>1. /\ walker = NoSocket /\ s \in open /\ open' = open \ {s}
        /\ UNCHANGED <<walker, pc, partial, delayed, protocol, overlapped>>
    BY <1>8 DEF Closed, walk
  <2>2. WalkerInv'
    BY <1>1, <2>1 DEF WalkerInv
  <2>3. CASE current \in Sockets /\ ClearSlots(current)
    <3>1. /\ sent' = sent /\ overwritten' = overwritten /\ lastWritten' = 0 /\ lastBuffered' = 0
          /\ \A i \in Slots : writes'[i] # NoMsg =>
               writes'[i] = writes[i] /\ writes[i].fd # current
      BY <2>3 DEF ClearSlots, Pending
    <3>2. Calm' <=> Calm
      BY <2>1, <3>1 DEF Calm, Undisturbed
    <3>3. Calm => \A i \in Slots : ~Occupied(i)'
      BY <1>1, <1>3, <3>1 DEF QueuedForOpen, Occupied
    <3>4. CalmInv'
      BY <1>1, <3>1, <3>2, <3>3, EmptyCalm DEF CalmInv
    <3>5. QED
      BY <1>3, <2>2, <3>1, <3>4
  <2>4. CASE protocol = "api" /\ UNCHANGED <<ring, history>>
    <3>1. ~Calm /\ ~Calm'
      BY <2>1, <2>4 DEF Calm, Undisturbed
    <3>2. QED
      BY <2>2, <3>1 DEF CalmInv
  <2>5. QED
    BY <1>1, <1>8, <2>3, <2>4, ClosedEffect
<1>9. CASE SkipSlot
  <2>1. /\ walker # NoSocket /\ pc = "slot" /\ pc' = "increment"
        /\ lastWritten \notin Pending(walker) \/ partial
        /\ UNCHANGED <<writes, lastBuffered, lastWritten, walker, partial, delayed, sent, base,
                       overwritten, protocol, overlapped, open>>
        /\ lastWritten \in Slots
    BY <1>1, <1>9 DEF SkipSlot, ring, link, history, TypeOK
  <2>2. Calm' <=> Calm
    BY <2>1 DEF Calm, Undisturbed
  <2>3. Calm => ~Occupied(lastWritten)
    <3>1. Calm => ~partial /\ open = {current} \ {NoSocket}
      BY <1>1, <1>3 DEF WalkerInv, QueuedForOpen
    <3>2. Calm => walker = current
      BY <1>1, <2>1, <3>1 DEF WalkerInv
    <3>3. Calm /\ Occupied(lastWritten) => writes[lastWritten].fd \in open
      BY <1>1, <1>3, <2>1 DEF QueuedForOpen, Occupied
    <3>4. QED
      BY <2>1, <3>1, <3>2, <3>3 DEF Occupied, Pending
  <2>4. Calm => \A i \in Slots : ~Occupied(i)'
    BY <1>1, <2>1, <2>3 DEF CalmInv, NextSlot, Occupied
  <2>5. CalmInv'
    BY <1>1, <2>1, <2>2, <2>4 DEF CalmInv
  <2>6. QED
    BY <1>1, <1>3, <2>1, <2>5 DEF WalkerInv
<1>10. CASE WriteSlot
  <2>1. WalkerInv' /\ overwritten' = overwritten
    BY <1>1, <1>10 DEF WalkerInv, WriteSlot, link
  <2>2. QED
    BY <1>3, <1>10, <2>1, WriteCalm
<1>11. CASE Increment
  <2>1. /\ walker # NoSocket /\ pc = "increment" /\ pc' = "slot"
        /\ lastWritten' = Successor(lastWritten)
        /\ walker' = IF lastWritten' = lastBuffered THEN NoSocket ELSE walker
        /\ UNCHANGED <<writes, lastBuffered, partial, delayed, sent, base, overwritten, protocol,
                       overlapped, open>>
    BY <1>11 DEF Increment, link, history
  <2>2. NextSlot' = NextSlot /\ (Calm' <=> Calm)
    BY <2>1 DEF NextSlot, Calm, Undisturbed
  <2>3. CalmInv'
    BY <1>1, <2>1, <2>2, CalmFrame
  <2>4. QED
    BY <1>1, <1>3, <2>1, <2>3 DEF WalkerInv
<1>12. QED
  BY <1>4, <1>5, <1>6, <1>7, <1>8, <1>9, <1>10, <1>11 DEF Next, Walk

(* It holds in every reachable state.                                      *)
LEMMA OrderAlways == Spec => []OrderIInv
<1>1. Init => QueuedForOpen /\ WalkerInv /\ CalmInv /\ AgeInv /\ SentToAddressee
  BY DEF Init, QueuedForOpen, OnePage, WalkerInv, CalmInv, Occupied, AgeInv, SentToAddressee
<1>2. TypeOK /\ Accounted /\ QueuedForOpen /\ SentToAddressee /\ AgeInv /\ WalkerInv /\ CalmInv
        /\ [Next]_vars
      => QueuedForOpen' /\ SentToAddressee' /\ AgeInv' /\ WalkerInv' /\ CalmInv'
  BY AddresseeStep, AgeInvStep, OrderStep DEF OrderIInv
<1>3. QED
  BY TypeCorrect, AccountedAlways, <1>1, <1>2, PTL DEF Spec, OrderIInv

(* A display or plugin with one page, whose writes were never partial,     *)
(* gets its messages in order until the ring overflows.                    *)
THEOREM InOrderAlways == Spec => []InOrder
<1>1. OrderIInv => InOrder
  BY DEF OrderIInv, CalmInv, Calm, InOrder
<1>2. QED
  BY OrderAlways, <1>1, PTL

(* It loses its first message only when all slots hold unsent messages.    *)
THEOREM FirstLossWhenFullHolds == Spec => FirstLossWhenFull
<1> DEFINE Full == Undisturbed /\ overwritten = {} /\ overwritten' # {}
                     => \A i \in Slots : writes[i] # NoMsg
<1>1. OrderIInv /\ [Next]_vars => [Full]_vars
  BY OrderStep DEF Calm, Occupied
<1>2. QED
  BY OrderAlways, <1>1, PTL DEF Spec, FirstLossWhenFull

-----------------------------------------------------------------------------
(* The refinement mapping of ImplementsOutbox. *)
PendingBar == {writes[i] : i \in {j \in Slots : writes[j] # NoMsg}}
SentBar == [s \in Sockets |-> [i \in DOMAIN sent[s] |-> sent[s][i].msg.id]]
OutboxMessage == [fd : Sockets, conn : 0 .. MaxConns, id : 0 .. MaxAdds - 1]

ConnBound == \A s \in Sockets : conn[s] <= MaxConns

LEMMA ConnBoundStep == TypeOK /\ ConnBound /\ [Next]_vars => ConnBound'
<1> SUFFICES ASSUME TypeOK, ConnBound, [Next]_vars PROVE ConnBound'
  OBVIOUS
<1>1. ASSUME NEW s \in Sockets, Established(s) PROVE ConnBound'
  <2>1. /\ conn[s] \in Nat /\ conn[s] < MaxConns
        /\ conn' = [conn EXCEPT ![s] = conn[s] + 1]
        /\ conn \in [Sockets -> Nat]
    BY <1>1 DEF Established, TypeOK
  <2>2. conn[s] + 1 <= MaxConns
    BY <2>1, BoundsAssumption
  <2>3. QED
    BY <2>1, <2>2 DEF ConnBound
<1>2. CASE UNCHANGED conn
  BY <1>2 DEF ConnBound
<1>3. QED
  BY <1>1, <1>2 DEF Next, Walk, vars, link, AddWriteToQueue, ProcessQueue,
     Closed, SkipSlot, WriteSlot, Increment

(* Accepting a message, with what it pushes out, is one Accept. *)
LEMMA AddIsAccept ==
  ASSUME TypeOK, Accounted, ConnBound, NEW s \in Sockets, AddWriteToQueue(s)
  PROVE  Promise!Accept
<1> DEFINE b == lastBuffered
           new == [fd |-> s, conn |-> conn[s], id |-> added]
           lost == IF writes[b] = NoMsg THEN {} ELSE {writes[b]}
<1>1. /\ b \in Slots /\ new # NoMsg
      /\ writes'[b] = new
      /\ \A i \in Slots \ {b} : writes'[i] = writes[i]
      /\ sent' = sent
  <2>1. new \in Message
    BY DEF TypeOK, Message
  <2>2. QED
    BY <2>1, NoMsgAssumption DEF AddWriteToQueue, TypeOK
<1>2. new \in OutboxMessage /\ new.id = added
  <2>1. conn[s] \in 0 .. MaxConns
    BY DEF TypeOK, ConnBound
  <2>2. added \in 0 .. MaxAdds - 1
    BY BoundsAssumption DEF TypeOK, AddWriteToQueue
  <2>3. QED
    BY <2>1, <2>2 DEF OutboxMessage
<1>3. lost \in {{}} \cup {{p} : p \in PendingBar}
  BY <1>1 DEF PendingBar
<1>4. \A p \in PendingBar : p.id # new.id
  <2>1. \A i \in Slots : writes[i] # NoMsg => writes[i].id # added
    BY SlotType DEF Accounted, NoInvention, TypeOK
  <2>2. QED
    BY <1>2, <2>1 DEF PendingBar
<1>5. \A t \in Sockets : \A i \in DOMAIN SentBar[t] : SentBar[t][i] # new.id
  <2> SUFFICES ASSUME NEW t \in Sockets, NEW i \in DOMAIN sent[t]
               PROVE  sent[t][i].msg.id # added
    BY <1>2 DEF SentBar
  <2>1. sent[t][i].msg.id \in Nat /\ sent[t][i].msg.id < added
    BY SentType DEF Accounted, NoInvention
  <2>2. QED
    BY <2>1 DEF TypeOK
<1>6. writes[b] # NoMsg => \A i \in Slots \ {b} : writes[i] # writes[b]
  BY <1>1 DEF Accounted, NoDuplicate
<1> HIDE DEF new, b
<1>7. PendingBar' = (PendingBar \ lost) \cup {new}
  <2>1. ASSUME NEW p \in PendingBar' PROVE p \in (PendingBar \ lost) \cup {new}
    <3>1. PICK i \in Slots : writes'[i] # NoMsg /\ p = writes'[i]
      BY DEF PendingBar
    <3>2. CASE i = b
      BY <1>1, <3>1, <3>2
    <3>3. CASE i # b
      BY <1>1, <1>6, <3>1, <3>3 DEF PendingBar
    <3>4. QED BY <3>2, <3>3
  <2>2. ASSUME NEW p \in (PendingBar \ lost) \cup {new} PROVE p \in PendingBar'
    <3>1. CASE p = new
      BY <1>1, <3>1 DEF PendingBar
    <3>2. CASE p \in PendingBar \ lost
      <4>1. PICK i \in Slots : writes[i] # NoMsg /\ p = writes[i]
        BY <3>2 DEF PendingBar
      <4>2. i # b
        BY <3>2, <4>1
      <4>3. QED
        BY <1>1, <4>1, <4>2 DEF PendingBar
    <3>3. QED BY <3>1, <3>2
  <2>3. QED BY <2>1, <2>2
<1>8. SentBar' = SentBar
  BY <1>1 DEF SentBar
<1> HIDE DEF lost
<1>9. QED
  BY <1>2, <1>3, <1>4, <1>5, <1>7, <1>8
  DEF Promise!Accept, PendingBar, SentBar, OutboxMessage

(* lws_write of one slot is one Send. *)
LEMMA WriteIsSend ==
  ASSUME TypeOK, Accounted, WriteSlot
  PROVE  Promise!Send
<1> DEFINE k == lastWritten
           m == writes[lastWritten]
<1>1. /\ k \in Slots /\ m # NoMsg /\ m.fd = walker /\ walker \in Sockets
      /\ writes'[k] = NoMsg
      /\ \A i \in Slots \ {k} : writes'[i] = writes[i]
      /\ \A i \in Slots \ {k} : writes[i] # m
  BY WriteSlotEffect DEF TypeOK, Accounted, NoDuplicate
<1>2. m \in PendingBar
  BY <1>1 DEF PendingBar
<1>3. PendingBar' = PendingBar \ {m}
  <2> HIDE DEF k, m
  <2>1. ASSUME NEW p \in PendingBar' PROVE p \in PendingBar \ {m}
    <3>1. PICK i \in Slots : writes'[i] # NoMsg /\ p = writes'[i]
      BY DEF PendingBar
    <3>2. QED
      BY <1>1, <3>1 DEF PendingBar
  <2>2. ASSUME NEW p \in PendingBar \ {m} PROVE p \in PendingBar'
    <3>1. PICK i \in Slots : writes[i] # NoMsg /\ p = writes[i]
      BY <2>2 DEF PendingBar
    <3>2. i # k
      BY <2>2, <3>1 DEF k, m
    <3>3. QED
      BY <1>1, <3>1, <3>2 DEF PendingBar
  <2>3. QED BY <2>1, <2>2
<1>4. SentBar' = [SentBar EXCEPT ![m.fd] = Append(@, m.id)]
  <2>1. ASSUME NEW t \in Sockets, t # walker
        PROVE  SentBar'[t] = SentBar[t]
    BY <2>1, WriteSlotEffect DEF SentBar
  <2>2. SentBar'[walker] = Append(SentBar[walker], m.id)
    <3> DEFINE L == Len(sent[walker])
               old == [i \in 1 .. L |-> sent[walker][i].msg.id]
    <3>1. L \in Nat /\ SentBar[walker] = old
      BY <1>1, WriteSlotEffect DEF SentBar
    <3>2. SentBar'[walker] = [i \in 1 .. L + 1 |-> sent'[walker][i].msg.id]
      BY <1>1, WriteSlotEffect DEF SentBar
    <3>3. /\ \A i \in 1 .. L : sent'[walker][i].msg.id = old[i]
          /\ sent'[walker][L + 1].msg.id = m.id
      BY WriteSlotEffect
    <3>4. old \in Seq(Nat) /\ Len(old) = L /\ m.id \in Nat
      <4>1. \A i \in 1 .. L : sent[walker][i].msg.id \in Nat
        BY <1>1, SentType, WriteSlotEffect
      <4>2. QED
        BY <1>1, <3>1, <4>1, SlotType
    <3> HIDE DEF old, L, m
    <3>5. Append(old, m.id) = [i \in 1 .. L + 1 |-> sent'[walker][i].msg.id]
      <4>1. /\ Append(old, m.id) \in Seq(Nat) /\ Len(Append(old, m.id)) = L + 1
            /\ \A i \in 1 .. L : Append(old, m.id)[i] = old[i]
            /\ Append(old, m.id)[L + 1] = m.id
        BY <3>1, <3>4
      <4>2. \A i \in 1 .. L + 1 : Append(old, m.id)[i] = sent'[walker][i].msg.id
        BY <3>1, <3>3, <4>1
      <4>3. QED
        BY <4>1, <4>2
    <3>6. QED
      BY <3>1, <3>2, <3>5
  <2>3. SentBar = [t \in Sockets |-> SentBar[t]] /\ SentBar' = [t \in Sockets |-> SentBar'[t]]
    BY DEF SentBar
  <2> HIDE DEF m
  <2>4. QED
    BY <1>1, <2>1, <2>2, <2>3
<1>5. QED
  BY <1>2, <1>3, <1>4 DEF Promise!Send, PendingBar, SentBar

(* Clearing the slots of a socket is one Discard. *)
LEMMA ClearIsDiscard ==
  ASSUME TypeOK, NEW s \in Sockets, ClearSlots(s)
  PROVE  Promise!Discard
<1>1. /\ sent' = sent
      /\ \A i \in Slots : writes'[i] =
           IF writes[i] # NoMsg /\ writes[i].fd = s THEN NoMsg ELSE writes[i]
  BY DEF ClearSlots, Pending
<1>2. PendingBar' = {m \in PendingBar : m.fd # s}
  <2>1. ASSUME NEW p \in PendingBar' PROVE p \in PendingBar /\ p.fd # s
    BY <1>1 DEF PendingBar
  <2>2. ASSUME NEW p \in PendingBar, p.fd # s PROVE p \in PendingBar'
    <3>1. PICK i \in Slots : writes[i] # NoMsg /\ p = writes[i]
      BY DEF PendingBar
    <3>2. writes'[i] = writes[i]
      BY <1>1, <2>2, <3>1
    <3>3. QED
      BY <3>1, <3>2 DEF PendingBar
  <2>3. QED BY <2>1, <2>2
<1>3. QED
  BY <1>1, <1>2 DEF Promise!Discard, PendingBar, SentBar

(* The ring implements the outbox its callers rely on: at most one send    *)
(* per message, on its own descriptor, and no loss but by a later message  *)
(* or by the clear of its socket.                                          *)
THEOREM RingImplementsOutbox == Spec => ImplementsOutbox
<1>1. Init => ConnBound
  <2> SUFFICES ASSUME Init, NEW s \in Sockets PROVE conn[s] <= MaxConns
    BY DEF ConnBound
  <2>1. conn[s] = 0
    BY DEF Init
  <2>2. QED
    BY <2>1, BoundsAssumption
<1>2. Init => Promise!Init
  BY DEF Init, Promise!Init
<1>3. TypeOK /\ Accounted /\ ConnBound /\ [Next]_vars => [Promise!Next]_(Promise!vars)
  <2> SUFFICES ASSUME TypeOK, Accounted, ConnBound, [Next]_vars
               PROVE  [Promise!Next]_(Promise!vars)
    OBVIOUS
  <2>1. ASSUME UNCHANGED <<writes, sent>> PROVE UNCHANGED Promise!vars
    BY <2>1 DEF Promise!vars
  <2>2. CASE UNCHANGED vars
    BY <2>1, <2>2 DEF vars, ring, history
  <2>3. ASSUME NEW s \in Sockets, Established(s) PROVE UNCHANGED Promise!vars
    BY <2>1, <2>3 DEF Established, ring, history
  <2>4. ASSUME NEW s \in Sockets, AddWriteToQueue(s) PROVE Promise!Next
    BY <2>4, AddIsAccept DEF Promise!Next
  <2>5. ASSUME NEW s \in Sockets, ProcessQueue(s) PROVE UNCHANGED Promise!vars
    BY <2>1, <2>5 DEF ProcessQueue, ring, history
  <2>7. ASSUME NEW s \in Sockets, Closed(s) PROVE Promise!Next \/ UNCHANGED Promise!vars
    <3>1. CASE current \in Sockets /\ ClearSlots(current)
      BY <3>1, ClearIsDiscard DEF Promise!Next
    <3>2. CASE UNCHANGED <<ring, history>>
      BY <2>1, <3>2 DEF ring, history
    <3>3. QED BY <2>7, <3>1, <3>2, ClosedEffect
  <2>8. CASE SkipSlot
    BY <2>1, <2>8 DEF SkipSlot, ring, history
  <2>9. CASE WriteSlot
    BY <2>9, WriteIsSend DEF Promise!Next
  <2>10. CASE Increment
    BY <2>1, <2>10 DEF Increment, history
  <2>11. QED
    BY <2>2, <2>3, <2>4, <2>5, <2>7, <2>8, <2>9, <2>10 DEF Next, Walk
<1>4. QED
  BY TypeCorrect, AccountedAlways, <1>1, ConnBoundStep, <1>2, <1>3, PTL
  DEF Spec, ImplementsOutbox, Promise!Spec
=============================================================================
