------------------------ MODULE PendingActionsProofs ------------------------
(* Theorems about PendingActions, for every ring size and number of pages. *)
EXTENDS PendingActions, FiniteSetTheorems, TLAPS

(* The next slot is in the ring.                                           *)
LEMMA NextSlot ==
  ASSUME NEW i \in Slots
  PROVE  GetFreeSlot(i) \in Slots /\ GetFreeSlot(i) = IF i = N - 1 THEN 0 ELSE i + 1
  BY NAssumption DEF Slots, GetFreeSlot

(* A request that waits was accepted, has no answer, was not dropped, and  *)
(* waits in one slot.                                                      *)
SlotInv ==
  \A i \in Slots : Waits(i) =>
    /\ pendingActions[i] \in Requests /\ pendingActions[i] < accepted
    /\ answer[pendingActions[i]] = NoReply
    /\ pendingActions[i] \notin dropped
    /\ \A j \in Slots : pendingActions[j] = pendingActions[i] => j = i

(* What became of each request.                                            *)
FateInv ==
  \A r \in Requests :
    /\ r >= accepted => answer[r] = NoReply /\ r \notin dropped
    /\ r < accepted =>
         \/ \E i \in Slots : pendingActions[i] = r
         \/ answer[r] # NoReply
         \/ r \in dropped
    /\ answer[r] # NoReply => r \notin dropped

(* The two together say more than Accounted, and are inductive.            *)
KeptInv == TypeOK /\ SlotInv /\ FateInv

(* The inductive invariant implies the one the runs check.                 *)
LEMMA KeptInvImpliesKept == KeptInv => Kept
<1> SUFFICES ASSUME KeptInv, NEW r \in Requests
             PROVE  LET slots == {i \in Slots : pendingActions[i] = r}
                        done == answer[r] # NoReply IN
                    IF r >= accepted THEN slots = {} /\ ~done /\ r \notin dropped
                    ELSE \/ Cardinality(slots) = 1 /\ ~done /\ r \notin dropped
                         \/ slots = {} /\ done /\ r \notin dropped
                         \/ slots = {} /\ ~done /\ r \in dropped
  BY DEF KeptInv, Kept, Accounted
<1> DEFINE slots == {i \in Slots : pendingActions[i] = r}
<1>1. /\ r \in Nat /\ accepted \in Nat /\ NoAction \notin Requests
  BY NoneAssumption, BoundsAssumption DEF KeptInv, TypeOK, Requests
<1>2. ASSUME NEW i \in Slots, pendingActions[i] = r
      PROVE  /\ r < accepted /\ answer[r] = NoReply /\ r \notin dropped
             /\ Cardinality(slots) = 1
  <2>1. Waits(i)
    BY <1>1, <1>2 DEF Waits
  <2>2. slots = {i}
    BY <1>2, <2>1 DEF KeptInv, SlotInv
  <2>3. Cardinality(slots) = 1
    BY <2>2, FS_Singleton
  <2>4. QED
    BY <1>2, <2>1, <2>3 DEF KeptInv, SlotInv
<1>3. CASE \E i \in Slots : pendingActions[i] = r
  BY <1>1, <1>2, <1>3
<1>4. CASE slots = {}
  BY <1>1, <1>4 DEF KeptInv, FateInv
<1>5. QED
  BY <1>3, <1>4

(* The empty ring: nothing waits, nothing was accepted.                    *)
LEMMA KeptInvInit == Init => KeptInv
<1> SUFFICES ASSUME Init PROVE KeptInv
  OBVIOUS
<1>1. 0 \in Slots /\ 0 \in 0 .. MaxRequests
  BY NAssumption, BoundsAssumption DEF Slots
<1>2. TypeOK
  BY <1>1 DEF Init, TypeOK
<1>3. SlotInv
  BY DEF Init, SlotInv, Waits
<1>4. FateInv
  BY DEF Init, FateInv, Requests
<1>5. QED
  BY <1>2, <1>3, <1>4 DEF KeptInv

(* The request that is in the slot a new one takes is dropped.             *)
LEMMA RequestKeeps ==
  ASSUME KeptInv, NEW e \in Pages, Request(e)
  PROVE  KeptInv'
<1> DEFINE slot == GetFreeSlot(lastAction)
<1>1. /\ slot \in Slots /\ accepted \in Requests /\ accepted \in Nat
      /\ accepted + 1 \in 0 .. MaxRequests
      /\ accepted' = accepted + 1
      /\ NoAction \notin Requests
  BY NextSlot, NoneAssumption, BoundsAssumption DEF KeptInv, TypeOK, Request, Requests
<1>2. /\ pendingActions' = [pendingActions EXCEPT ![slot] = accepted]
      /\ dropped' = dropped \cup ({pendingActions[slot]} \ {NoAction})
      /\ lastAction' = slot /\ UNCHANGED <<updateAction, answer>>
  BY DEF Request, AddAction
<1> HIDE DEF slot
<1>3. TypeOK'
  <2>1. pendingActions' \in [Slots -> Requests \cup {NoAction}] /\ dropped' \subseteq Requests
    BY <1>1, <1>2 DEF KeptInv, TypeOK
  <2>2. toPage' \in [Pages -> Seq(Requests)]
    BY <1>1 DEF KeptInv, TypeOK, Request
  <2>3. target' \in Seq(Pages) /\ Len(target') = accepted'
    BY <1>1 DEF KeptInv, TypeOK, Request
  <2>4. crossed' \subseteq Pages
    BY DEF KeptInv, TypeOK, Request, CrossedAfter
  <2>5. QED
    BY <1>1, <1>2, <2>1, <2>2, <2>3, <2>4 DEF KeptInv, TypeOK, Request
<1>4. \A i \in Slots : pendingActions[i] # accepted
  BY <1>1 DEF KeptInv, SlotInv, Waits
<1>5. SlotInv'
  <2> SUFFICES ASSUME NEW i \in Slots, Waits(i)'
               PROVE  /\ pendingActions'[i] \in Requests /\ pendingActions'[i] < accepted'
                      /\ answer'[pendingActions'[i]] = NoReply
                      /\ pendingActions'[i] \notin dropped'
                      /\ \A j \in Slots : pendingActions'[j] = pendingActions'[i] => j = i
    BY DEF SlotInv
  <2>1. CASE i = slot
    BY <1>1, <1>2, <1>4, <2>1 DEF KeptInv, TypeOK, FateInv
  <2>2. CASE i # slot
    <3>1. pendingActions'[i] = pendingActions[i] /\ Waits(i) /\ pendingActions[i] # NoAction
      BY <1>1, <1>2, <2>2 DEF KeptInv, TypeOK, Waits
    <3>2. pendingActions[i] \in Requests /\ pendingActions[i] < accepted'
      BY <1>1, <3>1 DEF KeptInv, SlotInv, Requests
    <3>3. pendingActions[i] \notin dropped'
      BY <1>1, <1>2, <2>2, <3>1 DEF KeptInv, SlotInv
    <3>4. \A j \in Slots : pendingActions'[j] = pendingActions[i] => j = i
      BY <1>1, <1>2, <1>4, <2>2, <3>1 DEF KeptInv, SlotInv, TypeOK
    <3>5. QED
      BY <1>2, <3>1, <3>2, <3>3, <3>4 DEF KeptInv, SlotInv
  <2>3. QED
    BY <2>1, <2>2
<1>6. FateInv'
  <2> SUFFICES ASSUME NEW r \in Requests
               PROVE  /\ r >= accepted' => answer'[r] = NoReply /\ r \notin dropped'
                      /\ r < accepted' => \/ \E i \in Slots : pendingActions'[i] = r
                                          \/ answer'[r] # NoReply \/ r \in dropped'
                      /\ answer'[r] # NoReply => r \notin dropped'
    BY DEF FateInv
  <2>1. r \in Nat
    BY BoundsAssumption DEF Requests
  <2>2. pendingActions[slot] # NoAction =>
          pendingActions[slot] < accepted /\ answer[pendingActions[slot]] = NoReply
          /\ pendingActions[slot] \in Nat
    BY <1>1, BoundsAssumption DEF KeptInv, SlotInv, Waits, Requests
  <2>3. r >= accepted' => answer'[r] = NoReply /\ r \notin dropped'
    BY <1>1, <1>2, <2>1, <2>2 DEF KeptInv, FateInv
  <2>4. answer'[r] # NoReply => r \notin dropped'
    BY <1>1, <1>2, <2>1, <2>2 DEF KeptInv, FateInv
  <2>5. CASE r = accepted
    BY <1>1, <1>2, <2>3, <2>4, <2>5 DEF KeptInv, TypeOK
  <2>6. CASE r < accepted
    BY <1>1, <1>2, <2>3, <2>4, <2>6 DEF KeptInv, FateInv, TypeOK
  <2>7. QED
    BY <1>1, <2>1, <2>3, <2>4, <2>5, <2>6
<1>7. QED
  BY <1>3, <1>5, <1>6 DEF KeptInv

(* A slot that is served holds a request, and its page's message is there. *)
LEMMA ServedEffect ==
  ASSUME KeptInv, NEW i \in ServedSlots
  PROVE  /\ i \in Slots /\ Waits(i) /\ pendingActions[i] \in Requests
         /\ target[pendingActions[i] + 1] \in Pages
         /\ i \in Served(target[pendingActions[i] + 1])
         /\ response[target[pendingActions[i] + 1]] \in Reply
<1>1. PICK e \in Pages : i \in Served(e)
  BY DEF ServedSlots
<1>2. i \in Slots /\ Waits(i) /\ target[pendingActions[i] + 1] = e /\ response[e] # NoReply
  BY <1>1 DEF Served, Waiting, Outstanding
<1>3. QED
  BY <1>1, <1>2 DEF KeptInv, TypeOK, SlotInv

(* One turn of APIPending_update frees just the slots it answers.          *)
LEMMA UpdateKeeps ==
  ASSUME KeptInv, Update
  PROVE  KeptInv'
<1>1. NoReply \notin Reply /\ NoAction \notin Requests
  BY NoneAssumption
<1>2. /\ \A i \in Slots : pendingActions'[i] =
           IF i \in ServedSlots THEN NoAction ELSE pendingActions[i]
      /\ \A r \in Requests : answer'[r] =
           IF \E i \in ServedSlots : pendingActions[i] = r THEN response[target[r + 1]]
           ELSE answer[r]
      /\ UNCHANGED <<accepted, dropped, lastAction, target>>
  BY DEF Update, SlotAfter
<1>3. \A r \in Requests : (\E i \in ServedSlots : pendingActions[i] = r) =>
        answer'[r] \in Reply /\ answer'[r] # NoReply
  BY <1>1, <1>2, ServedEffect
<1>4. TypeOK'
  <2>1. pendingActions' \in [Slots -> Requests \cup {NoAction}]
    BY DEF KeptInv, TypeOK, Update, SlotAfter
  <2>2. answer' \in [Requests -> Reply \cup {NoReply}]
    <3>1. answer' = [r \in Requests |-> answer'[r]]
      BY DEF Update
    <3>2. \A r \in Requests : answer'[r] \in Reply \cup {NoReply}
      BY <1>2, <1>3 DEF KeptInv, TypeOK
    <3>3. QED
      BY <3>1, <3>2
  <2>3. response' \in [Pages -> Reply \cup {NoReply}]
    BY DEF KeptInv, TypeOK, Update, ResponseAfter
  <2>4. QED
    BY <2>1, <2>2, <2>3 DEF KeptInv, TypeOK, Update, LoopEnd, net
<1>5. SlotInv'
  <2> SUFFICES ASSUME NEW i \in Slots, Waits(i)'
               PROVE  /\ pendingActions'[i] \in Requests /\ pendingActions'[i] < accepted'
                      /\ answer'[pendingActions'[i]] = NoReply
                      /\ pendingActions'[i] \notin dropped'
                      /\ \A j \in Slots : pendingActions'[j] = pendingActions'[i] => j = i
    BY DEF SlotInv
  <2>1. i \notin ServedSlots /\ pendingActions'[i] = pendingActions[i] /\ Waits(i)
    BY <1>2 DEF Waits
  <2>2. /\ pendingActions[i] \in Requests /\ pendingActions[i] < accepted
        /\ answer[pendingActions[i]] = NoReply /\ pendingActions[i] \notin dropped
        /\ \A j \in Slots : pendingActions[j] = pendingActions[i] => j = i
    BY <2>1 DEF KeptInv, SlotInv
  <2>3. ~\E j \in ServedSlots : pendingActions[j] = pendingActions[i]
    BY <2>1, <2>2, ServedEffect
  <2>4. \A j \in Slots : pendingActions'[j] = pendingActions[i] => j = i
    BY <1>1, <1>2, <2>2
  <2>5. QED
    BY <1>2, <2>1, <2>2, <2>3, <2>4
<1>6. FateInv'
  <2> SUFFICES ASSUME NEW r \in Requests
               PROVE  /\ r >= accepted' => answer'[r] = NoReply /\ r \notin dropped'
                      /\ r < accepted' => \/ \E i \in Slots : pendingActions'[i] = r
                                          \/ answer'[r] # NoReply \/ r \in dropped'
                      /\ answer'[r] # NoReply => r \notin dropped'
    BY DEF FateInv
  <2>1. CASE \E i \in ServedSlots : pendingActions[i] = r
    <3>1. PICK i \in Slots : i \in ServedSlots /\ pendingActions[i] = r /\ Waits(i)
      BY <2>1, ServedEffect
    <3>2. r < accepted /\ r \notin dropped
      BY <3>1 DEF KeptInv, SlotInv
    <3>3. r \in Nat /\ accepted \in Nat
      BY BoundsAssumption DEF KeptInv, TypeOK, Requests
    <3>4. QED
      BY <1>2, <1>3, <2>1, <3>2, <3>3
  <2>2. CASE ~\E i \in ServedSlots : pendingActions[i] = r
    <3>1. answer'[r] = answer[r]
      BY <1>2, <2>2
    <3>2. \A i \in Slots : pendingActions[i] = r => pendingActions'[i] = r
      BY <1>2, <2>2
    <3>3. QED
      BY <1>2, <3>1, <3>2 DEF KeptInv, FateInv
  <2>3. QED
    BY <2>1, <2>2
<1>7. QED
  BY <1>4, <1>5, <1>6 DEF KeptInv

(* The other steps leave the ring and the requests alone.                  *)
LEMMA OthersKeep ==
  ASSUME KeptInv, TypeOK', UNCHANGED <<pendingActions, accepted, answer, dropped>>
  PROVE  KeptInv'
  BY DEF KeptInv, SlotInv, FateInv, Waits

(* Messages, connections and a disable keep the types.                     *)
LEMMA ConnectionsType ==
  ASSUME TypeOK, NEW e \in Pages,
         Receive(e) \/ Answer(e) \/ Notify(e) \/ Connect(e) \/ Disconnect(e) \/ Disable(e)
  PROVE  TypeOK'
<1>1. Notice \in Reply /\ Requests \subseteq Reply
  BY DEF Reply
<1>2. CASE Receive(e)
  BY <1>2 DEF TypeOK, Receive, CrossedAfter, ring, counters
<1>3. CASE Answer(e)
  <2>1. Head(toPage[e]) \in Requests /\ Tail(toPage[e]) \in Seq(Requests)
    BY <1>3 DEF TypeOK, Answer
  <2>2. Append(toDaemon[e], Head(toPage[e])) \in Seq(Reply)
    BY <1>1, <2>1 DEF TypeOK
  <2>3. toPage' \in [Pages -> Seq(Requests)] /\ toDaemon' \in [Pages -> Seq(Reply)]
    BY <1>3, <2>1, <2>2 DEF TypeOK, Answer
  <2>4. QED
    BY <1>3, <2>3 DEF TypeOK, Answer, ring, requests, counters
<1>4. CASE Notify(e)
  <2>1. Append(toDaemon[e], Notice) \in Seq(Reply)
    BY <1>1 DEF TypeOK
  <2>2. toDaemon' \in [Pages -> Seq(Reply)]
    BY <1>4, <2>1 DEF TypeOK, Notify
  <2>3. QED
    BY <1>4, <2>2 DEF TypeOK, Notify, ring, requests
<1>5. CASE Connect(e)
  <2>1. <<Notice>> \in Seq(Reply)
    BY <1>1
  <2>2. toDaemon' \in [Pages -> Seq(Reply)]
    BY <1>5, <2>1 DEF TypeOK, Connect
  <2>3. response' \in [Pages -> Reply \cup {NoReply}]
    BY <1>1, <1>5 DEF TypeOK, Connect
  <2>4. connected' \subseteq Pages /\ crossed' \subseteq Pages
    BY <1>5 DEF TypeOK, Connect, CrossedAfter
  <2>5. QED
    BY <1>5, <2>2, <2>3, <2>4 DEF TypeOK, Connect, ring, counters
<1>6. CASE Disconnect(e)
  <2>1. <<>> \in Seq(Reply) /\ <<>> \in Seq(Requests)
    OBVIOUS
  <2>2. toPage' \in [Pages -> Seq(Requests)] /\ toDaemon' \in [Pages -> Seq(Reply)]
    BY <1>6, <2>1 DEF TypeOK, Disconnect
  <2>3. QED
    BY <1>6, <2>2 DEF TypeOK, Disconnect, ring, requests
<1>7. CASE Disable(e)
  BY <1>7 DEF TypeOK, Disable, ring, net, requests
<1>8. QED
  BY <1>2, <1>3, <1>4, <1>5, <1>6, <1>7

(* They change neither the ring nor the requests.                          *)
LEMMA ConnectionsFrame ==
  ASSUME NEW e \in Pages,
         Receive(e) \/ Answer(e) \/ Notify(e) \/ Connect(e) \/ Disconnect(e) \/ Disable(e)
  PROVE  UNCHANGED <<pendingActions, lastAction, updateAction, accepted, target, answer,
                     dropped>>
  BY DEF Receive, Answer, Notify, Connect, Disconnect, Disable, ring, requests

(* Every step keeps the inductive invariant.                               *)
LEMMA KeptInvStep == KeptInv /\ [Next]_vars => KeptInv'
<1> SUFFICES ASSUME KeptInv, [Next]_vars PROVE KeptInv'
  OBVIOUS
<1>1. CASE UNCHANGED vars
  <2>1. TypeOK'
    BY <1>1 DEF KeptInv, TypeOK, vars, ring, net, requests, counters
  <2>2. QED
    BY <1>1, <2>1, OthersKeep DEF vars, ring, requests
<1>2. CASE Update
  BY <1>2, UpdateKeeps
<1>3. ASSUME NEW e \in Pages, Request(e) PROVE KeptInv'
  BY <1>3, RequestKeeps
<1>4. ASSUME NEW e \in Pages,
             Receive(e) \/ Answer(e) \/ Notify(e) \/ Connect(e) \/ Disconnect(e) \/ Disable(e)
      PROVE  KeptInv'
  <2>1. TypeOK'
    BY <1>4, ConnectionsType DEF KeptInv
  <2>2. QED
    BY <1>4, <2>1, ConnectionsFrame, OthersKeep
<1>5. QED
  BY <1>1, <1>2, <1>3, <1>4 DEF Next

(* It holds in every reachable state.                                      *)
LEMMA KeptInvAlways == Spec => []KeptInv
  BY KeptInvInit, KeptInvStep, PTL DEF Spec

(* Each accepted request waits in one slot, was answered once, or lost its *)
(* slot: APIPending_addAction and APIPending_update between them neither   *)
(* answer a request twice nor forget one.                                  *)
THEOREM KeptAlways == Spec => []Kept
  BY KeptInvAlways, KeptInvImpliesKept, PTL

-----------------------------------------------------------------------------
(* How many requests ago the slot i was given out.                         *)
Age(i) == IF i <= lastAction THEN lastAction - i ELSE lastAction + N - i

(* A request that waits sits as far behind lastAction as there were        *)
(* requests since: what makes the N-th after it take its slot.             *)
AgeInv == \A i \in Slots : Waits(i) => pendingActions[i] + Age(i) = accepted - 1

(* A new request makes every other slot one request older.                 *)
LEMMA AgeStep ==
  ASSUME TypeOK, NEW i \in Slots, lastAction' = GetFreeSlot(lastAction)
  PROVE  /\ Age(i) \in Nat
         /\ Age(GetFreeSlot(lastAction)) = N - 1
         /\ Age(i)' = IF i = GetFreeSlot(lastAction) THEN 0 ELSE Age(i) + 1
<1>1. /\ N \in Nat /\ N > 0 /\ i \in Int /\ lastAction \in Int
      /\ 0 <= i /\ i <= N - 1 /\ 0 <= lastAction /\ lastAction <= N - 1
  BY NAssumption DEF TypeOK, Slots
<1>2. GetFreeSlot(lastAction) = IF lastAction = N - 1 THEN 0 ELSE lastAction + 1
  BY NextSlot DEF TypeOK
<1>3. QED
  BY <1>1, <1>2 DEF Age

(* A request loses its slot without an answer to the N-th request accepted *)
(* after it, no earlier one and no later one.                              *)
THEOREM DropDistanceHolds == Spec => DropDistance
<1> DEFINE Distance == \A r \in dropped' \ dropped : accepted = r + N
<1>1. Init => AgeInv
  BY DEF Init, AgeInv, Waits
<1>2. KeptInv /\ AgeInv /\ [Next]_vars => AgeInv' /\ [Distance]_vars
  <2> SUFFICES ASSUME KeptInv, AgeInv, [Next]_vars PROVE AgeInv' /\ Distance
    OBVIOUS
  <2>1. ASSUME UNCHANGED <<pendingActions, lastAction, accepted, dropped>>
        PROVE  AgeInv' /\ Distance
    BY <2>1 DEF AgeInv, Age, Waits
  <2>2. CASE Update
    <3>1. \A i \in Slots : Waits(i)' => Waits(i) /\ pendingActions'[i] = pendingActions[i]
      BY <2>2 DEF Update, SlotAfter, Waits
    <3>2. QED
      BY <2>2, <3>1 DEF Update, AgeInv, Age
  <2>3. ASSUME NEW e \in Pages, Request(e) PROVE AgeInv' /\ Distance
    <3> DEFINE slot == GetFreeSlot(lastAction)
    <3>1. /\ slot \in Slots /\ lastAction' = slot /\ accepted' = accepted + 1
          /\ pendingActions' = [pendingActions EXCEPT ![slot] = accepted]
          /\ dropped' = dropped \cup ({pendingActions[slot]} \ {NoAction})
          /\ accepted \in Nat /\ TypeOK /\ N \in Nat
      BY <2>3, NextSlot, NAssumption DEF Request, AddAction, KeptInv, TypeOK
    <3>2. \A i \in Slots : Waits(i) => pendingActions[i] \in Nat
      BY BoundsAssumption DEF KeptInv, SlotInv, Requests
    <3>3. \A i \in Slots : /\ Age(i) \in Nat
                           /\ Age(i)' = IF i = slot THEN 0 ELSE Age(i) + 1
      BY <3>1, AgeStep
    <3>4. Age(slot) = N - 1
      BY <3>1, AgeStep
    <3> HIDE DEF slot
    <3>5. Distance
      BY <3>1, <3>2, <3>4 DEF AgeInv, Waits
    <3>6. ASSUME NEW i \in Slots, Waits(i)'
          PROVE  pendingActions'[i] + Age(i)' = accepted' - 1
      <4>1. CASE i = slot
        BY <3>1, <3>3, <4>1 DEF TypeOK
      <4>2. CASE i # slot
        <5>1. pendingActions'[i] = pendingActions[i] /\ Waits(i)
          BY <3>1, <3>6, <4>2 DEF TypeOK, Waits
        <5>2. pendingActions[i] + Age(i) = accepted - 1 /\ pendingActions[i] \in Nat
          BY <3>2, <5>1 DEF AgeInv
        <5>3. Age(i) \in Nat /\ Age(i)' = Age(i) + 1
          BY <3>3, <4>2
        <5>4. QED
          BY <3>1, <5>1, <5>2, <5>3
      <4>3. QED BY <4>1, <4>2
    <3>7. QED
      BY <3>5, <3>6 DEF AgeInv
  <2>4. ASSUME NEW e \in Pages,
               Receive(e) \/ Answer(e) \/ Notify(e) \/ Connect(e) \/ Disconnect(e) \/ Disable(e)
        PROVE  AgeInv' /\ Distance
    BY <2>1, <2>4, ConnectionsFrame
  <2>5. CASE UNCHANGED vars
    BY <2>1, <2>5 DEF vars, ring, requests
  <2>6. QED
    BY <2>2, <2>3, <2>4, <2>5 DEF Next
<1>3. QED
  BY KeptInvAlways, <1>1, <1>2, PTL DEF Spec, DropDistance

-----------------------------------------------------------------------------
(* The requests whose ids are in the queue s, and that none is in it twice.*)
Ids(s) == {s[k] : k \in DOMAIN s} \ {Notice}
Once(s) == \A k, l \in DOMAIN s : s[k] = s[l] /\ s[k] # Notice => k = l

(* A message put at the end of a queue.                                    *)
LEMMA AppendIds ==
  ASSUME NEW S, NEW s \in Seq(S), NEW x \in S
  PROVE  /\ Append(s, x) \in Seq(S)
         /\ Ids(Append(s, x)) = Ids(s) \cup ({x} \ {Notice})
         /\ Once(s) /\ x \notin Ids(s) => Once(Append(s, x))
<1> DEFINE t == Append(s, x)
<1>1. /\ t \in Seq(S) /\ Len(s) \in Nat /\ DOMAIN s = 1 .. Len(s)
      /\ DOMAIN t = 1 .. Len(s) + 1
      /\ \A k \in DOMAIN s : t[k] = s[k]
      /\ t[Len(s) + 1] = x
  OBVIOUS
<1> HIDE DEF t
<1>2. \A k \in DOMAIN t : k \in DOMAIN s \/ k = Len(s) + 1
  BY <1>1
<1>3. DOMAIN s \subseteq DOMAIN t /\ Len(s) + 1 \in DOMAIN t /\ Len(s) + 1 \notin DOMAIN s
  BY <1>1
<1>4. Ids(t) = Ids(s) \cup ({x} \ {Notice})
  BY <1>1, <1>2, <1>3 DEF Ids
<1>5. ASSUME Once(s), x \notin Ids(s), NEW k \in DOMAIN t, NEW l \in DOMAIN t,
             t[k] = t[l], t[k] # Notice
      PROVE  k = l
  BY <1>1, <1>2, <1>3, <1>5 DEF Once, Ids
<1>6. QED
  BY <1>1, <1>4, <1>5 DEF t, Once

(* The first message taken from a queue.                                   *)
LEMMA TailIds ==
  ASSUME NEW S, NEW s \in Seq(S), s # <<>>
  PROVE  /\ Tail(s) \in Seq(S) /\ Head(s) \in S
         /\ Ids(s) = Ids(Tail(s)) \cup ({Head(s)} \ {Notice})
         /\ Once(s) => Once(Tail(s)) /\ Head(s) \notin Ids(Tail(s))
<1> DEFINE t == Tail(s)
<1>1. /\ t \in Seq(S) /\ Head(s) = s[1] /\ Head(s) \in S
      /\ Len(s) \in Nat /\ Len(s) > 0 /\ DOMAIN s = 1 .. Len(s) /\ DOMAIN t = 1 .. Len(s) - 1
      /\ \A k \in DOMAIN t : t[k] = s[k + 1]
  OBVIOUS
<1> HIDE DEF t
<1>2. /\ 1 \in DOMAIN s
      /\ \A k \in DOMAIN t : k + 1 \in DOMAIN s /\ k + 1 # 1
      /\ \A k, l \in DOMAIN t : k + 1 = l + 1 => k = l
  BY <1>1
<1>6. ASSUME NEW k \in DOMAIN s PROVE k = 1 \/ \E l \in DOMAIN t : t[l] = s[k]
  <2>1. k # 1 => k - 1 \in DOMAIN t /\ (k - 1) + 1 = k
    BY <1>1
  <2>2. QED
    BY <1>1, <2>1
<1>3. Ids(s) = Ids(t) \cup ({Head(s)} \ {Notice})
  <2>1. {s[k] : k \in DOMAIN s} = {t[k] : k \in DOMAIN t} \cup {Head(s)}
    BY <1>1, <1>2, <1>6
  <2>2. QED
    BY <2>1 DEF Ids
<1>4. ASSUME Once(s) PROVE Once(t) /\ Head(s) \notin Ids(t)
  BY <1>1, <1>2, <1>4 DEF Once, Ids
<1>5. QED
  BY <1>1, <1>3, <1>4 DEF t

(* The requests whose query or reply is under way between e and the daemon.*)
UnderWay(e) == Ids(toPage[e]) \cup Ids(toDaemon[e])

(* r is an accepted request about the page e.                              *)
About(e, r) == r \in Requests /\ r < accepted /\ target[r + 1] = e

(* A request is under way once, and only until its reply is received.      *)
WayInv(e) ==
  /\ Once(toPage[e]) /\ Once(toDaemon[e]) /\ Ids(toPage[e]) \cap Ids(toDaemon[e]) = {}
  /\ \A r \in UnderWay(e) : About(e, r)
  /\ response[e] \in Requests => About(e, response[e]) /\ response[e] \notin UnderWay(e)

(* A reply given to q is about the same page and no longer under way; that *)
(* of a plugin has left clientResponse, too.                               *)
UsedInv(q) ==
  answer[q] \in Requests =>
    /\ About(target[q + 1], answer[q])
    /\ answer[q] \notin UnderWay(target[q + 1])
    /\ target[q + 1] \in Plugins => answer[q] # response[target[q + 1]]

ReplyInv ==
  /\ \A e \in Pages : WayInv(e)
  /\ \A q \in Requests : UsedInv(q)
  /\ ReplyUsedOnce

(* As long as no slot was reused and e had one request open at a time and  *)
(* no notice meanwhile: a request under way still waits, the last message  *)
(* of e is the reply to the one that waits, and so were those used before. *)
OwnInv(e) ==
  dropped = {} /\ e \notin crossed =>
    /\ \A i, j \in Outstanding(e) : i = j
    /\ \A r \in UnderWay(e) : \E i \in Outstanding(e) : pendingActions[i] = r
    /\ \A i \in Outstanding(e) : response[e] \in {NoReply, pendingActions[i]}
    /\ \A r \in Requests : About(e, r) => answer[r] \in {NoReply, r}

(* What is about a page stays so.                                          *)
LEMMA AboutStays ==
  ASSUME KeptInv, [Next]_vars, NEW e, NEW r, About(e, r)
  PROVE  About(e, r)' /\ target'[r + 1] = target[r + 1]
<1>1. r \in Nat /\ r < Len(target) /\ Len(target) = accepted /\ target \in Seq(Pages)
  BY BoundsAssumption DEF About, Requests, KeptInv, TypeOK
<1>2. ASSUME NEW d \in Pages, Request(d) PROVE About(e, r)' /\ target'[r + 1] = target[r + 1]
  BY <1>1, <1>2 DEF Request, About
<1>3. CASE UNCHANGED <<target, accepted>>
  BY <1>3 DEF About
<1>4. QED
  BY <1>2, <1>3, ConnectionsFrame DEF Next, vars, requests, Update

(* Only a page's own steps touch its queues and its last message, ...      *)
LEMMA OtherPages ==
  ASSUME KeptInv, NEW e \in Pages, NEW d \in Pages, d # e,
         \/ Request(e) \/ Receive(e) \/ Answer(e) \/ Notify(e)
         \/ Connect(e) \/ Disconnect(e) \/ Disable(e)
  PROVE  toPage'[d] = toPage[d] /\ toDaemon'[d] = toDaemon[d] /\ response'[d] = response[d]
  BY DEF KeptInv, TypeOK, Request, Receive, Answer, Notify, Connect, Disconnect, Disable, net

(* ... which changes what is under way for it as follows.                  *)
LEMMA WayStep ==
  ASSUME KeptInv, ReplyInv, NEW e \in Pages, [Next]_vars,
         \/ Request(e) \/ Receive(e) \/ Answer(e) \/ Notify(e)
         \/ Connect(e) \/ Disconnect(e) \/ Disable(e)
  PROVE  /\ WayInv(e)'
         /\ UnderWay(e)' \subseteq UnderWay(e) \cup {accepted}
         /\ accepted \in UnderWay(e)' => Request(e)
         /\ \/ response'[e] \in {response[e], NoReply, Notice}
            \/ Receive(e) /\ response'[e] \in UnderWay(e) /\ About(e, response'[e])
         /\ Notice \notin Requests /\ NoReply \notin Requests
<1>1. /\ toPage[e] \in Seq(Requests) /\ toDaemon[e] \in Seq(Reply)
      /\ Notice \notin Requests /\ NoReply \notin Requests /\ Notice \in Reply
      /\ Requests \subseteq Reply /\ Requests \subseteq Nat /\ accepted \in Nat
  BY NoneAssumption, BoundsAssumption DEF KeptInv, TypeOK, Requests, Reply
<1>2. /\ Once(toPage[e]) /\ Once(toDaemon[e]) /\ Ids(toPage[e]) \cap Ids(toDaemon[e]) = {}
      /\ \A r \in UnderWay(e) : About(e, r)
      /\ response[e] \in Requests => About(e, response[e]) /\ response[e] \notin UnderWay(e)
  BY DEF ReplyInv, WayInv
<1>3. \A r : About(e, r) => About(e, r)' /\ r \in Requests /\ r < accepted
  BY AboutStays DEF About
<1>4. accepted \notin UnderWay(e)
  BY <1>1, <1>2, <1>3
<1>5. CASE Request(e)
  <2>1. /\ toPage'[e] = Append(toPage[e], accepted) /\ toDaemon'[e] = toDaemon[e]
        /\ response'[e] = NoReply /\ accepted \in Requests
    BY <1>5, BoundsAssumption DEF Request, KeptInv, TypeOK, Requests
  <2>2. /\ Ids(toPage'[e]) = Ids(toPage[e]) \cup {accepted}
        /\ Once(toPage'[e])
    BY <1>1, <1>2, <1>4, <2>1, AppendIds DEF UnderWay
  <2>3. accepted \in Requests /\ accepted < accepted' /\ target'[accepted + 1] = e
    <3>1. /\ target' = Append(target, e) /\ accepted' = accepted + 1
          /\ target \in Seq(Pages) /\ Len(target) = accepted
      BY <1>5 DEF Request, KeptInv, TypeOK
    <3>2. target'[accepted + 1] = e
      BY <3>1
    <3>3. QED
      BY <1>1, <2>1, <3>1, <3>2
  <2>4. UnderWay(e)' = UnderWay(e) \cup {accepted}
    BY <2>1, <2>2 DEF UnderWay
  <2>5. WayInv(e)'
    <3>1. Ids(toPage'[e]) \cap Ids(toDaemon'[e]) = {}
      BY <1>2, <1>4, <2>1, <2>2 DEF UnderWay
    <3>2. \A r \in UnderWay(e)' : About(e, r)'
      BY <1>2, <1>3, <2>3, <2>4 DEF About
    <3>3. QED
      BY <1>1, <1>2, <2>1, <2>2, <3>1, <3>2 DEF WayInv
  <2>6. QED
    BY <1>1, <1>5, <2>1, <2>4, <2>5
<1>6. CASE Receive(e)
  <2> DEFINE h == Head(toDaemon[e])
  <2>1. /\ toDaemon[e] # <<>> /\ toDaemon'[e] = Tail(toDaemon[e]) /\ toPage'[e] = toPage[e]
        /\ response'[e] = h
    BY <1>6 DEF Receive, KeptInv, TypeOK
  <2>2. /\ Ids(toDaemon[e]) = Ids(toDaemon'[e]) \cup ({h} \ {Notice})
        /\ Once(toDaemon'[e]) /\ h \notin Ids(toDaemon'[e]) /\ h \in Reply
    BY <1>1, <1>2, <2>1, TailIds
  <2> HIDE DEF h
  <2>3. h # Notice => h \in UnderWay(e) /\ About(e, h) /\ h \notin UnderWay(e)'
    BY <1>2, <2>1, <2>2 DEF UnderWay
  <2>4. UnderWay(e)' \subseteq UnderWay(e)
    BY <2>1, <2>2 DEF UnderWay
  <2>5. WayInv(e)'
    BY <1>1, <1>2, <1>3, <2>1, <2>2, <2>3, <2>4 DEF WayInv
  <2>6. QED
    BY <1>1, <1>4, <1>6, <2>1, <2>3, <2>4, <2>5
<1>7. CASE Answer(e)
  <2> DEFINE h == Head(toPage[e])
  <2>1. /\ toPage[e] # <<>> /\ toPage'[e] = Tail(toPage[e])
        /\ toDaemon'[e] = Append(toDaemon[e], h) /\ response'[e] = response[e]
    BY <1>7 DEF Answer, KeptInv, TypeOK
  <2>2. /\ Ids(toPage[e]) = Ids(toPage'[e]) \cup ({h} \ {Notice})
        /\ Once(toPage'[e]) /\ h \notin Ids(toPage'[e]) /\ h \in Requests
    BY <1>1, <1>2, <2>1, TailIds
  <2> HIDE DEF h
  <2>3. h \in Ids(toPage[e]) /\ h \notin Ids(toDaemon[e])
    BY <1>1, <1>2, <2>2
  <2>4. Ids(toDaemon'[e]) = Ids(toDaemon[e]) \cup {h} /\ Once(toDaemon'[e])
    BY <1>1, <1>2, <2>1, <2>2, <2>3, AppendIds
  <2>5. UnderWay(e)' = UnderWay(e)
    BY <2>2, <2>3, <2>4 DEF UnderWay
  <2>6. WayInv(e)'
    BY <1>2, <1>3, <2>1, <2>2, <2>4, <2>5 DEF WayInv
  <2>7. QED
    BY <1>1, <1>4, <2>1, <2>5, <2>6
<1>8. CASE Notify(e)
  <2>1. /\ toDaemon'[e] = Append(toDaemon[e], Notice) /\ toPage'[e] = toPage[e]
        /\ response'[e] = response[e]
    BY <1>8 DEF Notify, KeptInv, TypeOK
  <2>2. Ids(toDaemon'[e]) = Ids(toDaemon[e]) /\ Once(toDaemon'[e])
    BY <1>1, <1>2, <2>1, AppendIds DEF Ids
  <2>3. UnderWay(e)' = UnderWay(e)
    BY <2>1, <2>2 DEF UnderWay
  <2>4. WayInv(e)'
    BY <1>2, <1>3, <2>1, <2>2, <2>3 DEF WayInv
  <2>5. QED
    BY <1>1, <1>4, <2>1, <2>3, <2>4
<1>9. CASE Connect(e)
  <2>1. /\ toPage'[e] = toPage[e]
        /\ toDaemon'[e] \in {toDaemon[e], <<Notice>>}
        /\ response'[e] \in {response[e], Notice}
    BY <1>9 DEF Connect, KeptInv, TypeOK
  <2>2. Ids(<<Notice>>) = {} /\ Once(<<Notice>>)
    BY DEF Ids, Once
  <2>3. UnderWay(e)' \subseteq UnderWay(e)
    BY <2>1, <2>2 DEF UnderWay
  <2>4. WayInv(e)'
    BY <1>1, <1>2, <1>3, <2>1, <2>2, <2>3 DEF WayInv
  <2>5. QED
    BY <1>1, <1>4, <2>1, <2>3, <2>4
<1>10. CASE Disconnect(e)
  <2>1. toPage'[e] = <<>> /\ toDaemon'[e] = <<>> /\ response'[e] = NoReply
    BY <1>10 DEF Disconnect, KeptInv, TypeOK
  <2>2. Ids(<<>>) = {} /\ Once(<<>>)
    BY DEF Ids, Once
  <2>3. UnderWay(e)' = {}
    BY <2>1, <2>2 DEF UnderWay
  <2>4. WayInv(e)'
    BY <1>1, <2>1, <2>2, <2>3 DEF WayInv
  <2>5. QED
    BY <1>1, <2>1, <2>3, <2>4
<1>11. CASE Disable(e)
  <2>1. toPage'[e] = toPage[e] /\ toDaemon'[e] = toDaemon[e] /\ response'[e] = NoReply
    BY <1>11 DEF Disable, KeptInv, TypeOK, net
  <2>2. UnderWay(e)' = UnderWay(e)
    BY <2>1 DEF UnderWay
  <2>3. WayInv(e)'
    BY <1>1, <1>2, <1>3, <2>1, <2>2 DEF WayInv
  <2>4. QED
    BY <1>1, <1>4, <2>1, <2>2, <2>3
<1>12. QED
  BY <1>5, <1>6, <1>7, <1>8, <1>9, <1>10, <1>11

(* APIPending_update meets each slot at a step of its own.                 *)
LEMMA StepsDistinct ==
  ASSUME TypeOK, NEW i \in Slots
  PROVE  /\ Steps(i) \in Nat
         /\ \A j \in Slots : Steps(i) = Steps(j) => i = j
<1>1. \A k \in Slots :
        Steps(k) = IF k >= updateAction THEN k - updateAction ELSE k - updateAction + N
  <2> SUFFICES ASSUME NEW k \in Slots
               PROVE  Steps(k) = IF k >= updateAction THEN k - updateAction
                                 ELSE k - updateAction + N
    OBVIOUS
  <2>1. /\ k \in Int /\ updateAction \in Int /\ N \in Nat /\ N > 0
        /\ 0 <= k /\ k < N /\ 0 <= updateAction /\ updateAction < N
    BY NAssumption DEF TypeOK, Slots
  <2>2. QED
    BY <2>1 DEF Steps
<1>2. \A k \in Slots : k \in Int /\ 0 <= k /\ k < N
  BY NAssumption DEF Slots
<1>3. updateAction \in Slots /\ N \in Nat
  BY NAssumption DEF TypeOK
<1>4. QED
  BY <1>1, <1>2, <1>3

(* A message of a plugin's page serves one slot at most.                   *)
LEMMA ServedOnce ==
  ASSUME TypeOK, NEW e, e # Display, NEW i \in Served(e), NEW j \in Served(e)
  PROVE  i = j
<1>1. /\ i \in Slots /\ j \in Slots /\ Steps(i) <= Steps(j) /\ Steps(j) <= Steps(i)
  BY DEF Served, Waiting, Outstanding
<1>2. Steps(i) \in Nat /\ Steps(j) \in Nat
  BY <1>1, StepsDistinct
<1>3. Steps(i) = Steps(j)
  BY <1>1, <1>2
<1>4. QED
  BY <1>1, <1>3, StepsDistinct

(* A request with an answer was accepted, for some page.                   *)
LEMMA Answered ==
  ASSUME KeptInv, NEW q \in Requests, answer[q] # NoReply
  PROVE  q < accepted /\ target[q + 1] \in Pages
<1>1. q \in Nat /\ accepted \in Nat
  BY BoundsAssumption DEF KeptInv, TypeOK, Requests
<1>2. q < accepted
  BY <1>1 DEF KeptInv, FateInv
<1>3. target \in Seq(Pages) /\ q + 1 \in 1 .. Len(target)
  BY <1>1, <1>2 DEF KeptInv, TypeOK
<1>4. QED
  BY <1>2, <1>3

(* What one turn of APIPending_update does, page by page.                  *)
LEMMA UpdateEffect ==
  ASSUME KeptInv, Update
  PROVE  /\ UNCHANGED <<toPage, toDaemon, accepted, target, dropped, crossed, connected>>
         /\ \A e \in Pages : response'[e] \in {response[e], NoReply}
         /\ \A e \in Plugins : \A i \in Served(e) : response'[e] = NoReply
         /\ \A q \in Requests :
              \/ answer'[q] = answer[q]
              \/ \E i \in Served(target[q + 1]) :
                   /\ pendingActions[i] = q /\ target[q + 1] \in Pages
                   /\ answer'[q] = response[target[q + 1]]
         /\ \A i \in Slots : \/ pendingActions'[i] = pendingActions[i] /\ i \notin ServedSlots
                             \/ pendingActions'[i] = NoAction /\ i \in ServedSlots
<1>1. \A q \in Requests :
        \/ answer'[q] = answer[q]
        \/ (\E i \in ServedSlots : pendingActions[i] = q)
           /\ answer'[q] = response[target[q + 1]]
  BY DEF Update
<1>2. \A i \in Slots : pendingActions'[i] =
        IF i \in ServedSlots THEN NoAction ELSE pendingActions[i]
  BY DEF Update, SlotAfter
<1>3. \A e \in Pages : response'[e] = ResponseAfter(e)
  BY DEF Update
<1>4. Plugins \subseteq Pages
  BY DEF Pages
<1>5. QED
  BY <1>1, <1>2, <1>3, <1>4, ServedEffect DEF Update, ResponseAfter, net

(* A message used once is not used again.                                  *)
LEMMA UpdateReplies ==
  ASSUME KeptInv, ReplyInv, Update
  PROVE  ReplyInv'
<1>1. /\ UNCHANGED <<toPage, toDaemon, accepted, target, dropped, crossed, connected>>
      /\ \A e \in Pages : response'[e] \in {response[e], NoReply}
      /\ \A e \in Plugins : \A i \in Served(e) : response'[e] = NoReply
      /\ \A q \in Requests :
           \/ answer'[q] = answer[q]
           \/ \E i \in Served(target[q + 1]) :
                /\ pendingActions[i] = q /\ target[q + 1] \in Pages
                /\ answer'[q] = response[target[q + 1]]
  BY UpdateEffect
<1>2. /\ \A e \in Pages : WayInv(e)
      /\ \A q \in Requests : UsedInv(q)
      /\ ReplyUsedOnce
      /\ NoReply \notin Requests /\ Plugins \subseteq Pages
  BY NoneAssumption DEF ReplyInv, Reply, Pages
<1>3. /\ \A e : UnderWay(e)' = UnderWay(e)
      /\ \A e, r : About(e, r)' <=> About(e, r)
  BY <1>1 DEF UnderWay, About
<1>4. ASSUME NEW e \in Pages PROVE WayInv(e)'
  BY <1>1, <1>2, <1>3 DEF WayInv
<1>5. ASSUME NEW q \in Requests PROVE UsedInv(q)'
  <2> SUFFICES ASSUME answer'[q] \in Requests
               PROVE  /\ About(target[q + 1], answer'[q])
                      /\ answer'[q] \notin UnderWay(target[q + 1])
                      /\ target[q + 1] \in Plugins => answer'[q] # response'[target[q + 1]]
    BY <1>1, <1>3 DEF UsedInv, About
  <2>1. CASE answer'[q] = answer[q]
    BY <1>1, <1>2, <2>1 DEF UsedInv
  <2>2. ASSUME NEW i \in Served(target[q + 1]), target[q + 1] \in Pages,
               answer'[q] = response[target[q + 1]]
        PROVE  /\ About(target[q + 1], answer'[q])
               /\ answer'[q] \notin UnderWay(target[q + 1])
               /\ target[q + 1] \in Plugins => answer'[q] # response'[target[q + 1]]
    BY <1>1, <1>2, <2>2 DEF WayInv
  <2>3. QED
    BY <1>1, <2>1, <2>2
<1>6. ASSUME NEW r \in Requests, NEW q \in Requests, r # q,
             answer'[r] = answer'[q], answer'[r] \in Requests, target[r + 1] # Display
      PROVE  FALSE
  <2> DEFINE e == target[r + 1]
  <2>1. About(target[r + 1], answer'[r]) /\ About(target[q + 1], answer'[q])
    BY <1>1, <1>5, <1>6 DEF UsedInv, About
  <2>2. target[q + 1] = e
    BY <1>6, <2>1 DEF About
  <2>3. answer'[r] # NoReply
    BY <1>2, <1>6
  <2>4. e \in Plugins
    <3>1. e \in Pages
      <4>1. CASE answer'[r] = answer[r]
        BY <2>3, <4>1, Answered
      <4>2. QED
        BY <1>1, <4>1
    <3>2. QED
      BY <1>6, <3>1 DEF Pages
  <2> HIDE DEF e
  <2>5. CASE answer'[r] = answer[r] /\ answer'[q] = answer[q]
    BY <1>2, <1>6, <2>5 DEF ReplyUsedOnce
  <2>6. CASE answer'[r] = answer[r] /\ answer'[q] = response[e]
    BY <1>2, <1>6, <2>4, <2>6 DEF UsedInv, e
  <2>7. CASE answer'[q] = answer[q] /\ answer'[r] = response[e]
    BY <1>2, <1>6, <2>2, <2>4, <2>7 DEF UsedInv
  <2>8. ASSUME NEW i \in Served(e), pendingActions[i] = r,
               NEW j \in Served(e), pendingActions[j] = q
        PROVE  FALSE
    BY <1>6, <2>8, ServedOnce DEF KeptInv, e
  <2>9. QED
    BY <1>1, <2>2, <2>5, <2>6, <2>7, <2>8 DEF e
<1>7. ReplyUsedOnce'
  BY <1>1, <1>6 DEF ReplyUsedOnce
<1>8. QED
  BY <1>4, <1>5, <1>7 DEF ReplyInv

(* The steps of a page send no reply twice.                                *)
LEMMA PageReplies ==
  ASSUME KeptInv, ReplyInv, NEW e \in Pages, [Next]_vars,
         \/ Request(e) \/ Receive(e) \/ Answer(e) \/ Notify(e)
         \/ Connect(e) \/ Disconnect(e) \/ Disable(e)
  PROVE  ReplyInv'
<1>1. /\ WayInv(e)'
      /\ UnderWay(e)' \subseteq UnderWay(e) \cup {accepted}
      /\ \/ response'[e] \in {response[e], NoReply, Notice}
         \/ response'[e] \in UnderWay(e)
      /\ Notice \notin Requests /\ NoReply \notin Requests
  BY WayStep
<1>2. /\ \A d \in Pages : WayInv(d)
      /\ \A q \in Requests : UsedInv(q)
      /\ ReplyUsedOnce
  BY DEF ReplyInv
<1>3. answer' = answer
  BY ConnectionsFrame DEF Request
<1>4. \A d \in Pages : d # e =>
        toPage'[d] = toPage[d] /\ toDaemon'[d] = toDaemon[d] /\ response'[d] = response[d]
  BY OtherPages
<1>5. \A d, r : About(d, r) => About(d, r)'
  BY AboutStays
<1>6. ASSUME NEW d \in Pages PROVE WayInv(d)'
  BY <1>1, <1>2, <1>4, <1>5, <1>6 DEF WayInv, UnderWay
<1>7. ASSUME NEW q \in Requests, answer[q] \in Requests
      PROVE  /\ target'[q + 1] = target[q + 1]
             /\ About(target[q + 1], answer[q])'
             /\ answer[q] \notin UnderWay(target[q + 1])
             /\ answer[q] # accepted
             /\ target[q + 1] \in Plugins => answer[q] # response[target[q + 1]]
             /\ target[q + 1] \in Pages
  <2>1. q < accepted /\ target[q + 1] \in Pages
    BY <1>1, <1>7, Answered
  <2>2. About(target[q + 1], q)
    BY <2>1 DEF About
  <2>3. target'[q + 1] = target[q + 1]
    BY <2>2, AboutStays
  <2>4. /\ About(target[q + 1], answer[q])
        /\ answer[q] \notin UnderWay(target[q + 1])
        /\ target[q + 1] \in Plugins => answer[q] # response[target[q + 1]]
    BY <1>2, <1>7 DEF UsedInv
  <2>5. answer[q] # accepted
    BY <2>4, BoundsAssumption DEF About, Requests
  <2>6. About(target[q + 1], answer[q])'
    BY <1>3, <1>5, <2>3, <2>4 DEF About
  <2>7. QED
    BY <2>1, <2>3, <2>4, <2>5, <2>6
<1>8. ASSUME NEW q \in Requests PROVE UsedInv(q)'
  <2> SUFFICES ASSUME answer[q] \in Requests
               PROVE  /\ answer[q] \notin UnderWay(target[q + 1])'
                      /\ target[q + 1] \in Plugins => answer[q] # response'[target[q + 1]]
    BY <1>3, <1>7 DEF UsedInv
  <2> DEFINE d == target[q + 1]
  <2>1. /\ answer[q] \notin UnderWay(d) /\ answer[q] # accepted /\ d \in Pages
        /\ d \in Plugins => answer[q] # response[d]
        /\ target'[q + 1] = d
    BY <1>7
  <2> HIDE DEF d
  <2>2. CASE d = e
    <3>1. UnderWay(target[q + 1])' = UnderWay(e)'
      BY <2>1, <2>2 DEF d, UnderWay
    <3>2. QED
      BY <1>1, <2>1, <2>2, <3>1 DEF d
  <2>3. CASE d # e
    <3>1. UnderWay(target[q + 1])' = UnderWay(d)
      BY <1>4, <2>1, <2>3 DEF d, UnderWay
    <3>2. QED
      BY <1>4, <2>1, <2>3, <3>1 DEF d
  <2>4. QED
    BY <2>2, <2>3
<1>9. ReplyUsedOnce'
  <2> SUFFICES ASSUME NEW r \in Requests, NEW q \in Requests,
                      r # q, answer[r] = answer[q], answer[r] \in Requests
               PROVE  target'[r + 1] = Display /\ target'[q + 1] = Display
    BY <1>3 DEF ReplyUsedOnce
  <2>1. QED
    BY <1>2, <1>7 DEF ReplyUsedOnce
<1>10. QED
  BY <1>6, <1>8, <1>9 DEF ReplyInv

(* A slot that waits for e holds an accepted request about e.              *)
LEMMA OutstandingAbout ==
  ASSUME KeptInv, NEW e, NEW i \in Outstanding(e)
  PROVE  /\ i \in Slots /\ Waits(i) /\ About(e, pendingActions[i])
         /\ answer[pendingActions[i]] = NoReply
  BY DEF Outstanding, KeptInv, SlotInv, About

(* What matters to a page e when its slots stay.                           *)
LEMMA SameOutstanding ==
  ASSUME KeptInv, NEW e, [Next]_vars, pendingActions' = pendingActions
  PROVE  Outstanding(e)' = Outstanding(e)
<1>1. ASSUME NEW i \in Slots, Waits(i)
      PROVE  target'[pendingActions[i] + 1] = target[pendingActions[i] + 1]
  BY <1>1, AboutStays DEF KeptInv, SlotInv, About
<1>2. QED
  BY <1>1 DEF Outstanding, Waits

(* One turn of APIPending_update gives a request that is alone its reply.  *)
LEMMA UpdateOwn ==
  ASSUME KeptInv, ReplyInv, Update, NEW e \in Pages, OwnInv(e)
  PROVE  OwnInv(e)'
<1> SUFFICES ASSUME dropped' = {}, e \notin crossed'
             PROVE  /\ \A i, j \in Outstanding(e)' : i = j
                    /\ \A r \in UnderWay(e)' : \E i \in Outstanding(e)' : pendingActions'[i] = r
                    /\ \A i \in Outstanding(e)' : response'[e] \in {NoReply, pendingActions'[i]}
                    /\ \A r \in Requests : About(e, r)' => answer'[r] \in {NoReply, r}
  BY DEF OwnInv
<1>1. /\ UNCHANGED <<toPage, toDaemon, accepted, target, dropped, crossed, connected>>
      /\ response'[e] \in {response[e], NoReply}
      /\ \A q \in Requests :
           \/ answer'[q] = answer[q]
           \/ \E i \in Served(target[q + 1]) :
                /\ pendingActions[i] = q /\ target[q + 1] \in Pages
                /\ answer'[q] = response[target[q + 1]]
      /\ \A i \in Slots : \/ pendingActions'[i] = pendingActions[i] /\ i \notin ServedSlots
                          \/ pendingActions'[i] = NoAction /\ i \in ServedSlots
  BY UpdateEffect
<1>2. /\ \A i, j \in Outstanding(e) : i = j
      /\ \A r \in UnderWay(e) : \E i \in Outstanding(e) : pendingActions[i] = r
      /\ \A i \in Outstanding(e) : response[e] \in {NoReply, pendingActions[i]}
      /\ \A r \in Requests : About(e, r) => answer[r] \in {NoReply, r}
  BY <1>1 DEF OwnInv
<1>3. /\ UnderWay(e)' = UnderWay(e)
      /\ \A r : About(e, r)' <=> About(e, r)
  BY <1>1 DEF UnderWay, About
<1>4. /\ Outstanding(e)' \subseteq Outstanding(e)
      /\ \A i \in Outstanding(e)' : pendingActions'[i] = pendingActions[i]
      /\ \A i \in Outstanding(e) : i \notin ServedSlots => i \in Outstanding(e)'
  BY <1>1 DEF Outstanding, Waits
<1>5. ASSUME NEW i \in Outstanding(e), i \in ServedSlots
      PROVE  response[e] = pendingActions[i] /\ pendingActions[i] \notin UnderWay(e)
  <2>1. /\ target[pendingActions[i] + 1] = e /\ pendingActions[i] \in Requests
        /\ response[e] \in Reply
    BY <1>5, ServedEffect DEF Outstanding
  <2>2. response[e] = pendingActions[i]
    BY <1>2, <2>1, NoneAssumption
  <2>3. QED
    BY <2>1, <2>2 DEF ReplyInv, WayInv
<1>6. \A r \in UnderWay(e)' : \E i \in Outstanding(e)' : pendingActions'[i] = r
  BY <1>2, <1>3, <1>4, <1>5
<1>7. \A i \in Outstanding(e)' : response'[e] \in {NoReply, pendingActions'[i]}
  BY <1>1, <1>2, <1>4
<1>8. ASSUME NEW r \in Requests, About(e, r) PROVE answer'[r] \in {NoReply, r}
  <2>1. CASE answer'[r] = answer[r]
    BY <1>2, <1>8, <2>1
  <2>2. ASSUME NEW i \in Served(target[r + 1]), pendingActions[i] = r,
               answer'[r] = response[target[r + 1]]
        PROVE  answer'[r] \in {NoReply, r}
    <3>1. i \in Outstanding(e) /\ target[r + 1] = e
      BY <1>8, <2>2 DEF Served, Waiting, About
    <3>2. QED
      BY <1>2, <2>2, <3>1
  <2>3. QED
    BY <1>1, <2>1, <2>2
<1>9. QED
  BY <1>2, <1>3, <1>4, <1>6, <1>7, <1>8

(* A request to another page takes no slot of e, or e is confused.         *)
LEMMA RequestOwn ==
  ASSUME KeptInv, ReplyInv, NEW d \in Pages, Request(d), [Next]_vars,
         NEW e \in Pages, OwnInv(e)
  PROVE  OwnInv(e)'
<1> DEFINE slot == GetFreeSlot(lastAction)
<1> SUFFICES ASSUME dropped' = {}, e \notin crossed'
             PROVE  /\ \A i, j \in Outstanding(e)' : i = j
                    /\ \A r \in UnderWay(e)' : \E i \in Outstanding(e)' : pendingActions'[i] = r
                    /\ \A i \in Outstanding(e)' : response'[e] \in {NoReply, pendingActions'[i]}
                    /\ \A r \in Requests : About(e, r)' => answer'[r] \in {NoReply, r}
  BY DEF OwnInv
<1>1. /\ slot \in Slots /\ NoAction \notin Requests /\ accepted \in Requests /\ accepted \in Nat
      /\ pendingActions' = [pendingActions EXCEPT ![slot] = accepted]
      /\ dropped' = dropped \cup ({pendingActions[slot]} \ {NoAction})
      /\ pendingActions \in [Slots -> Requests \cup {NoAction}]
      /\ crossed' = CrossedAfter(d, TRUE)
      /\ target' = Append(target, d) /\ accepted' = accepted + 1
      /\ target \in Seq(Pages) /\ Len(target) = accepted
      /\ answer' = answer
  BY NextSlot, NoneAssumption, BoundsAssumption
     DEF Request, AddAction, KeptInv, TypeOK, Requests
<1>2. dropped = {} /\ pendingActions[slot] = NoAction /\ e \notin crossed
  BY <1>1 DEF CrossedAfter
<1> HIDE DEF slot
<1>3. /\ \A i, j \in Outstanding(e) : i = j
      /\ \A r \in UnderWay(e) : \E i \in Outstanding(e) : pendingActions[i] = r
      /\ \A i \in Outstanding(e) : response[e] \in {NoReply, pendingActions[i]}
      /\ \A r \in Requests : About(e, r) => answer[r] \in {NoReply, r}
  BY <1>2 DEF OwnInv
<1>4. target'[accepted + 1] = d
  BY <1>1
<1>5. \A i \in Slots : i # slot => pendingActions'[i] = pendingActions[i]
  BY <1>1
<1>6. pendingActions'[slot] = accepted
  BY <1>1
<1>7. ASSUME NEW i \in Slots, i # slot, Waits(i)
      PROVE  target'[pendingActions'[i] + 1] = target[pendingActions[i] + 1]
  BY <1>5, <1>7, AboutStays DEF KeptInv, SlotInv, About
<1>8. Outstanding(e)' = Outstanding(e) \cup (IF d = e THEN {slot} ELSE {})
  <2>1. ASSUME NEW i \in Slots
        PROVE  i \in Outstanding(e)' <=> i \in Outstanding(e) \/ (i = slot /\ d = e)
    <3>1. CASE i = slot
      BY <1>1, <1>2, <1>4, <1>6, <3>1 DEF Outstanding, Waits
    <3>2. CASE i # slot
      BY <1>5, <1>7, <3>2 DEF Outstanding, Waits
    <3>3. QED
      BY <3>1, <3>2
  <2>2. QED
    BY <1>1, <2>1 DEF Outstanding
<1>9. \A r \in Requests : About(e, r)' => answer'[r] \in {NoReply, r}
  <2> SUFFICES ASSUME NEW r \in Requests, About(e, r)' PROVE answer[r] \in {NoReply, r}
    BY <1>1
  <2>1. r \in Nat /\ r < accepted + 1
    BY <1>1, BoundsAssumption DEF About, Requests
  <2>2. CASE r = accepted
    BY <1>1, <2>2 DEF KeptInv, FateInv
  <2>3. CASE r < accepted
    <3>1. target'[r + 1] = target[r + 1]
      BY <1>1, <2>1, <2>3
    <3>2. QED
      BY <1>3, <2>3, <3>1 DEF About
  <2>4. QED
    BY <1>1, <2>1, <2>2, <2>3
<1>10. CASE d = e
  <2>1. Outstanding(e) = {}
    BY <1>1, <1>10 DEF CrossedAfter
  <2>2. UnderWay(e)' \subseteq {accepted}
    <3>1. UnderWay(e) = {}
      BY <1>3, <2>1
    <3>2. QED
      BY <1>10, <3>1, WayStep
  <2>3. response'[e] = NoReply
    BY <1>10 DEF Request, KeptInv, TypeOK
  <2>4. QED
    BY <1>6, <1>8, <1>9, <1>10, <2>1, <2>2, <2>3
<1>11. CASE d # e
  <2>1. UnderWay(e)' = UnderWay(e) /\ response'[e] = response[e]
    BY <1>11, OtherPages DEF UnderWay
  <2>2. Outstanding(e)' = Outstanding(e)
    BY <1>8, <1>11
  <2>3. \A i \in Outstanding(e) : pendingActions'[i] = pendingActions[i]
    BY <1>2, <1>5 DEF Outstanding, Waits
  <2>4. QED
    BY <1>3, <1>9, <2>1, <2>2, <2>3
<1>12. QED
  BY <1>10, <1>11

(* Messages and connections: only a notice can come between.               *)
LEMMA PageOwn ==
  ASSUME KeptInv, ReplyInv, NEW d \in Pages, [Next]_vars,
         Receive(d) \/ Answer(d) \/ Notify(d) \/ Connect(d) \/ Disconnect(d) \/ Disable(d),
         NEW e \in Pages, OwnInv(e)
  PROVE  OwnInv(e)'
<1> SUFFICES ASSUME dropped' = {}, e \notin crossed'
             PROVE  /\ \A i, j \in Outstanding(e)' : i = j
                    /\ \A r \in UnderWay(e)' : \E i \in Outstanding(e)' : pendingActions'[i] = r
                    /\ \A i \in Outstanding(e)' : response'[e] \in {NoReply, pendingActions'[i]}
                    /\ \A r \in Requests : About(e, r)' => answer'[r] \in {NoReply, r}
  BY DEF OwnInv
<1>1. UNCHANGED <<pendingActions, accepted, target, answer, dropped>>
  BY ConnectionsFrame
<1>2. e \notin crossed
  BY DEF Receive, Answer, Notify, Connect, Disconnect, Disable, CrossedAfter, requests
<1>3. /\ \A i, j \in Outstanding(e) : i = j
      /\ \A r \in UnderWay(e) : \E i \in Outstanding(e) : pendingActions[i] = r
      /\ \A i \in Outstanding(e) : response[e] \in {NoReply, pendingActions[i]}
      /\ \A r \in Requests : About(e, r) => answer[r] \in {NoReply, r}
  BY <1>1, <1>2 DEF OwnInv
<1>4. Outstanding(e)' = Outstanding(e) /\ \A r : About(e, r)' <=> About(e, r)
  BY <1>1 DEF Outstanding, Waits, About
<1>5. CASE d # e
  <2>1. UnderWay(e)' = UnderWay(e) /\ response'[e] = response[e]
    BY <1>5, OtherPages DEF UnderWay
  <2>2. QED
    BY <1>1, <1>3, <1>4, <2>1
<1>6. CASE d = e
  <2>1. /\ UnderWay(e)' \subseteq UnderWay(e)
        /\ \/ response'[e] \in {response[e], NoReply, Notice}
           \/ response'[e] \in UnderWay(e)
        /\ Notice \notin Requests
    <3>1. /\ UnderWay(e)' \subseteq UnderWay(e) \cup {accepted}
          /\ accepted \in UnderWay(e)' => Request(e)
          /\ \/ response'[e] \in {response[e], NoReply, Notice}
             \/ response'[e] \in UnderWay(e)
          /\ Notice \notin Requests
      BY <1>6, WayStep
    <3>2. ~Request(e)
      <4>1. accepted \in Nat /\ accepted' = accepted
        BY <1>1, BoundsAssumption DEF KeptInv, TypeOK
      <4>2. Request(e) => accepted' = accepted + 1
        BY DEF Request
      <4>3. QED
        BY <4>1, <4>2
    <3>3. accepted \notin UnderWay(e)'
      BY <3>1, <3>2
    <3>4. QED
      BY <3>1, <3>3
  <2>2. response'[e] = Notice => response[e] = Notice \/ Outstanding(e) = {}
    <3>1. CASE Receive(e)
      BY <3>1 DEF Receive, CrossedAfter, KeptInv, TypeOK
    <3>2. CASE Connect(e)
      BY <3>2 DEF Connect, CrossedAfter, KeptInv, TypeOK
    <3>3. CASE Answer(e) \/ Notify(e)
      BY <3>3 DEF Answer, Notify
    <3>4. CASE Disconnect(e) \/ Disable(e)
      BY <3>4, NoneAssumption DEF Disconnect, Disable, KeptInv, TypeOK, Reply
    <3>5. QED
      BY <1>6, <3>1, <3>2, <3>3, <3>4
  <2>3. \A i \in Outstanding(e) : response'[e] \in {NoReply, pendingActions[i]}
    BY <1>3, <2>1, <2>2
  <2>4. QED
    BY <1>1, <1>3, <1>4, <2>1, <2>3
<1>7. QED
  BY <1>5, <1>6

(* What decides whose reply a request gets, together.                      *)
MatchedInv == KeptInv /\ ReplyInv /\ \A e \in Pages : OwnInv(e)

(* No page connected: nothing under way, nothing open.                     *)
LEMMA MatchedInvInit == Init => MatchedInv
<1> SUFFICES ASSUME Init PROVE MatchedInv
  OBVIOUS
<1>1. KeptInv
  BY KeptInvInit
<1>2. \A e \in Pages : toPage[e] = <<>> /\ toDaemon[e] = <<>> /\ response[e] = NoReply
  BY DEF Init
<1>3. NoReply \notin Requests
  BY NoneAssumption DEF Reply
<1>4. \A r \in Requests : answer[r] = NoReply
  BY DEF Init
<1>5. \A e \in Pages : UnderWay(e) = {} /\ Outstanding(e) = {}
  BY <1>2 DEF UnderWay, Ids, Init, Outstanding, Waits
<1>6. \A e \in Pages : WayInv(e)
  BY <1>2, <1>3, <1>5 DEF WayInv, Once, Ids
<1>7. ReplyInv
  BY <1>3, <1>4, <1>6 DEF ReplyInv, UsedInv, ReplyUsedOnce
<1>8. \A e \in Pages : OwnInv(e)
  BY <1>4, <1>5 DEF OwnInv
<1>9. QED
  BY <1>1, <1>7, <1>8 DEF MatchedInv

(* Every step keeps it.                                                    *)
LEMMA MatchedInvStep == MatchedInv /\ [Next]_vars => MatchedInv'
<1> SUFFICES ASSUME MatchedInv, [Next]_vars PROVE MatchedInv'
  OBVIOUS
<1>1. KeptInv /\ ReplyInv /\ \A e \in Pages : OwnInv(e)
  BY DEF MatchedInv
<1>2. KeptInv'
  BY <1>1, KeptInvStep
<1>3. CASE Update
  BY <1>1, <1>2, <1>3, UpdateReplies, UpdateOwn DEF MatchedInv
<1>4. ASSUME NEW d \in Pages, Request(d) PROVE MatchedInv'
  BY <1>1, <1>2, <1>4, PageReplies, RequestOwn DEF MatchedInv
<1>5. ASSUME NEW d \in Pages,
             Receive(d) \/ Answer(d) \/ Notify(d) \/ Connect(d) \/ Disconnect(d) \/ Disable(d)
      PROVE  MatchedInv'
  BY <1>1, <1>2, <1>5, PageReplies, PageOwn DEF MatchedInv
<1>6. CASE UNCHANGED vars
  <2>1. UNCHANGED <<pendingActions, toPage, toDaemon, response, accepted, target, answer,
                    dropped, crossed>>
    BY <1>6 DEF vars, ring, net, requests
  <2>2. ReplyInv'
    BY <1>1, <2>1 DEF ReplyInv, WayInv, UsedInv, ReplyUsedOnce, UnderWay, About
  <2>3. \A e \in Pages : OwnInv(e)'
    BY <1>1, <2>1 DEF OwnInv, Outstanding, Waits, UnderWay, About
  <2>4. QED
    BY <1>2, <2>2, <2>3 DEF MatchedInv
<1>7. QED
  BY <1>3, <1>4, <1>5, <1>6 DEF Next

(* No reply answers two requests of a plugin's page; and a client gets the *)
(* reply to its own request, unless a slot was reused or its page had      *)
(* another request or a notice on its way.                                 *)
THEOREM RepliesMatchedAlways == Spec => []RepliesMatched
<1>1. MatchedInv => RepliesMatched
  <2> SUFFICES ASSUME MatchedInv PROVE ReplyUsedOnce /\ AnswerIsOwn
    BY DEF RepliesMatched
  <2>1. ReplyUsedOnce
    BY DEF MatchedInv, ReplyInv
  <2>2. ASSUME dropped = {}, NEW r \in 0 .. accepted - 1, target[r + 1] \notin crossed
        PROVE  answer[r] \in {NoReply, r}
    <3>1. /\ r \in Requests /\ r < accepted /\ r + 1 \in 1 .. Len(target)
          /\ target \in Seq(Pages)
      BY BoundsAssumption DEF MatchedInv, KeptInv, TypeOK, Requests
    <3>2. target[r + 1] \in Pages /\ About(target[r + 1], r)
      BY <3>1 DEF About
    <3>3. QED
      BY <2>2, <3>1, <3>2 DEF MatchedInv, OwnInv
  <2>3. QED
    BY <2>1, <2>2 DEF AnswerIsOwn
<1>2. QED
  BY <1>1, MatchedInvInit, MatchedInvStep, PTL DEF Spec
=============================================================================
