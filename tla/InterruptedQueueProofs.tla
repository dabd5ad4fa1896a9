----------------------- MODULE InterruptedQueueProofs -----------------------
(* Theorems about InterruptedQueue, for every ring size, any number of     *)
(* messages, runs of the handler and connections.                          *)
EXTENDS InterruptedQueue, FiniteSetTheorems, SequenceTheorems, TLAPS

(* What the next instruction of the main thread relies on: its slot is one *)
(* of the ring, and what it found there is there, or in its register.      *)
PcInv ==
  /\ lastBuffered = N => pc \in {"wrap", "wrapped"}
  /\ pc \in {"occupied", "old", "freeOld", "message", "length", "counted"} \cup ClearSteps
       => at \in Slots
  /\ pc \in {"old", "clearLoad"} => writes[at].msg # NULL
  /\ pc \in {"take", "write", "again", "free"} => writes[lastWritten].msg # NULL
  /\ pc \in {"freeOld", "clearFree", "write", "free"} => reg # NULL
  /\ pc # "idle" => socketInstance
  /\ socketInstance => conn > 0

(* Messages are numbered as they are made; nothing else is in the ring, in *)
(* the register, or freed.                                                 *)
NumberInv ==
  /\ Len(to) <= adds + 2 * runs
  /\ reg <= Len(to) /\ \A i \in Slots : writes[i].msg <= Len(to)
  /\ \A m \in freed : m <= Len(to)
  /\ pc \in AddSteps => mine \in Messages /\ mine <= Len(to)

(* The slot whose message the main thread has freed and not yet replaced.  *)
Dangling ==
  CASE pc \in {"message", "clearNull"} -> {at}
    [] pc = "null" -> {lastWritten}
    [] OTHER -> {}

(* The slots w hold each message once, and those outside of D none of the  *)
(* freed messages f.                                                       *)
Clean(w, f, D) ==
  \A i \in Slots : w[i].msg # NULL =>
    /\ \A j \in Slots : w[j].msg = w[i].msg => i = j
    /\ w[i].msg \in f => i \in D

(* Unless the handler came in between: the ring is clean, and what the     *)
(* main thread frees is what is there.                                     *)
HeapInv ==
  torn = {} /\ crash = "no" =>
    /\ Clean(writes, freed, Dangling)
    /\ pc \in {"freeOld", "clearFree"} => reg = writes[at].msg
    /\ pc \in {"write", "free"} => reg = writes[lastWritten].msg
    /\ pc \in {"slot", "occupied", "old", "freeOld", "message"} =>
         mine \notin freed /\ \A i \in Slots : writes[i].msg # mine

(* Everything the soundness of the ring rests on.                          *)
RingIInv == TypeOK /\ PcInv /\ NumberInv /\ HeapInv /\ SafeUnlessTorn

-----------------------------------------------------------------------------
(* The ring and the numbers. *)

(* The remainder keeps a cursor on the ring. *)
LEMMA WrappedIs ==
  ASSUME NEW i \in 0 .. N
  PROVE  Wrapped(i) \in Slots /\ Wrapped(i) = IF i = N THEN 0 ELSE i
<1>1. N \in Nat /\ N > 0 /\ i \in Int /\ 0 <= i /\ i <= N
  BY NAssumption
<1>2. CASE i = N
  BY <1>1, <1>2 DEF Wrapped, Slots
<1>3. CASE i # N
  BY <1>1, <1>3 DEF Wrapped, Slots
<1>4. QED
  BY <1>2, <1>3

(* The numbers of the messages. *)
LEMMA MessageNumbers ==
  /\ MaxAdds \in Nat /\ MaxRuns \in Nat /\ MaxConns \in Nat
  /\ Messages = 1 .. MaxAdds + 2 * MaxRuns
  /\ Cardinality(Messages) = MaxAdds + 2 * MaxRuns
  /\ NULL \notin Messages /\ \A m \in Messages : m \in Nat
<1>1. MaxAdds \in Nat /\ MaxRuns \in Nat /\ MaxConns \in Nat
  BY BoundsAssumption
<1>2. Cardinality(1 .. MaxAdds + 2 * MaxRuns) = MaxAdds + 2 * MaxRuns
  <2>1. 1 \in Int /\ MaxAdds + 2 * MaxRuns \in Int /\ MaxAdds + 2 * MaxRuns >= 0
    BY <1>1
  <2>2. QED
    BY <2>1, FS_Interval
<1>3. QED
  BY <1>1, <1>2 DEF Messages, NULL

(* A message of the handler, and what is freed for it. *)
Filled(w, l, m) == [w EXCEPT ![l] = [msg |-> m, len |-> m]]
FreedFor(w, l, f) == IF w[l].msg = NULL THEN f ELSE f \cup {w[l].msg}
CrashFor(w, l, f) == IF w[l].msg \in f THEN "double free" ELSE "no"

(* Added on a slot of the ring. *)
LEMMA AddedIs ==
  ASSUME NEW w, NEW l \in Slots, NEW f, NEW m
  PROVE  Added([writes |-> w, last |-> l, freed |-> f, crash |-> "no"], m)
           = [writes |-> Filled(w, l, m), last |-> Wrapped(l + 1), freed |-> FreedFor(w, l, f),
              crash |-> CrashFor(w, l, f)]
<1>1. l # N
  BY NAssumption DEF Slots
<1>2. QED
  BY <1>1 DEF Added, Filled, FreedFor, CrashFor

(* A message in a slot that does not dangle keeps the ring clean. *)
LEMMA FilledClean ==
  ASSUME NEW w \in [Slots -> Slot], NEW l \in Slots, NEW f \in SUBSET Messages, NEW D,
         NEW m \in Messages, Clean(w, f, D), l \notin D, m \notin f,
         \A i \in Slots : w[i].msg # m
  PROVE  /\ Clean(Filled(w, l, m), FreedFor(w, l, f), D)
         /\ CrashFor(w, l, f) = "no"
<1>1. NULL \notin f /\ m # NULL
  BY MessageNumbers
<1>2. w[l].msg \notin f
  BY <1>1 DEF Clean
<1>3. /\ Filled(w, l, m)[l].msg = m
      /\ \A i \in Slots : i # l => Filled(w, l, m)[i] = w[i]
  BY DEF Filled
<1>4. m \notin FreedFor(w, l, f)
  BY DEF FreedFor
<1>5. ASSUME NEW i \in Slots, i # l, w[i].msg # NULL
      PROVE  /\ \A j \in Slots : Filled(w, l, m)[j].msg = w[i].msg => i = j
             /\ w[i].msg \in FreedFor(w, l, f) => i \in D
  BY <1>3, <1>5 DEF Clean, FreedFor
<1>6. Clean(Filled(w, l, m), FreedFor(w, l, f), D)
  BY <1>3, <1>4, <1>5 DEF Clean
<1>7. QED
  BY <1>2, <1>6 DEF CrashFor

(* The messages that a run of the script makes, and whether it strikes the *)
(* main thread where that matters.                                         *)
Made == Len(to) + 1 .. Len(to) + (IF ClearFirst THEN 2 ELSE 1)
Strikes ==
  \/ pc \in AddSteps \cup ClearSteps
  \/ pc \in AtHand /\ writes'[lastWritten] # writes[lastWritten]

(* What the handler does outside of the ring. *)
LEMMA TimerEffect ==
  ASSUME TypeOK, Timer
  PROVE  /\ UNCHANGED <<lastWritten, pc, at, reg, len, mine, socketInstance, conn, sent, adds>>
         /\ crash = "no" /\ socketInstance /\ runs < MaxRuns /\ runs' = runs + 1
         /\ Len(to') = Len(to) + (IF ClearFirst THEN 2 ELSE 1)
         /\ \A i \in 1 .. Len(to') : to'[i] = IF i <= Len(to) THEN to[i] ELSE conn
         /\ conn > 0 => to' \in Seq(1 .. MaxConns)
         /\ torn' = torn \cup (IF Strikes THEN Made ELSE {})
                         \cup (IF pc \in AddSteps THEN {mine} ELSE {})
<1> DEFINE first == Len(to) + 1
           made == first .. first + IF ClearFirst THEN 1 ELSE 0
           n == IF ClearFirst THEN 2 ELSE 1
           more == [i \in 1 .. n |-> conn]
<1>1. to \in Seq(1 .. MaxConns) /\ Len(to) \in Nat /\ conn \in 0 .. MaxConns
  <2>1. to \in Seq(1 .. MaxConns) /\ conn \in 0 .. MaxConns
    BY DEF TypeOK
  <2>2. QED
    BY <2>1, LenProperties
<1>2. made = Made
  BY <1>1 DEF Made
<1>3. Cardinality(made) = n
  <2>1. first \in Int /\ first + (IF ClearFirst THEN 1 ELSE 0) \in Int
    BY <1>1
  <2>2. Cardinality(made) = IF first > first + (IF ClearFirst THEN 1 ELSE 0) THEN 0
                            ELSE first + (IF ClearFirst THEN 1 ELSE 0) - first + 1
    BY <2>1, FS_Interval
  <2>3. QED
    BY <1>1, <2>2
<1>4. to' = to \o more
  BY <1>3 DEF Timer
<1>5. more \in Seq({conn}) /\ Len(more) = n /\ \A i \in 1 .. n : more[i] = conn
  OBVIOUS
<1>6. /\ to \in Seq(1 .. MaxConns \cup {conn}) /\ more \in Seq(1 .. MaxConns \cup {conn})
      /\ conn > 0 => conn \in 1 .. MaxConns
  <2> DEFINE C == 1 .. MaxConns \cup {conn}
  <2>1. 1 .. MaxConns \subseteq C /\ {conn} \subseteq C
    OBVIOUS
  <2>2. to \in Seq(C) /\ more \in Seq(C)
    BY <1>1, <1>5, <2>1, SeqMonotonic
  <2>3. QED
    BY <1>1, <2>2, MessageNumbers
<1> HIDE DEF more
<1>7. /\ Len(to') = Len(to) + n
      /\ \A i \in 1 .. Len(to) + n : to'[i] = IF i <= Len(to) THEN to[i] ELSE more[i - Len(to)]
      /\ to' \in Seq(1 .. MaxConns \cup {conn})
  <2> DEFINE C == 1 .. MaxConns \cup {conn}
  <2>1. to \in Seq(C) /\ more \in Seq(C)
    BY <1>6
  <2> HIDE DEF C
  <2>2. /\ to \o more \in Seq(C) /\ Len(to \o more) = Len(to) + Len(more)
        /\ \A i \in 1 .. Len(to) + Len(more) :
             (to \o more)[i] = IF i <= Len(to) THEN to[i] ELSE more[i - Len(to)]
    BY <2>1, ConcatProperties
  <2>3. QED
    BY <1>4, <1>5, <2>2 DEF C
<1>8. /\ Len(to') = Len(to) + n
      /\ \A i \in 1 .. Len(to') : to'[i] = IF i <= Len(to) THEN to[i] ELSE conn
  BY <1>1, <1>5, <1>7
<1>9. conn > 0 => to' \in Seq(1 .. MaxConns)
  <2>1. conn > 0 => 1 .. MaxConns \cup {conn} = 1 .. MaxConns
    BY <1>6
  <2>2. QED
    BY <1>7, <2>1
<1>10. torn' = torn \cup (IF Strikes THEN Made ELSE {})
                    \cup (IF pc \in AddSteps THEN {mine} ELSE {})
  <2> DEFINE met == pc \in AtHand /\ writes'[lastWritten] # writes[lastWritten]
  <2>1. torn' = torn \cup (IF pc \in AddSteps THEN made \cup {mine} ELSE {})
                     \cup (IF pc \in ClearSteps \/ met THEN made ELSE {})
    BY DEF Timer
  <2> HIDE DEF made
  <2>2. QED
    BY <1>2, <2>1 DEF Strikes
<1>11. QED
  BY <1>8, <1>9, <1>10 DEF Timer, main, page

(* What it does to the ring: harm, or it adds one message, or two.         *)
LEMMA TimerOnRing ==
  ASSUME TypeOK, Timer
  PROVE  LET m == Len(to) + 1
             w == Filled(writes, lastBuffered, m)
             f == FreedFor(writes, lastBuffered, freed)
             l == Wrapped(lastBuffered + 1)
         IN \/ /\ lastBuffered = N /\ crash' = "out of bounds"
               /\ UNCHANGED <<writes, lastBuffered, freed>>
            \/ /\ lastBuffered \in Slots /\ l \in Slots
               /\ \/ /\ writes' = w /\ freed' = f /\ lastBuffered' = l
                     /\ crash' = CrashFor(writes, lastBuffered, freed)
                     /\ ClearFirst => crash' # "no"
                  \/ /\ ClearFirst
                     /\ CrashFor(writes, lastBuffered, freed) = "no"
                     /\ writes' = Filled(w, l, m + 1) /\ freed' = FreedFor(w, l, f)
                     /\ lastBuffered' = Wrapped(l + 1) /\ lastBuffered' \in Slots
                     /\ crash' = CrashFor(w, l, f)
<1> DEFINE m == Len(to) + 1
           w == Filled(writes, lastBuffered, m)
           f == FreedFor(writes, lastBuffered, freed)
           l == Wrapped(lastBuffered + 1)
           before == [writes |-> writes, last |-> lastBuffered, freed |-> freed, crash |-> "no"]
           one == Added(before, m)
           after == IF ClearFirst /\ one.crash = "no" THEN Added(one, m + 1) ELSE one
<1>1. /\ crash = "no" /\ writes' = after.writes /\ lastBuffered' = after.last
      /\ freed' = after.freed /\ crash' = after.crash
  BY DEF Timer
<1>2. CASE lastBuffered = N
  <2>1. one = [before EXCEPT !.crash = "out of bounds"]
    BY <1>2 DEF Added
  <2>2. after = one
    BY <2>1
  <2>3. QED
    BY <1>1, <1>2, <2>1, <2>2
<1>3. CASE lastBuffered # N
  <2>1. lastBuffered \in Slots /\ lastBuffered + 1 \in 0 .. N
    <3>1. lastBuffered \in 0 .. N
      BY DEF TypeOK
    <3>2. QED
      BY <1>3, <3>1, NAssumption DEF Slots
  <2>2. l \in Slots
    BY <2>1, WrappedIs
  <2>3. l + 1 \in 0 .. N
    BY <2>2, NAssumption DEF Slots
  <2>4. Wrapped(l + 1) \in Slots
    BY <2>3, WrappedIs
  <2>5. one = [writes |-> w, last |-> l, freed |-> f,
               crash |-> CrashFor(writes, lastBuffered, freed)]
    BY <2>1, AddedIs
  <2> HIDE DEF w, l, f, one, before, m
  <2>6. CASE ClearFirst /\ one.crash = "no"
    <3>1. one = [writes |-> w, last |-> l, freed |-> f, crash |-> "no"]
      BY <2>5, <2>6
    <3>2. after = [writes |-> Filled(w, l, m + 1), last |-> Wrapped(l + 1),
                   freed |-> FreedFor(w, l, f), crash |-> CrashFor(w, l, f)]
      BY <2>2, <2>6, <3>1, AddedIs
    <3>3. /\ writes' = Filled(w, l, m + 1) /\ freed' = FreedFor(w, l, f)
          /\ lastBuffered' = Wrapped(l + 1) /\ crash' = CrashFor(w, l, f)
          /\ CrashFor(writes, lastBuffered, freed) = "no"
      BY <1>1, <2>5, <2>6, <3>2
    <3>4. QED
      BY <2>1, <2>2, <2>4, <2>6, <3>3 DEF w, l, f, m
  <2>7. CASE ~(ClearFirst /\ one.crash = "no")
    BY <1>1, <2>1, <2>2, <2>5, <2>7 DEF w, l, f, m
  <2>8. QED
    BY <2>6, <2>7
<1>4. QED
  BY <1>2, <1>3

(* Room for the messages that a run of the script makes. *)
LEMMA MadeTypes ==
  ASSUME TypeOK, NumberInv, runs < MaxRuns
  PROVE  /\ Made \subseteq Messages /\ Len(to) \in Nat
         /\ Len(to) + 1 \in Made /\ (ClearFirst => Len(to) + 2 \in Made)
         /\ \A m \in Made : m \in Nat /\ m > Len(to)
<1>1. /\ adds \in Nat /\ adds <= MaxAdds /\ runs \in Nat /\ runs + 1 <= MaxRuns
      /\ Len(to) \in Nat /\ Len(to) <= adds + 2 * runs
      /\ MaxAdds \in Nat /\ MaxRuns \in Nat /\ Messages = 1 .. MaxAdds + 2 * MaxRuns
  <2>1. adds \in 0 .. MaxAdds /\ runs \in 0 .. MaxRuns /\ to \in Seq(1 .. MaxConns)
    BY DEF TypeOK
  <2>2. QED
    BY <2>1, LenProperties, MessageNumbers DEF NumberInv
<1>2. Len(to) + 2 <= MaxAdds + 2 * MaxRuns
  BY <1>1
<1>3. QED
  BY <1>1, <1>2 DEF Made

(* The handler fills slots with messages of its own, and frees what was in *)
(* them.                                                                   *)
LEMMA TimerFills ==
  ASSUME TypeOK, NumberInv, Timer
  PROVE  /\ writes' \in [Slots -> Slot]
         /\ \A i \in Slots : \/ writes'[i] = writes[i]
                             \/ \E m \in Made : writes'[i] = [msg |-> m, len |-> m]
         /\ lastBuffered' \in 0 .. N /\ (lastBuffered' = N => lastBuffered = N)
         /\ freed' \subseteq Messages
         /\ \A m \in freed' : m \in freed \/ m \in Made \/ \E i \in Slots : writes[i].msg = m
         /\ crash' \in {"no", "double free", "out of bounds"}
<1>1. /\ Made \subseteq Messages /\ Len(to) \in Nat
      /\ Len(to) + 1 \in Made /\ (ClearFirst => Len(to) + 2 \in Made)
  BY MadeTypes, TimerEffect
<1>2. /\ writes \in [Slots -> Slot] /\ lastBuffered \in 0 .. N /\ freed \subseteq Messages
      /\ N \notin Slots
  <2>1. N \notin Slots
    BY NAssumption DEF Slots
  <2>2. QED
    BY <2>1 DEF TypeOK
<1>3. \A s \in Slot : s.msg \in {NULL} \cup Messages
  BY DEF Slot
<1>4. \A m \in Messages : [msg |-> m, len |-> m] \in Slot
  BY DEF Slot
<1>5. Slots \subseteq 0 .. N
  BY NAssumption DEF Slots
<1> DEFINE m == Len(to) + 1
           w == Filled(writes, lastBuffered, m)
           f == FreedFor(writes, lastBuffered, freed)
           l == Wrapped(lastBuffered + 1)
<1>6. CASE /\ lastBuffered = N /\ crash' = "out of bounds"
           /\ UNCHANGED <<writes, lastBuffered, freed>>
  BY <1>2, <1>6
<1>7. ASSUME lastBuffered \in Slots
      PROVE  /\ w \in [Slots -> Slot] /\ f \subseteq Messages
             /\ \A i \in Slots : w[i] = writes[i] \/ w[i] = [msg |-> m, len |-> m]
             /\ \A k \in f : k \in freed \/ \E i \in Slots : writes[i].msg = k
  BY <1>1, <1>2, <1>3, <1>4, <1>7 DEF Filled, FreedFor
<1>8. CASE /\ lastBuffered \in Slots /\ l \in Slots
           /\ writes' = w /\ freed' = f /\ lastBuffered' = l
           /\ crash' = CrashFor(writes, lastBuffered, freed)
  <2> HIDE DEF w, f, l
  <2>1. QED
    BY <1>1, <1>2, <1>5, <1>7, <1>8 DEF CrashFor, m
<1>9. CASE /\ lastBuffered \in Slots /\ l \in Slots /\ ClearFirst
           /\ writes' = Filled(w, l, m + 1) /\ freed' = FreedFor(w, l, f)
           /\ lastBuffered' \in Slots /\ crash' = CrashFor(w, l, f)
  <2>1. m + 1 = Len(to) + 2 /\ m + 1 \in Made /\ m \in Made
    BY <1>1, <1>9
  <2> HIDE DEF w, f, l, m
  <2>2. /\ writes' \in [Slots -> Slot]
        /\ \A i \in Slots : writes'[i] = w[i] \/ writes'[i] = [msg |-> m + 1, len |-> m + 1]
    BY <1>1, <1>4, <1>7, <1>9, <2>1 DEF Filled
  <2>3. freed' \subseteq Messages
        /\ \A k \in freed' : k \in f \/ \E i \in Slots : w[i].msg = k
    BY <1>3, <1>7, <1>9 DEF FreedFor
  <2>4. \A i \in Slots : w[i].msg = writes[i].msg \/ w[i].msg = m
    BY <1>7, <1>9
  <2>5. QED
    BY <1>2, <1>5, <1>7, <1>9, <2>1, <2>2, <2>3, <2>4 DEF CrashFor
<1>10. QED
  BY <1>6, <1>8, <1>9, TimerOnRing

-----------------------------------------------------------------------------
(* Types, numbers, and what each instruction relies on. *)

RingPart == writes \in [Slots -> Slot] /\ lastBuffered \in 0 .. N /\ lastWritten \in Slots
MainPart ==
  /\ pc \in {"idle"} \cup AddSteps \cup WalkSteps \cup ClearSteps
  /\ at \in 0 .. N /\ {reg, len, mine} \subseteq {NULL} \cup Messages
PagePart == socketInstance \in BOOLEAN /\ conn \in 0 .. MaxConns
MemoryPart ==
  /\ crash \in {"no", "double free", "use after free", "out of bounds"}
  /\ freed \subseteq Messages
HistoryPart ==
  /\ torn \subseteq Messages /\ to \in Seq(1 .. MaxConns)
  /\ sent \subseteq [msg : Messages, len : {NULL} \cup Messages, conn : 1 .. MaxConns]
  /\ adds \in 0 .. MaxAdds /\ runs \in 0 .. MaxRuns

(* The type invariant by parts; the bound of Len(to) is NumberInv's. *)
LEMMA TypeParts ==
  /\ TypeOK => RingPart /\ MainPart /\ PagePart /\ MemoryPart /\ HistoryPart
  /\ RingPart /\ MainPart /\ PagePart /\ MemoryPart /\ HistoryPart /\ NumberInv => TypeOK
<1>1. ASSUME HistoryPart, NumberInv
      PROVE  Len(to) <= Cardinality(Messages)
  <2>1. to \in Seq(1 .. MaxConns) /\ adds \in 0 .. MaxAdds /\ runs \in 0 .. MaxRuns
    BY <1>1 DEF HistoryPart
  <2>2. Len(to) \in Nat /\ Len(to) <= adds + 2 * runs
    BY <1>1, <2>1, LenProperties DEF NumberInv
  <2>3. QED
    BY <2>1, <2>2, MessageNumbers
<1>2. QED
  BY <1>1 DEF TypeOK, RingPart, MainPart, PagePart, MemoryPart, HistoryPart

(* The walk's cursor stays on the ring. *)
LEMMA NextSlot == ASSUME NEW i \in Slots PROVE (i + 1) % N \in Slots /\ 0 \in Slots
<1>1. i + 1 \in 0 .. N /\ 0 \in Slots
  BY NAssumption DEF Slots
<1>2. QED
  BY <1>1, WrappedIs DEF Wrapped

(* What the main thread has at hand. *)
LEMMA PcFacts ==
  ASSUME TypeOK, PcInv
  PROVE  /\ RingPart /\ MainPart /\ PagePart /\ MemoryPart /\ HistoryPart
         /\ Slots \subseteq 0 .. N /\ \A i \in Slots : i + 1 \in 0 .. N
         /\ \A i \in Slots : writes[i].msg \in {NULL} \cup Messages
                             /\ writes[i].len \in {NULL} \cup Messages
         /\ lastBuffered \notin Slots => pc \in {"wrap", "wrapped"}
<1>1. RingPart /\ MainPart /\ PagePart /\ MemoryPart /\ HistoryPart
  BY TypeParts
<1>2. Slots \subseteq 0 .. N /\ \A i \in Slots : i + 1 \in 0 .. N
  BY NAssumption DEF Slots
<1>3. \A i \in Slots : writes[i].msg \in {NULL} \cup Messages
                       /\ writes[i].len \in {NULL} \cup Messages
  BY <1>1 DEF RingPart, Slot
<1>4. lastBuffered \notin Slots => lastBuffered = N
  BY <1>1, NAssumption DEF RingPart, Slots
<1>5. QED
  BY <1>1, <1>2, <1>3, <1>4 DEF PcInv

(* The main thread keeps the types. *)
LEMMA MainTypes ==
  ASSUME TypeOK, PcInv, NumberInv, Main, NumberInv'
  PROVE  TypeOK'
<1>1. /\ RingPart /\ MainPart /\ PagePart /\ MemoryPart /\ HistoryPart
      /\ Slots \subseteq 0 .. N /\ \A i \in Slots : i + 1 \in 0 .. N
      /\ \A i \in Slots : /\ writes[i].msg \in {NULL} \cup Messages
                          /\ writes[i].len \in {NULL} \cup Messages
  BY PcFacts
<1> DEFINE Goal == RingPart' /\ MainPart' /\ PagePart' /\ MemoryPart' /\ HistoryPart'
<1>2. ASSUME SendMsg PROVE Goal
  <2>1. MainPart'
    <3>1. pc' = "slot" /\ UNCHANGED <<at, reg, len>>
      BY <1>2 DEF SendMsg, Step
    <3>2. mine' \in Messages
      BY <3>1 DEF NumberInv, AddSteps
    <3>3. QED
      BY <1>1, <3>1, <3>2 DEF MainPart, AddSteps
  <2>2. HistoryPart'
    BY <1>1, <1>2, MessageNumbers, AppendProperties DEF SendMsg, HistoryPart, MainPart, PagePart,
       PcInv, Step
  <2>3. RingPart' /\ PagePart' /\ MemoryPart'
    BY <1>1, <1>2 DEF SendMsg, ring, main, page, memory, history, RingPart, PagePart, MemoryPart
  <2>4. QED
    BY <2>1, <2>2, <2>3
<1>3. ASSUME AddSlot PROVE Goal
  <2>1. MainPart'
    BY <1>1, <1>3, PcFacts DEF AddSlot, MainPart, RingPart, PcInv, Step, AddSteps, WalkSteps,
       ClearSteps
  <2>2. RingPart' /\ PagePart' /\ MemoryPart' /\ HistoryPart'
    BY <1>1, <1>3 DEF AddSlot, ring, main, page, memory, history, RingPart, PagePart, MemoryPart,
       HistoryPart
  <2>3. QED
    BY <2>1, <2>2
<1>4. ASSUME AddOccupied PROVE Goal
  <2>1. MainPart'
    BY <1>1, <1>4, PcFacts DEF AddOccupied, MainPart, RingPart, PcInv, Step, AddSteps, WalkSteps,
       ClearSteps
  <2>2. RingPart' /\ PagePart' /\ MemoryPart' /\ HistoryPart'
    BY <1>1, <1>4 DEF AddOccupied, ring, main, page, memory, history, RingPart, PagePart,
       MemoryPart, HistoryPart
  <2>3. QED
    BY <2>1, <2>2
<1>5. ASSUME AddOld PROVE Goal
  <2>1. MainPart'
    BY <1>1, <1>5, PcFacts DEF AddOld, MainPart, RingPart, PcInv, Step, AddSteps, WalkSteps,
       ClearSteps
  <2>2. RingPart' /\ PagePart' /\ MemoryPart' /\ HistoryPart'
    BY <1>1, <1>5 DEF AddOld, ring, main, page, memory, history, RingPart, PagePart, MemoryPart,
       HistoryPart
  <2>3. QED
    BY <2>1, <2>2
<1>6. ASSUME AddFreeOld PROVE Goal
  <2>1. MainPart'
    BY <1>1, <1>6, PcFacts DEF AddFreeOld, MainPart, RingPart, PcInv, Step, AddSteps, WalkSteps,
       ClearSteps
  <2>2. MemoryPart'
    BY <1>1, <1>6 DEF AddFreeOld, MemoryPart, MainPart, PcInv, Step, Free
  <2>3. RingPart' /\ PagePart' /\ HistoryPart'
    BY <1>1, <1>6 DEF AddFreeOld, ring, main, page, memory, history, RingPart, PagePart,
       HistoryPart
  <2>4. QED
    BY <2>1, <2>2, <2>3
<1>7. ASSUME AddMessage PROVE Goal
  <2>1. RingPart'
    BY <1>1, <1>7, PcFacts, WrappedIs, NextSlot DEF AddMessage, RingPart, MainPart, Slot, PcInv,
       Sent, Step, AddSteps, WalkSteps, ClearSteps
  <2>2. MainPart'
    BY <1>1, <1>7, PcFacts DEF AddMessage, MainPart, RingPart, PcInv, Step, AddSteps, WalkSteps,
       ClearSteps
  <2>3. PagePart' /\ MemoryPart' /\ HistoryPart'
    BY <1>1, <1>7 DEF AddMessage, ring, main, page, memory, history, PagePart, MemoryPart,
       HistoryPart
  <2>4. QED
    BY <2>1, <2>2, <2>3
<1>8. ASSUME AddLength PROVE Goal
  <2>1. RingPart'
    BY <1>1, <1>8, PcFacts, WrappedIs, NextSlot DEF AddLength, RingPart, MainPart, Slot, PcInv,
       Sent, Step, AddSteps, WalkSteps, ClearSteps
  <2>2. MainPart'
    BY <1>1, <1>8, PcFacts DEF AddLength, MainPart, RingPart, PcInv, Step, AddSteps, WalkSteps,
       ClearSteps
  <2>3. PagePart' /\ MemoryPart' /\ HistoryPart'
    BY <1>1, <1>8 DEF AddLength, ring, main, page, memory, history, PagePart, MemoryPart,
       HistoryPart
  <2>4. QED
    BY <2>1, <2>2, <2>3
<1>9. ASSUME AddCount PROVE Goal
  <2>1. MainPart'
    BY <1>1, <1>9, PcFacts DEF AddCount, MainPart, RingPart, PcInv, Step, AddSteps, WalkSteps,
       ClearSteps
  <2>2. RingPart' /\ PagePart' /\ MemoryPart' /\ HistoryPart'
    BY <1>1, <1>9 DEF AddCount, ring, main, page, memory, history, RingPart, PagePart, MemoryPart,
       HistoryPart
  <2>3. QED
    BY <2>1, <2>2
<1>10. ASSUME AddCounted PROVE Goal
  <2>1. RingPart'
    BY <1>1, <1>10, PcFacts, WrappedIs, NextSlot DEF AddCounted, RingPart, MainPart, Slot, PcInv,
       Sent, Step, AddSteps, WalkSteps, ClearSteps
  <2>2. MainPart'
    BY <1>1, <1>10, PcFacts DEF AddCounted, MainPart, RingPart, PcInv, Step, AddSteps, WalkSteps,
       ClearSteps
  <2>3. PagePart' /\ MemoryPart' /\ HistoryPart'
    BY <1>1, <1>10 DEF AddCounted, ring, main, page, memory, history, PagePart, MemoryPart,
       HistoryPart
  <2>4. QED
    BY <2>1, <2>2, <2>3
<1>11. ASSUME AddWrap PROVE Goal
  <2>1. MainPart'
    BY <1>1, <1>11, PcFacts DEF AddWrap, MainPart, RingPart, PcInv, Step, AddSteps, WalkSteps,
       ClearSteps
  <2>2. RingPart' /\ PagePart' /\ MemoryPart' /\ HistoryPart'
    BY <1>1, <1>11 DEF AddWrap, ring, main, page, memory, history, RingPart, PagePart, MemoryPart,
       HistoryPart
  <2>3. QED
    BY <2>1, <2>2
<1>12. ASSUME AddWrapped PROVE Goal
  <2>1. RingPart'
    BY <1>1, <1>12, PcFacts, WrappedIs, NextSlot DEF AddWrapped, RingPart, MainPart, Slot, PcInv,
       Sent, Step, AddSteps, WalkSteps, ClearSteps
  <2>2. MainPart'
    BY <1>1, <1>12, PcFacts DEF AddWrapped, MainPart, RingPart, PcInv, Step, AddSteps, WalkSteps,
       ClearSteps
  <2>3. PagePart' /\ MemoryPart' /\ HistoryPart'
    BY <1>1, <1>12 DEF AddWrapped, ring, main, page, memory, history, PagePart, MemoryPart,
       HistoryPart
  <2>4. QED
    BY <2>1, <2>2, <2>3
<1>13. ASSUME Writeable PROVE Goal
  <2>1. MainPart'
    BY <1>1, <1>13, PcFacts DEF Writeable, MainPart, RingPart, PcInv, Step, AddSteps, WalkSteps,
       ClearSteps, First
  <2>2. RingPart' /\ PagePart' /\ MemoryPart' /\ HistoryPart'
    BY <1>1, <1>13 DEF Writeable, ring, main, page, memory, history, RingPart, PagePart,
       MemoryPart, HistoryPart
  <2>3. QED
    BY <2>1, <2>2
<1>14. ASSUME WalkLook PROVE Goal
  <2>1. MainPart'
    BY <1>1, <1>14, PcFacts DEF WalkLook, MainPart, RingPart, PcInv, Step, AddSteps, WalkSteps,
       ClearSteps
  <2>2. RingPart' /\ PagePart' /\ MemoryPart' /\ HistoryPart'
    BY <1>1, <1>14 DEF WalkLook, ring, main, page, memory, history, RingPart, PagePart,
       MemoryPart, HistoryPart
  <2>3. QED
    BY <2>1, <2>2
<1>15. ASSUME WalkTake PROVE Goal
  <2>1. MainPart'
    BY <1>1, <1>15, PcFacts DEF WalkTake, MainPart, RingPart, PcInv, Step, AddSteps, WalkSteps,
       ClearSteps
  <2>2. RingPart' /\ PagePart' /\ MemoryPart' /\ HistoryPart'
    BY <1>1, <1>15 DEF WalkTake, ring, main, page, memory, history, RingPart, PagePart,
       MemoryPart, HistoryPart
  <2>3. QED
    BY <2>1, <2>2
<1>16. ASSUME WalkWrite PROVE Goal
  <2>1. MainPart'
    BY <1>1, <1>16, PcFacts DEF WalkWrite, MainPart, RingPart, PcInv, Step, AddSteps, WalkSteps,
       ClearSteps
  <2>2. MemoryPart'
    BY <1>1, <1>16 DEF WalkWrite, MemoryPart, MainPart, PcInv, Step, Free
  <2>3. HistoryPart'
    <3>1. sent' = sent \cup {[msg |-> reg, len |-> len, conn |-> conn]}
      BY <1>16 DEF WalkWrite
    <3>2. reg \in Messages /\ len \in {NULL} \cup Messages
      BY <1>1, <1>16 DEF WalkWrite, Step, MainPart, PcInv
    <3>3. conn \in 1 .. MaxConns
      <4>1. conn > 0
        BY <1>16 DEF WalkWrite, Step, PcInv
      <4>2. conn \in 0 .. MaxConns /\ MaxConns \in Nat
        BY <1>1, MessageNumbers DEF PagePart
      <4>3. QED
        BY <4>1, <4>2
    <3>4. [msg |-> reg, len |-> len, conn |-> conn]
            \in [msg : Messages, len : {NULL} \cup Messages, conn : 1 .. MaxConns]
      BY <3>2, <3>3
    <3>5. UNCHANGED <<torn, to, adds, runs>>
      BY <1>16 DEF WalkWrite
    <3>6. QED
      BY <1>1, <3>1, <3>4, <3>5 DEF HistoryPart
  <2>4. RingPart' /\ PagePart'
    BY <1>1, <1>16 DEF WalkWrite, ring, main, page, memory, history, RingPart, PagePart
  <2>5. QED
    BY <2>1, <2>2, <2>3, <2>4
<1>17. ASSUME WalkAgain PROVE Goal
  <2>1. MainPart'
    BY <1>1, <1>17, PcFacts DEF WalkAgain, MainPart, RingPart, PcInv, Step, AddSteps, WalkSteps,
       ClearSteps
  <2>2. RingPart' /\ PagePart' /\ MemoryPart' /\ HistoryPart'
    BY <1>1, <1>17 DEF WalkAgain, ring, main, page, memory, history, RingPart, PagePart,
       MemoryPart, HistoryPart
  <2>3. QED
    BY <2>1, <2>2
<1>18. ASSUME WalkFree PROVE Goal
  <2>1. MainPart'
    BY <1>1, <1>18, PcFacts DEF WalkFree, MainPart, RingPart, PcInv, Step, AddSteps, WalkSteps,
       ClearSteps
  <2>2. MemoryPart'
    BY <1>1, <1>18 DEF WalkFree, MemoryPart, MainPart, PcInv, Step, Free
  <2>3. RingPart' /\ PagePart' /\ HistoryPart'
    BY <1>1, <1>18 DEF WalkFree, ring, main, page, memory, history, RingPart, PagePart,
       HistoryPart
  <2>4. QED
    BY <2>1, <2>2, <2>3
<1>19. ASSUME WalkNull PROVE Goal
  <2>1. RingPart'
    BY <1>1, <1>19, PcFacts, WrappedIs, NextSlot DEF WalkNull, RingPart, MainPart, Slot, PcInv,
       Sent, Step, AddSteps, WalkSteps, ClearSteps
  <2>2. MainPart'
    BY <1>1, <1>19, PcFacts DEF WalkNull, MainPart, RingPart, PcInv, Step, AddSteps, WalkSteps,
       ClearSteps
  <2>3. PagePart' /\ MemoryPart' /\ HistoryPart'
    BY <1>1, <1>19 DEF WalkNull, ring, main, page, memory, history, PagePart, MemoryPart,
       HistoryPart
  <2>4. QED
    BY <2>1, <2>2, <2>3
<1>20. ASSUME WalkNext PROVE Goal
  <2>1. RingPart'
    BY <1>1, <1>20, PcFacts, WrappedIs, NextSlot DEF WalkNext, RingPart, MainPart, Slot, PcInv,
       Sent, Step, AddSteps, WalkSteps, ClearSteps
  <2>2. MainPart'
    BY <1>1, <1>20, PcFacts DEF WalkNext, MainPart, RingPart, PcInv, Step, AddSteps, WalkSteps,
       ClearSteps
  <2>3. PagePart' /\ MemoryPart' /\ HistoryPart'
    BY <1>1, <1>20 DEF WalkNext, ring, main, page, memory, history, PagePart, MemoryPart,
       HistoryPart
  <2>4. QED
    BY <2>1, <2>2, <2>3
<1>21. ASSUME Established PROVE Goal
  <2>1. MainPart'
    BY <1>1, <1>21, PcFacts DEF Established, MainPart, RingPart, PcInv, Step, AddSteps, WalkSteps,
       ClearSteps
  <2>2. PagePart'
    BY <1>1, <1>21, MessageNumbers DEF Established, PagePart
  <2>3. RingPart' /\ MemoryPart' /\ HistoryPart'
    BY <1>1, <1>21 DEF Established, ring, main, page, memory, history, RingPart, MemoryPart,
       HistoryPart
  <2>4. QED
    BY <2>1, <2>2, <2>3
<1>22. ASSUME Closed PROVE Goal
  <2>1. MainPart'
    BY <1>1, <1>22, NextSlot DEF Closed, MainPart, RingPart, PcInv, Step, AddSteps, WalkSteps,
       ClearSteps
  <2>2. RingPart' /\ PagePart' /\ MemoryPart' /\ HistoryPart'
    BY <1>1, <1>22 DEF Closed, ring, main, page, memory, history, RingPart, PagePart, MemoryPart,
       HistoryPart
  <2>3. QED
    BY <2>1, <2>2
<1>23. ASSUME ClearTest PROVE Goal
  <2>1. MainPart'
    BY <1>1, <1>23, PcFacts DEF ClearTest, MainPart, RingPart, PcInv, Step, AddSteps, WalkSteps,
       ClearSteps
  <2>2. RingPart' /\ PagePart' /\ MemoryPart' /\ HistoryPart'
    BY <1>1, <1>23 DEF ClearTest, ring, main, page, memory, history, RingPart, PagePart,
       MemoryPart, HistoryPart
  <2>3. QED
    BY <2>1, <2>2
<1>24. ASSUME ClearLoad PROVE Goal
  <2>1. MainPart'
    BY <1>1, <1>24, PcFacts DEF ClearLoad, MainPart, RingPart, PcInv, Step, AddSteps, WalkSteps,
       ClearSteps
  <2>2. RingPart' /\ PagePart' /\ MemoryPart' /\ HistoryPart'
    BY <1>1, <1>24 DEF ClearLoad, ring, main, page, memory, history, RingPart, PagePart,
       MemoryPart, HistoryPart
  <2>3. QED
    BY <2>1, <2>2
<1>25. ASSUME ClearFree PROVE Goal
  <2>1. MainPart'
    BY <1>1, <1>25, PcFacts DEF ClearFree, MainPart, RingPart, PcInv, Step, AddSteps, WalkSteps,
       ClearSteps
  <2>2. MemoryPart'
    BY <1>1, <1>25 DEF ClearFree, MemoryPart, MainPart, PcInv, Step, Free
  <2>3. RingPart' /\ PagePart' /\ HistoryPart'
    BY <1>1, <1>25 DEF ClearFree, ring, main, page, memory, history, RingPart, PagePart,
       HistoryPart
  <2>4. QED
    BY <2>1, <2>2, <2>3
<1>26. ASSUME ClearNull PROVE Goal
  <2>1. RingPart'
    BY <1>1, <1>26, PcFacts, WrappedIs, NextSlot DEF ClearNull, RingPart, MainPart, Slot, PcInv,
       Sent, Step, AddSteps, WalkSteps, ClearSteps
  <2>2. MainPart'
    BY <1>1, <1>26, PcFacts DEF ClearNull, MainPart, RingPart, PcInv, Step, AddSteps, WalkSteps,
       ClearSteps
  <2>3. PagePart' /\ MemoryPart' /\ HistoryPart'
    BY <1>1, <1>26 DEF ClearNull, ring, main, page, memory, history, PagePart, MemoryPart,
       HistoryPart
  <2>4. QED
    BY <2>1, <2>2, <2>3
<1>27. ASSUME ClearLength PROVE Goal
  <2>1. RingPart'
    BY <1>1, <1>27, PcFacts, WrappedIs, NextSlot DEF ClearLength, RingPart, MainPart, Slot, PcInv,
       Sent, Step, AddSteps, WalkSteps, ClearSteps
  <2>2. MainPart'
    BY <1>1, <1>27, PcFacts DEF ClearLength, MainPart, RingPart, PcInv, Step, AddSteps, WalkSteps,
       ClearSteps
  <2>3. PagePart' /\ MemoryPart' /\ HistoryPart'
    BY <1>1, <1>27 DEF ClearLength, ring, main, page, memory, history, PagePart, MemoryPart,
       HistoryPart
  <2>4. QED
    BY <2>1, <2>2, <2>3
<1>28. ASSUME ClearNext PROVE Goal
  <2>1. MainPart'
    BY <1>1, <1>28, NextSlot DEF ClearNext, MainPart, RingPart, PcInv, Step, AddSteps, WalkSteps,
       ClearSteps
  <2>2. RingPart' /\ PagePart' /\ MemoryPart' /\ HistoryPart'
    BY <1>1, <1>28 DEF ClearNext, ring, main, page, memory, history, RingPart, PagePart,
       MemoryPart, HistoryPart
  <2>3. QED
    BY <2>1, <2>2
<1>29. ASSUME ClearReset PROVE Goal
  <2>1. RingPart'
    BY <1>1, <1>29, PcFacts, WrappedIs, NextSlot DEF ClearReset, RingPart, MainPart, Slot, PcInv,
       Sent, Step, AddSteps, WalkSteps, ClearSteps
  <2>2. MainPart'
    BY <1>1, <1>29, PcFacts DEF ClearReset, MainPart, RingPart, PcInv, Step, AddSteps, WalkSteps,
       ClearSteps
  <2>3. PagePart' /\ MemoryPart' /\ HistoryPart'
    BY <1>1, <1>29 DEF ClearReset, ring, main, page, memory, history, PagePart, MemoryPart,
       HistoryPart
  <2>4. QED
    BY <2>1, <2>2, <2>3
<1>30. ASSUME Disconnect PROVE Goal
  <2>1. MainPart'
    BY <1>1, <1>30, PcFacts DEF Disconnect, MainPart, RingPart, PcInv, Step, AddSteps, WalkSteps,
       ClearSteps
  <2>2. PagePart'
    BY <1>1, <1>30, MessageNumbers DEF Disconnect, PagePart
  <2>3. RingPart' /\ MemoryPart' /\ HistoryPart'
    BY <1>1, <1>30 DEF Disconnect, ring, main, page, memory, history, RingPart, MemoryPart,
       HistoryPart
  <2>4. QED
    BY <2>1, <2>2, <2>3
<1>31. Goal
  BY <1>2, <1>3, <1>4, <1>5, <1>6, <1>7, <1>8, <1>9, <1>10, <1>11, <1>12, <1>13, <1>14, <1>15,
     <1>16, <1>17, <1>18, <1>19, <1>20, <1>21, <1>22, <1>23, <1>24, <1>25, <1>26, <1>27, <1>28,
     <1>29, <1>30 DEF Main, Add, Walk, Connection
<1>32. QED
  BY <1>31, TypeParts, PTL

(* The handler keeps the types too. *)
LEMMA TimerTypes ==
  ASSUME TypeOK, PcInv, NumberInv, Timer, NumberInv'
  PROVE  TypeOK'
<1>1. RingPart /\ MainPart /\ PagePart /\ MemoryPart /\ HistoryPart
  BY TypeParts
<1>2. /\ UNCHANGED <<lastWritten, pc, at, reg, len, mine, socketInstance, conn, sent, adds>>
      /\ socketInstance /\ runs < MaxRuns /\ runs' = runs + 1
      /\ conn > 0 => to' \in Seq(1 .. MaxConns)
      /\ torn' = torn \cup (IF Strikes THEN Made ELSE {})
                      \cup (IF pc \in AddSteps THEN {mine} ELSE {})
  BY TimerEffect
<1>3. Made \subseteq Messages
  BY <1>2, MadeTypes
<1>4. /\ writes' \in [Slots -> Slot] /\ lastBuffered' \in 0 .. N /\ freed' \subseteq Messages
      /\ crash' \in {"no", "double free", "out of bounds"}
  BY TimerFills
<1>5. RingPart' /\ PagePart' /\ MemoryPart'
  BY <1>1, <1>2, <1>4 DEF RingPart, PagePart, MemoryPart
<1>6. MainPart'
  BY <1>1, <1>2 DEF MainPart
<1>7. HistoryPart'
  <2>1. torn' \subseteq Messages
    BY <1>1, <1>2, <1>3 DEF HistoryPart, NumberInv
  <2>2. to' \in Seq(1 .. MaxConns)
    BY <1>2 DEF PcInv
  <2>3. runs' \in 0 .. MaxRuns
    BY <1>1, <1>2, MessageNumbers DEF HistoryPart
  <2>4. QED
    BY <1>1, <1>2, <2>1, <2>2, <2>3 DEF HistoryPart
<1>8. QED
  BY <1>5, <1>6, <1>7, TypeParts, PTL

(* The numbers stay in order. *)
LEMMA NumberStep ==
  ASSUME TypeOK, PcInv, NumberInv, [Next]_vars
  PROVE  NumberInv'
<1>1. /\ RingPart /\ MainPart /\ PagePart /\ MemoryPart /\ HistoryPart
      /\ \A i \in Slots : writes[i].msg \in {NULL} \cup Messages
  BY PcFacts
<1>2. /\ to \in Seq(1 .. MaxConns) /\ Len(to) \in Nat /\ adds \in Nat /\ runs \in Nat
      /\ conn \in 0 .. MaxConns /\ NULL = 0 /\ \A m \in Messages : m \in Nat
      /\ {reg, len, mine} \subseteq {NULL} \cup Messages
      /\ \A i \in Slots : writes[i].msg \in Nat
  <2>1. to \in Seq(1 .. MaxConns) /\ adds \in 0 .. MaxAdds /\ runs \in 0 .. MaxRuns
    BY <1>1 DEF HistoryPart
  <2>2. QED
    BY <1>1, <2>1, LenProperties, MessageNumbers DEF PagePart, MainPart, NULL
<1>3. /\ Len(to) <= adds + 2 * runs
      /\ reg <= Len(to) /\ \A i \in Slots : writes[i].msg <= Len(to)
      /\ \A m \in freed : m <= Len(to)
      /\ pc \in AddSteps => mine \in Messages /\ mine <= Len(to)
  BY DEF NumberInv
<1>4. ASSUME UNCHANGED <<to, adds, runs, mine>>, pc' \in AddSteps => pc \in AddSteps,
             reg' <= Len(to),
             \A i \in Slots : writes'[i].msg = writes[i].msg \/ writes'[i].msg <= Len(to),
             \A m \in freed' : m \in freed \/ m <= Len(to)
      PROVE  NumberInv'
  BY <1>3, <1>4 DEF NumberInv
<1>5. ASSUME UNCHANGED <<writes, freed, history, mine>>, pc' \in AddSteps => pc \in AddSteps,
             reg' <= Len(to)
      PROVE  NumberInv'
  BY <1>4, <1>5 DEF history
<1>6. CASE UNCHANGED vars
  BY <1>3, <1>5, <1>6 DEF vars, ring, main, memory
<1>7. CASE AddSlot \/ AddOccupied \/ AddCount \/ AddCounted \/ AddWrap \/ AddWrapped
  BY <1>3, <1>5, <1>7 DEF AddSlot, AddOccupied, AddCount, AddCounted, AddWrap, AddWrapped,
     Step, AddSteps, ring, memory
<1>8. CASE Writeable \/ WalkLook \/ WalkWrite \/ WalkNext
  BY <1>3, <1>4, <1>8 DEF Writeable, First, WalkLook, WalkWrite, WalkNext, Step, AddSteps,
     ring, memory, history
<1>9. CASE \/ Established \/ Closed \/ ClearTest \/ ClearNext \/ ClearReset \/ Disconnect
  BY <1>3, <1>5, <1>9 DEF Established, Closed, ClearTest, ClearNext, ClearReset, Disconnect,
     Step, AddSteps, ring, memory
<1>10. CASE AddOld \/ ClearLoad
  <2>1. at \in Slots /\ reg' = writes[at].msg
    BY <1>10 DEF AddOld, ClearLoad, Step, PcInv, ClearSteps
  <2>2. reg' <= Len(to)
    BY <1>3, <2>1
  <2>3. QED
    BY <1>5, <1>10, <2>2 DEF AddOld, ClearLoad, Step, AddSteps, ring, memory
<1>11. CASE WalkTake \/ WalkAgain
  <2>1. reg' <= Len(to)
    BY <1>1, <1>3, <1>11 DEF WalkTake, WalkAgain, RingPart
  <2>2. QED
    BY <1>5, <1>11, <2>1 DEF WalkTake, WalkAgain, Step, AddSteps, ring, memory
<1>12. CASE AddFreeOld \/ WalkFree \/ ClearFree
  <2>1. freed' = freed \cup {reg} /\ UNCHANGED <<reg, writes, history, mine>>
        /\ (pc' \in AddSteps => pc \in AddSteps)
    BY <1>12 DEF AddFreeOld, WalkFree, ClearFree, Free, ring, Step, AddSteps
  <2>2. QED
    BY <1>3, <1>4, <2>1 DEF history
<1>13. CASE AddMessage \/ AddLength
  <2>1. /\ UNCHANGED <<to, adds, runs, mine, reg, freed>> /\ pc \in AddSteps
        /\ \A i \in Slots : writes'[i].msg \in {writes[i].msg, mine}
    BY <1>1, <1>13 DEF AddMessage, AddLength, Step, AddSteps, memory, history, RingPart, Slot
  <2>2. QED
    BY <1>2, <1>3, <1>4, <2>1
<1>14. CASE WalkNull \/ ClearNull \/ ClearLength
  <2>1. /\ UNCHANGED <<to, adds, runs, mine, reg, freed>> /\ pc' \notin AddSteps
        /\ \A i \in Slots : writes'[i].msg \in {writes[i].msg, NULL}
    BY <1>1, <1>14 DEF WalkNull, ClearNull, ClearLength, Sent, Step, AddSteps, memory, history,
       RingPart, Slot
  <2>2. QED
    BY <1>2, <1>3, <1>4, <2>1
<1>15. CASE SendMsg
  <2>1. /\ mine' = Len(to) + 1 /\ to' = Append(to, conn) /\ adds' = adds + 1 /\ adds < MaxAdds
        /\ UNCHANGED <<writes, reg, freed, runs>>
    BY <1>15 DEF SendMsg, memory, ring
  <2>2. Len(to') = Len(to) + 1
    BY <1>2, <2>1
  <2>3. mine' \in Messages
    <3>1. adds + 1 <= MaxAdds /\ runs <= MaxRuns /\ MaxAdds \in Nat /\ MaxRuns \in Nat
      BY <1>1, <2>1, MessageNumbers DEF HistoryPart
    <3>2. QED
      BY <1>2, <1>3, <2>1, <3>1, MessageNumbers
  <2>4. \A m \in freed : m \in Nat
    BY <1>1, <1>2 DEF MemoryPart
  <2>5. Len(to') <= adds' + 2 * runs' /\ mine' <= Len(to') /\ reg' <= Len(to')
    BY <1>2, <1>3, <2>1, <2>2
  <2>6. \A i \in Slots : writes'[i].msg <= Len(to')
    <3>1. TAKE i \in Slots
    <3>2. writes'[i].msg = writes[i].msg /\ writes[i].msg \in Nat /\ writes[i].msg <= Len(to)
      BY <1>2, <1>3, <2>1
    <3>3. QED
      BY <1>2, <2>2, <3>2
  <2>7. \A m \in freed' : m <= Len(to')
    BY <1>2, <1>3, <2>1, <2>2, <2>4
  <2>8. QED
    BY <2>3, <2>5, <2>6, <2>7 DEF NumberInv
<1>16. CASE Timer
  <2>1. /\ UNCHANGED <<pc, reg, mine, adds>> /\ runs < MaxRuns /\ runs' = runs + 1
        /\ Len(to') = Len(to) + (IF ClearFirst THEN 2 ELSE 1)
    BY <1>16, TimerEffect
  <2>2. \A m \in Made : m \in Nat /\ m <= Len(to')
    BY <1>2, <2>1 DEF Made
  <2>3. Len(to') \in Nat /\ Len(to') > Len(to) /\ Len(to') <= adds' + 2 * runs'
    BY <1>2, <1>3, <2>1
  <2>4. /\ \A i \in Slots : writes'[i].msg = writes[i].msg \/ writes'[i].msg \in Made
        /\ \A m \in freed' : m \in freed \/ m \in Made \/ \E i \in Slots : writes[i].msg = m
    <3>1. /\ \A i \in Slots : \/ writes'[i] = writes[i]
                              \/ \E m \in Made : writes'[i] = [msg |-> m, len |-> m]
          /\ \A m \in freed' : m \in freed \/ m \in Made \/ \E i \in Slots : writes[i].msg = m
      BY <1>16, TimerFills
    <3>2. \A m \in Made : [msg |-> m, len |-> m].msg = m
      OBVIOUS
    <3>3. ASSUME NEW i \in Slots
          PROVE  writes'[i].msg = writes[i].msg \/ writes'[i].msg \in Made
      <4>1. CASE writes'[i] = writes[i]
        BY <4>1
      <4>2. ASSUME NEW m \in Made, writes'[i] = [msg |-> m, len |-> m]
            PROVE  writes'[i].msg \in Made
        BY <3>2, <4>2
      <4>3. QED
        BY <3>1, <4>1, <4>2
    <3>4. QED
      BY <3>1, <3>3
  <2>5. \A m \in freed : m \in Nat
    BY <1>1, <1>2 DEF MemoryPart
  <2>6. \A i \in Slots : writes'[i].msg <= Len(to')
    BY <1>2, <1>3, <2>2, <2>3, <2>4
  <2>7. \A m \in freed' : m <= Len(to')
    BY <1>2, <1>3, <2>2, <2>3, <2>4, <2>5
  <2>8. reg' <= Len(to') /\ (pc' \in AddSteps => mine' \in Messages /\ mine' <= Len(to'))
    BY <1>2, <1>3, <2>1, <2>3, MessageNumbers
  <2>9. QED
    BY <2>3, <2>6, <2>7, <2>8 DEF NumberInv
<1>17. QED
  BY <1>6, <1>7, <1>8, <1>9, <1>10, <1>11, <1>12, <1>13, <1>14, <1>15, <1>16
     DEF Next, Main, Add, Walk, Connection

(* What the next instruction relies on stays true, also when the handler   *)
(* comes first: it fills slots, and empties none.                          *)
LEMMA PcStep ==
  ASSUME TypeOK, PcInv, NumberInv, [Next]_vars
  PROVE  PcInv'
<1>1. /\ RingPart /\ MainPart /\ PagePart /\ MemoryPart /\ HistoryPart
      /\ Slots \subseteq 0 .. N /\ \A i \in Slots : i + 1 \in 0 .. N
      /\ \A i \in Slots : /\ writes[i].msg \in {NULL} \cup Messages
                          /\ writes[i].len \in {NULL} \cup Messages
      /\ lastBuffered \notin Slots => pc \in {"wrap", "wrapped"}
  BY PcFacts
<1>2. N \notin Slots /\ 0 \in Slots
  BY NAssumption DEF Slots
<1>3. CASE SendMsg
  BY <1>1, <1>2, <1>3 DEF SendMsg, PcInv, Step, ClearSteps, ring, main, page, MainPart, RingPart,
     PagePart
<1>4. CASE AddSlot
  BY <1>1, <1>2, <1>4 DEF AddSlot, PcInv, Step, ClearSteps, ring, main, page, MainPart, RingPart,
     PagePart
<1>5. CASE AddOccupied
  BY <1>1, <1>2, <1>5 DEF AddOccupied, PcInv, Step, ClearSteps, ring, main, page, MainPart,
     RingPart, PagePart
<1>6. CASE AddOld
  BY <1>1, <1>2, <1>6 DEF AddOld, PcInv, Step, ClearSteps, ring, main, page, MainPart, RingPart,
     PagePart
<1>7. CASE AddFreeOld
  BY <1>1, <1>2, <1>7 DEF AddFreeOld, PcInv, Step, ClearSteps, ring, main, page, MainPart,
     RingPart, PagePart
<1>8. CASE AddMessage
  BY <1>1, <1>2, <1>8 DEF AddMessage, PcInv, Step, ClearSteps, ring, main, page, MainPart,
     RingPart, PagePart
<1>9. CASE AddLength
  BY <1>1, <1>2, <1>9 DEF AddLength, PcInv, Step, ClearSteps, ring, main, page, MainPart,
     RingPart, PagePart
<1>10. CASE AddCount
  BY <1>1, <1>2, <1>10 DEF AddCount, PcInv, Step, ClearSteps, ring, main, page, MainPart,
     RingPart, PagePart
<1>11. CASE AddCounted
  BY <1>1, <1>2, <1>11 DEF AddCounted, PcInv, Step, ClearSteps, ring, main, page, MainPart,
     RingPart, PagePart
<1>12. CASE AddWrap
  BY <1>1, <1>2, <1>12 DEF AddWrap, PcInv, Step, ClearSteps, ring, main, page, MainPart, RingPart,
     PagePart
<1>13. CASE AddWrapped
  BY <1>1, <1>2, <1>13, WrappedIs DEF AddWrapped, PcInv, Step, ClearSteps, ring, main, page,
     MainPart, RingPart, PagePart
<1>14. CASE Writeable
  BY <1>1, <1>2, <1>14 DEF Writeable, First, PcInv, Step, ClearSteps, ring, main, page, MainPart,
     RingPart, PagePart
<1>15. CASE WalkLook
  BY <1>1, <1>2, <1>15 DEF WalkLook, PcInv, Step, ClearSteps, ring, main, page, MainPart,
     RingPart, PagePart
<1>16. CASE WalkTake
  BY <1>1, <1>2, <1>16 DEF WalkTake, PcInv, Step, ClearSteps, ring, main, page, MainPart,
     RingPart, PagePart
<1>17. CASE WalkWrite
  BY <1>1, <1>2, <1>17 DEF WalkWrite, PcInv, Step, ClearSteps, ring, main, page, MainPart,
     RingPart, PagePart
<1>18. CASE WalkAgain
  BY <1>1, <1>2, <1>18 DEF WalkAgain, PcInv, Step, ClearSteps, ring, main, page, MainPart,
     RingPart, PagePart
<1>19. CASE WalkFree
  BY <1>1, <1>2, <1>19 DEF WalkFree, PcInv, Step, ClearSteps, ring, main, page, MainPart,
     RingPart, PagePart
<1>20. CASE WalkNull
  BY <1>1, <1>2, <1>20 DEF WalkNull, Sent, PcInv, Step, ClearSteps, ring, main, page, MainPart,
     RingPart, PagePart
<1>21. CASE WalkNext
  BY <1>1, <1>2, <1>21 DEF WalkNext, PcInv, Step, ClearSteps, ring, main, page, MainPart,
     RingPart, PagePart
<1>22. CASE Established
  BY <1>1, <1>2, <1>22, MessageNumbers DEF Established, PcInv, Step, ClearSteps, ring, main, page,
     MainPart, RingPart, PagePart
<1>23. CASE Closed
  BY <1>1, <1>2, <1>23 DEF Closed, PcInv, Step, ClearSteps, ring, main, page, MainPart, RingPart,
     PagePart
<1>24. CASE ClearTest
  BY <1>1, <1>2, <1>24 DEF ClearTest, PcInv, Step, ClearSteps, ring, main, page, MainPart,
     RingPart, PagePart
<1>25. CASE ClearLoad
  BY <1>1, <1>2, <1>25 DEF ClearLoad, PcInv, Step, ClearSteps, ring, main, page, MainPart,
     RingPart, PagePart
<1>26. CASE ClearFree
  BY <1>1, <1>2, <1>26 DEF ClearFree, PcInv, Step, ClearSteps, ring, main, page, MainPart,
     RingPart, PagePart
<1>27. CASE ClearNull
  BY <1>1, <1>2, <1>27 DEF ClearNull, PcInv, Step, ClearSteps, ring, main, page, MainPart,
     RingPart, PagePart
<1>28. CASE ClearLength
  BY <1>1, <1>2, <1>28 DEF ClearLength, PcInv, Step, ClearSteps, ring, main, page, MainPart,
     RingPart, PagePart
<1>29. CASE ClearNext
  BY <1>1, <1>2, <1>29 DEF ClearNext, PcInv, Step, ClearSteps, ring, main, page, MainPart,
     RingPart, PagePart
<1>30. CASE ClearReset
  BY <1>1, <1>2, <1>30 DEF ClearReset, PcInv, Step, ClearSteps, ring, main, page, MainPart,
     RingPart, PagePart
<1>31. CASE Disconnect
  BY <1>1, <1>2, <1>31 DEF Disconnect, PcInv, Step, ClearSteps, ring, main, page, MainPart,
     RingPart, PagePart
<1>32. CASE Timer
  <2>1. /\ UNCHANGED <<lastWritten, pc, at, reg, socketInstance, conn>>
    BY <1>32, TimerEffect
  <2>2. \A m \in Made : m # NULL
    BY <1>32, TimerEffect, MadeTypes, MessageNumbers
  <2>3. \A i \in Slots : writes[i].msg # NULL => writes'[i].msg # NULL
    <3>1. \A i \in Slots : \/ writes'[i] = writes[i]
                           \/ \E m \in Made : writes'[i] = [msg |-> m, len |-> m]
      BY <1>32, TimerFills
    <3>2. \A m \in Made : [msg |-> m, len |-> m].msg # NULL
      BY <2>2
    <3>3. QED
      BY <3>1, <3>2
  <2>4. lastBuffered' = N => lastBuffered = N
    BY <1>32, TimerFills
  <2>5. pc \in {"old", "clearLoad"} => at \in Slots
    BY DEF PcInv, ClearSteps
  <2>6. QED
    BY <1>1, <2>1, <2>3, <2>4, <2>5 DEF PcInv, RingPart
<1>33. CASE UNCHANGED vars
  BY <1>33 DEF vars, ring, main, page, PcInv
<1>34. QED
  BY <1>3, <1>4, <1>5, <1>6, <1>7, <1>8, <1>9, <1>10, <1>11, <1>12, <1>13, <1>14, <1>15, <1>16,
     <1>17, <1>18, <1>19, <1>20, <1>21, <1>22, <1>23, <1>24, <1>25, <1>26, <1>27, <1>28, <1>29,
     <1>30, <1>31, <1>32, <1>33 DEF Next, Main, Add, Walk, Connection

-----------------------------------------------------------------------------
(* The heap: what the main thread frees is in its slot and not freed yet.  *)

(* Of a clean ring, a slot's message may be freed. *)
LEMMA FreedClean ==
  ASSUME NEW w, NEW f, NEW l \in Slots, Clean(w, f, {}), w[l].msg # NULL
  PROVE  w[l].msg \notin f /\ Clean(w, f \cup {w[l].msg}, {l})
BY DEF Clean

(* The slot is then emptied, or gets a message that is nowhere yet. *)
LEMMA ReplacedClean ==
  ASSUME NEW w, NEW v, NEW f, NEW l \in Slots, NEW D, Clean(w, f, D), D \subseteq {l}, NEW m,
         \A i \in Slots : v[i].msg = IF i = l THEN m ELSE w[i].msg,
         m # NULL => m \notin f /\ \A i \in Slots : w[i].msg # m
  PROVE  Clean(v, f, {})
BY DEF Clean

(* Nothing else changes what is clean. *)
LEMMA SameClean ==
  ASSUME NEW w, NEW v, NEW f, NEW D, Clean(w, f, D), \A i \in Slots : v[i].msg = w[i].msg
  PROVE  Clean(v, f, D)
BY DEF Clean

(* A handler that strikes nothing fills slots of a clean ring, and not the *)
(* one whose message the walk has freed.                                   *)
LEMMA TimerClean ==
  ASSUME TypeOK, PcInv, NumberInv, Timer, ~Strikes, Clean(writes, freed, Dangling)
  PROVE  crash' = "no" /\ Clean(writes', freed', Dangling)
<1> DEFINE m == Len(to) + 1
           w == Filled(writes, lastBuffered, m)
           f == FreedFor(writes, lastBuffered, freed)
           l == Wrapped(lastBuffered + 1)
<1>1. /\ Made \subseteq Messages /\ Len(to) \in Nat /\ m \in Made
      /\ (ClearFirst => m + 1 \in Made) /\ \A k \in Made : k \in Nat /\ k > Len(to)
  BY TimerEffect, MadeTypes
<1>2. /\ writes \in [Slots -> Slot] /\ freed \subseteq Messages /\ lastWritten \in Slots
      /\ \A i \in Slots : writes[i].msg \in {NULL} \cup Messages
  BY DEF TypeOK, Slot
<1>3. /\ \A i \in Slots : writes[i].msg \in Nat /\ writes[i].msg <= Len(to)
      /\ \A k \in freed : k \in Nat /\ k <= Len(to)
  BY <1>2, MessageNumbers DEF NumberInv, NULL
<1>4. /\ \A k \in Made : k \notin freed /\ \A i \in Slots : writes[i].msg # k
      /\ m # m + 1 /\ m \in Messages /\ m \notin freed /\ \A i \in Slots : writes[i].msg # m
  BY <1>1, <1>3
<1>5. lastBuffered # N
  BY DEF PcInv, Strikes, AddSteps
<1>6. Dangling = IF pc = "null" THEN {lastWritten} ELSE {}
  BY DEF Dangling, Strikes, AddSteps, ClearSteps
<1>7. pc = "null" => writes'[lastWritten] = writes[lastWritten]
  BY DEF Strikes, AtHand, WalkSteps
<1>8. ASSUME NEW i \in Slots, writes'[i].msg \in Made
      PROVE  i \notin Dangling
  BY <1>4, <1>6, <1>7, <1>8
<1>9. ASSUME lastBuffered \in Slots
      PROVE  /\ w \in [Slots -> Slot] /\ f \subseteq Messages
             /\ w[lastBuffered].msg = m
             /\ \A i \in Slots : i # lastBuffered => w[i] = writes[i]
             /\ \A k \in f : k \in freed \/ k = writes[lastBuffered].msg
  <2>1. [msg |-> m, len |-> m] \in Slot
    BY <1>4 DEF Slot
  <2>2. QED
    BY <1>2, <1>9, <2>1 DEF Filled, FreedFor
<1>10. CASE /\ lastBuffered \in Slots
            /\ writes' = w /\ freed' = f
            /\ crash' = CrashFor(writes, lastBuffered, freed)
  <2> HIDE DEF m
  <2>1. lastBuffered \notin Dangling
    BY <1>1, <1>8, <1>9, <1>10
  <2>2. QED
    BY <1>2, <1>4, <1>10, <2>1, FilledClean
<1>11. CASE /\ lastBuffered \in Slots /\ l \in Slots /\ ClearFirst
            /\ writes' = Filled(w, l, m + 1) /\ freed' = FreedFor(w, l, f)
            /\ crash' = CrashFor(w, l, f)
  <2> HIDE DEF l
  <2>1. w \in [Slots -> Slot] /\ f \subseteq Messages
    BY <1>9, <1>11
  <2>2. /\ writes'[l].msg = m + 1
        /\ \A i \in Slots : i # l => writes'[i] = w[i]
    <3> HIDE DEF w, m
    <3>1. QED
      BY <1>11, <2>1 DEF Filled
  <2>3. writes'[lastBuffered].msg \in Made /\ writes'[l].msg \in Made
    BY <1>1, <1>9, <1>11, <2>2
  <2>4. lastBuffered \notin Dangling /\ l \notin Dangling
    BY <1>8, <1>11, <2>3
  <2>5. m + 1 \in Messages /\ m + 1 \notin f /\ \A i \in Slots : w[i].msg # m + 1
    BY <1>1, <1>3, <1>4, <1>9, <1>11
  <2> HIDE DEF m
  <2>6. Clean(w, f, Dangling)
    BY <1>2, <1>4, <1>11, <2>4, FilledClean
  <2> HIDE DEF w, f
  <2>7. QED
    BY <1>11, <2>1, <2>4, <2>5, <2>6, FilledClean
<1>12. QED
  BY <1>5, <1>10, <1>11, TimerOnRing

(* Every step keeps the heap sound. *)
LEMMA HeapStep ==
  ASSUME TypeOK, PcInv, NumberInv, HeapInv, SafeUnlessTorn, [Next]_vars
  PROVE  HeapInv' /\ SafeUnlessTorn'
<1>1. /\ RingPart /\ MainPart /\ PagePart /\ MemoryPart /\ HistoryPart
      /\ \A i \in Slots : writes[i].msg \in {NULL} \cup Messages
  BY PcFacts
<1>2. /\ writes \in [Slots -> Slot] /\ lastWritten \in Slots
      /\ \A i \in Slots : writes[i].msg \in Nat /\ writes[i].msg <= Len(to)
      /\ \A m \in freed : m \in Nat /\ m <= Len(to)
      /\ Len(to) \in Nat
  <2>1. to \in Seq(1 .. MaxConns)
    BY <1>1 DEF HistoryPart
  <2>2. QED
    <3>1. Len(to) \in Nat /\ NULL \in Nat /\ \A m \in Messages : m \in Nat
      BY <2>1, LenProperties, MessageNumbers DEF NULL
    <3>2. /\ \A i \in Slots : writes[i].msg <= Len(to)
          /\ \A m \in freed : m <= Len(to)
      BY DEF NumberInv
    <3>3. \A i \in Slots : writes[i].msg \in Nat
      BY <1>1, <3>1
    <3>4. \A m \in freed : m \in Nat
      BY <1>1, <3>1 DEF MemoryPart
    <3>5. QED
      BY <1>1, <3>1, <3>2, <3>3, <3>4 DEF RingPart
<1>3. torn \subseteq torn'
  <2>1. CASE Main
    BY <2>1 DEF Main, Add, Walk, Connection, SendMsg, AddSlot, AddOccupied, AddOld, AddFreeOld,
       AddMessage, AddLength, AddCount, AddCounted, AddWrap, AddWrapped, Writeable, WalkLook,
       WalkTake, WalkWrite, WalkAgain, WalkFree, WalkNull, WalkNext, Established, Closed,
       ClearTest, ClearLoad, ClearFree, ClearNull, ClearLength, ClearNext, ClearReset,
       Disconnect, history
  <2>2. CASE Timer
    BY <2>2, TimerEffect
  <2>3. CASE UNCHANGED vars
    BY <2>3 DEF vars, history
  <2>4. QED
    BY <2>1, <2>2, <2>3 DEF Next
<1>4. SUFFICES ASSUME torn' = {}
               PROVE  HeapInv' /\ crash' = "no"
  BY DEF HeapInv, SafeUnlessTorn
<1>5. /\ crash = "no" /\ Clean(writes, freed, Dangling)
      /\ pc \in {"freeOld", "clearFree"} => reg = writes[at].msg
      /\ pc \in {"write", "free"} => reg = writes[lastWritten].msg
      /\ pc \in {"slot", "occupied", "old", "freeOld", "message"} =>
           mine \notin freed /\ \A i \in Slots : writes[i].msg # mine
  BY <1>3, <1>4 DEF HeapInv, SafeUnlessTorn
<1> DEFINE Fresh == mine \notin freed /\ \A i \in Slots : writes[i].msg # mine
<1>6. ASSUME UNCHANGED <<writes, freed, crash>>, Dangling' = Dangling,
             pc' \notin {"freeOld", "clearFree", "write", "free",
                         "slot", "occupied", "old", "message"}
      PROVE  HeapInv' /\ crash' = "no"
  BY <1>5, <1>6 DEF HeapInv
<1>7. CASE SendMsg
  <2>1. /\ UNCHANGED <<writes, freed, crash>> /\ mine' = Len(to) + 1 /\ pc' = "slot"
        /\ pc = "idle"
    BY <1>7 DEF SendMsg, Step, ring, memory
  <2>2. mine' \notin freed /\ \A i \in Slots : writes[i].msg # mine'
    BY <1>2, <2>1
  <2>3. Dangling' = {} /\ Dangling = {}
    BY <2>1 DEF Dangling
  <2>4. QED
    BY <1>5, <2>1, <2>2, <2>3 DEF HeapInv
<1>8. CASE AddSlot \/ AddOccupied \/ AddOld
  <2>1. /\ UNCHANGED <<writes, freed, crash, mine>> /\ pc \in {"slot", "occupied", "old"}
        /\ pc' \in {"occupied", "old", "freeOld", "message"}
        /\ pc' = "freeOld" => reg' = writes'[at'].msg
        /\ pc' = "message" => pc = "occupied" /\ writes[at].msg = NULL /\ at' = at
    BY <1>8 DEF AddSlot, AddOccupied, AddOld, Step, ring, memory
  <2>2. Dangling = {} /\ Dangling' = IF pc' = "message" THEN {at} ELSE {}
    BY <2>1 DEF Dangling
  <2>3. Clean(writes', freed', Dangling')
    BY <1>5, <2>1, <2>2 DEF Clean
  <2>4. QED
    BY <1>5, <2>1, <2>3 DEF HeapInv
<1>9. CASE AddFreeOld
  <2>1. /\ UNCHANGED <<writes, at, mine>> /\ pc = "freeOld" /\ pc' = "message"
        /\ reg = writes[at].msg /\ reg # NULL /\ at \in Slots /\ freed' = freed \cup {reg}
        /\ crash' = IF reg \in freed THEN "double free" ELSE crash
    BY <1>5, <1>9 DEF AddFreeOld, Step, Free, ring, PcInv
  <2>2. Dangling = {} /\ Dangling' = {at}
    BY <2>1 DEF Dangling
  <2>3. crash' = "no" /\ Clean(writes', freed', Dangling')
    BY <1>5, <2>1, <2>2, FreedClean
  <2>4. mine' \notin freed' /\ \A i \in Slots : writes'[i].msg # mine'
    BY <1>5, <2>1
  <2>5. QED
    BY <2>1, <2>3, <2>4 DEF HeapInv
<1>10. CASE AddMessage
  <2>1. /\ UNCHANGED <<freed, crash>> /\ pc = "message" /\ pc' = "length"
        /\ at \in Slots /\ writes' = [writes EXCEPT ![at].msg = mine]
    BY <1>10 DEF AddMessage, Step, memory, PcInv
  <2>2. Dangling = {at} /\ Dangling' = {}
    BY <2>1 DEF Dangling
  <2>3. \A i \in Slots : writes'[i].msg = IF i = at THEN mine ELSE writes[i].msg
    BY <1>2, <2>1 DEF Slot
  <2>4. mine \notin freed /\ \A i \in Slots : writes[i].msg # mine
    BY <1>5, <2>1
  <2>5. Clean(writes', freed', Dangling')
    <3>1. Clean(writes, freed, {at}) /\ at \in Slots
      BY <1>5, <2>1, <2>2
    <3>2. Clean(writes', freed, {})
      BY <2>3, <2>4, <3>1, ReplacedClean
    <3>3. QED
      BY <2>1, <2>2, <3>2
  <2>6. QED
    BY <1>5, <2>1, <2>5 DEF HeapInv
<1>11. CASE AddLength \/ ClearLength
  <2>1. /\ UNCHANGED <<freed, crash>> /\ pc \in {"length", "clearLength"}
        /\ pc' \in {"count", "clearNext"}
        /\ \E k : writes' = [writes EXCEPT ![at].len = k]
    BY <1>11 DEF AddLength, ClearLength, Step, memory
  <2>2. Dangling = {} /\ Dangling' = {}
    BY <2>1 DEF Dangling
  <2>3. \A i \in Slots : writes'[i].msg = writes[i].msg
    BY <1>2, <2>1 DEF Slot
  <2>4. Clean(writes', freed', Dangling')
    BY <1>5, <2>1, <2>2, <2>3, SameClean
  <2>5. QED
    BY <1>5, <2>1, <2>4 DEF HeapInv
<1>12. CASE AddCount \/ AddCounted \/ AddWrap \/ AddWrapped
  BY <1>6, <1>12 DEF AddCount, AddCounted, AddWrap, AddWrapped, Step, Dangling, ring, memory
<1>13. CASE Writeable \/ WalkLook \/ WalkNext
  BY <1>6, <1>13 DEF Writeable, First, WalkLook, WalkNext, Step, Dangling, ring, memory
<1>14. CASE WalkTake \/ WalkAgain
  <2>1. /\ UNCHANGED <<writes, freed, crash>> /\ reg' = writes'[lastWritten'].msg
        /\ pc \in {"take", "again"} /\ pc' \in {"write", "free"}
    BY <1>14 DEF WalkTake, WalkAgain, Step, ring, memory
  <2>2. Dangling = {} /\ Dangling' = {}
    BY <2>1 DEF Dangling
  <2>3. QED
    BY <1>5, <2>1, <2>2 DEF HeapInv
<1>15. CASE WalkWrite
  <2>1. /\ UNCHANGED <<writes, freed>> /\ pc = "write" /\ pc' = "again"
        /\ crash' = IF reg \in freed THEN "use after free" ELSE crash
        /\ reg = writes[lastWritten].msg /\ reg # NULL
    BY <1>5, <1>15 DEF WalkWrite, Step, ring, PcInv
  <2>2. Dangling = {} /\ Dangling' = {}
    BY <2>1 DEF Dangling
  <2>3. reg \notin freed
    BY <1>2, <1>5, <2>1, <2>2 DEF Clean
  <2>4. QED
    BY <1>5, <2>1, <2>2, <2>3 DEF HeapInv
<1>16. CASE WalkFree
  <2>1. /\ UNCHANGED <<writes, lastWritten>> /\ pc = "free" /\ pc' = "null"
        /\ reg = writes[lastWritten].msg /\ reg # NULL /\ freed' = freed \cup {reg}
        /\ crash' = IF reg \in freed THEN "double free" ELSE crash
    BY <1>5, <1>16 DEF WalkFree, Step, Free, ring, PcInv
  <2>2. Dangling = {} /\ Dangling' = {lastWritten}
    BY <2>1 DEF Dangling
  <2>3. crash' = "no" /\ Clean(writes', freed', Dangling')
    BY <1>2, <1>5, <2>1, <2>2, FreedClean
  <2>4. QED
    BY <2>1, <2>3 DEF HeapInv
<1>17. CASE WalkNull
  <2>1. /\ UNCHANGED <<freed, crash>> /\ pc = "null" /\ pc' = "next"
        /\ writes' = [writes EXCEPT ![lastWritten] = Sent(@)]
    BY <1>17 DEF WalkNull, Step, memory
  <2>2. Dangling = {lastWritten} /\ Dangling' = {}
    BY <2>1 DEF Dangling
  <2>3. \A i \in Slots : writes'[i].msg = IF i = lastWritten THEN NULL ELSE writes[i].msg
    BY <1>2, <2>1 DEF Slot, Sent
  <2>4. Clean(writes', freed', Dangling')
    BY <1>2, <1>5, <2>1, <2>2, <2>3, ReplacedClean
  <2>5. QED
    BY <1>5, <2>1, <2>4 DEF HeapInv
<1>18. CASE Established \/ Closed \/ ClearNext \/ ClearReset \/ Disconnect
  BY <1>6, <1>18 DEF Established, Closed, ClearNext, ClearReset, Disconnect, Step, Dangling,
     ring, memory
<1>19. CASE ClearTest \/ ClearLoad
  <2>1. /\ UNCHANGED <<writes, freed, crash>> /\ pc \in {"test", "clearLoad"}
        /\ pc' \in {"clearLoad", "clearFree", "clearNull"}
        /\ pc' = "clearFree" => reg' = writes'[at'].msg
        /\ pc' = "clearNull" => writes[at].msg = NULL /\ at' = at
    BY <1>19 DEF ClearTest, ClearLoad, Step, ring, memory
  <2>2. Dangling = {} /\ Dangling' = IF pc' = "clearNull" THEN {at} ELSE {}
    BY <2>1 DEF Dangling
  <2>3. Clean(writes', freed', Dangling')
    BY <1>5, <2>1, <2>2 DEF Clean
  <2>4. QED
    BY <1>5, <2>1, <2>3 DEF HeapInv
<1>20. CASE ClearFree
  <2>1. /\ UNCHANGED <<writes, at>> /\ pc = "clearFree" /\ pc' = "clearNull"
        /\ reg = writes[at].msg /\ reg # NULL /\ at \in Slots /\ freed' = freed \cup {reg}
        /\ crash' = IF reg \in freed THEN "double free" ELSE crash
    BY <1>5, <1>20 DEF ClearFree, Step, Free, ring, PcInv, ClearSteps
  <2>2. Dangling = {} /\ Dangling' = {at}
    BY <2>1 DEF Dangling
  <2>3. crash' = "no" /\ Clean(writes', freed', Dangling')
    BY <1>5, <2>1, <2>2, FreedClean
  <2>4. QED
    BY <2>1, <2>3 DEF HeapInv
<1>21. CASE ClearNull
  <2>1. /\ UNCHANGED <<freed, crash>> /\ pc = "clearNull" /\ pc' = "clearLength"
        /\ at \in Slots /\ writes' = [writes EXCEPT ![at].msg = NULL]
    BY <1>21 DEF ClearNull, Step, memory, PcInv, ClearSteps
  <2>2. Dangling = {at} /\ Dangling' = {}
    BY <2>1 DEF Dangling
  <2>3. \A i \in Slots : writes'[i].msg = IF i = at THEN NULL ELSE writes[i].msg
    BY <1>2, <2>1 DEF Slot
  <2>4. Clean(writes', freed', Dangling')
    <3>1. Clean(writes, freed, {at}) /\ at \in Slots
      BY <1>5, <2>1, <2>2
    <3>2. Clean(writes', freed, {})
      BY <2>3, <3>1, ReplacedClean
    <3>3. QED
      BY <2>1, <2>2, <3>2
  <2>5. QED
    BY <1>5, <2>1, <2>4 DEF HeapInv
<1>22. CASE Timer
  <2>1. Made # {}
    BY <1>22, TimerEffect, MadeTypes
  <2>2. /\ UNCHANGED <<lastWritten, pc, at, reg, mine>>
        /\ torn' = torn \cup (IF Strikes THEN Made ELSE {})
                        \cup (IF pc \in AddSteps THEN {mine} ELSE {})
    BY <1>22, TimerEffect
  <2>3. ~Strikes
    BY <1>4, <2>1, <2>2
  <2>4. pc \notin AddSteps \cup ClearSteps
    BY <2>3 DEF Strikes
  <2>5. crash' = "no" /\ Clean(writes', freed', Dangling)
    BY <1>5, <1>22, <2>3, TimerClean
  <2>6. Dangling' = Dangling
    BY <2>2 DEF Dangling
  <2>7. pc \in {"write", "free"} => reg = writes'[lastWritten].msg
    BY <1>5, <2>3 DEF Strikes, AtHand, WalkSteps
  <2>8. pc' \notin {"freeOld", "clearFree", "slot", "occupied", "old", "message"}
    BY <2>2, <2>4 DEF AddSteps, ClearSteps
  <2>9. QED
    BY <2>2, <2>5, <2>6, <2>7, <2>8 DEF HeapInv
<1>23. CASE UNCHANGED vars
  BY <1>5, <1>23 DEF vars, ring, main, memory, HeapInv, Dangling
<1>24. QED
  BY <1>7, <1>8, <1>9, <1>10, <1>11, <1>12, <1>13, <1>14, <1>15, <1>16, <1>17, <1>18, <1>19,
     <1>20, <1>21, <1>22, <1>23 DEF Next, Main, Add, Walk, Connection

-----------------------------------------------------------------------------
(* The soundness of the ring. *)

(* The inductive invariant holds first, *)
LEMMA RingInit == Init => RingIInv
<1> SUFFICES ASSUME Init PROVE RingIInv
  OBVIOUS
<1>1. TypeOK
  <2>1. HistoryPart
    BY MessageNumbers DEF Init, HistoryPart
  <2>2. RingPart /\ MainPart /\ PagePart /\ MemoryPart
    BY NAssumption, MessageNumbers DEF Init, RingPart, MainPart, PagePart, MemoryPart, Slots, Slot
  <2>3. NumberInv
    BY DEF Init, NumberInv, AddSteps, NULL
  <2>4. QED
    BY <2>1, <2>2, <2>3, TypeParts
<1>2. PcInv
  BY NAssumption DEF Init, PcInv, ClearSteps
<1>3. NumberInv
  BY DEF Init, NumberInv, AddSteps, NULL
<1>4. HeapInv /\ SafeUnlessTorn
  BY DEF Init, HeapInv, SafeUnlessTorn, Clean
<1>5. QED
  BY <1>1, <1>2, <1>3, <1>4 DEF RingIInv

(* after every step, *)
LEMMA RingStep == RingIInv /\ [Next]_vars => RingIInv'
<1> SUFFICES ASSUME RingIInv, [Next]_vars PROVE RingIInv'
  OBVIOUS
<1>1. TypeOK /\ PcInv /\ NumberInv /\ HeapInv /\ SafeUnlessTorn
  BY DEF RingIInv
<1>2. PcInv' /\ NumberInv'
  BY <1>1, PcStep, NumberStep
<1>3. TypeOK'
  <2>1. CASE UNCHANGED vars
    BY <1>1, <2>1 DEF vars, ring, main, page, memory, history, TypeOK
  <2>2. QED
    BY <1>1, <1>2, <2>1, MainTypes, TimerTypes DEF Next
<1>4. HeapInv' /\ SafeUnlessTorn'
  BY <1>1, HeapStep
<1>5. QED
  BY <1>2, <1>3, <1>4 DEF RingIInv

(* and so always. *)
LEMMA RingIInvAlways == Spec => []RingIInv
BY RingInit, RingStep, PTL DEF Spec

(* RingSound, for every ring size and any interleaving of the handler with *)
(* the main thread: the cursors stay on the ring, or one past its end      *)
(* between the two stores that count a message, and nothing is freed       *)
(* twice, used after it was freed or stored out of bounds unless the       *)
(* handler came between the instructions of an add or of a clear, or put   *)
(* a message where a walk had one at hand.  A full ring does no harm.      *)
THEOREM RingSoundAlways == Spec => []RingSound
<1>1. RingIInv => RingSound
  BY DEF RingIInv, RingSound
<1>2. QED
  BY <1>1, RingIInvAlways, PTL

-----------------------------------------------------------------------------
(* The messages that BystandersUnharmed says nothing of. *)
Involved == {NULL} \cup torn \cup (IF pc \in AddSteps THEN {mine} ELSE {})

(* How many messages ago a slot was filled, at least, if the next one goes *)
(* to slot c of a ring that was filled in order.                           *)
Age(c, i) == IF i < c THEN c - i ELSE c + N - i

(* Except for messages X, the messages in w are as old as their slots say, *)
(* when n messages were made.                                              *)
Aged(w, c, n, X) ==
  \A i \in Slots : w[i].msg \notin X => Age(c, i) <= n - w[i].msg + 1

(* The cursors, also the one that an add has loaded.  Its message counts   *)
(* as made before it is counted on the ring.                               *)
AgeInv ==
  /\ Aged(writes, lastBuffered,
          IF pc \in AddSteps \ {"wrap", "wrapped"} THEN Len(to) - 1 ELSE Len(to), Involved)
  /\ pc = "counted" => Aged(writes, at + 1, Len(to), Involved)
  /\ pc = "wrapped" => Aged(writes, at, Len(to), Involved)
  /\ pc \in {"occupied", "old", "freeOld", "message"} /\ writes[at].msg \notin Involved
       => Len(to) - writes[at].msg >= N

(* The slots that a clear has passed. *)
Cleared ==
  CASE pc \in {"test", "clearLoad", "clearFree", "clearNull"} -> 0 .. at - 1
    [] pc \in {"clearLength", "clearNext"} -> 0 .. at
    [] pc \in {"reset", "disconnect"} -> Slots
    [] OTHER -> {}

(* What is in the ring is whole, and of the page's connection. *)
SlotInv ==
  /\ \A i \in Slots : writes[i].msg \notin Involved =>
       /\ writes[i].len = writes[i].msg /\ to[writes[i].msg] = conn /\ socketInstance
       /\ i \notin Cleared
  /\ pc = "length" => writes[at].msg \in Involved
  /\ \A m \in 1 .. Len(to) : to[m] <= conn

(* What was sent, and what the walk is about to send. *)
SentInv ==
  /\ \A s \in sent :
       /\ s.msg <= Len(to)
       /\ s.msg \notin Involved => s.len = s.msg /\ s.conn = to[s.msg]
       /\ pc \in AddSteps => s.msg # mine
  /\ pc = "write" => /\ reg \notin Involved => len = reg /\ to[reg] = conn
                     /\ writes[lastWritten].msg \notin Involved => reg = writes[lastWritten].msg
  /\ pc \in {"again", "free", "null"} /\ writes[lastWritten].msg \notin Involved
       => \E s \in sent : s.msg = writes[lastWritten].msg

(* Where the message of an add that was not interrupted is. *)
Cell == IF pc \in {"count", "counted"} THEN lastBuffered
        ELSE IF pc = "wrapped" THEN at - 1 ELSE at

AddInv ==
  pc \in AddSteps /\ mine \notin torn =>
    /\ mine = Len(to) /\ to[mine] = conn
    /\ pc \in {"occupied", "old", "freeOld", "message", "length", "counted", "wrapped"}
         => at = lastBuffered
    /\ pc = "wrap" => at + 1 = lastBuffered
    /\ pc \in {"slot", "occupied", "old", "freeOld", "message"}
         => \A i \in Slots : writes[i].msg # mine
    /\ pc = "length" => writes[at].msg = mine
    /\ pc \in {"count", "counted", "wrap", "wrapped"}
         => Cell \in Slots /\ writes[Cell] = [msg |-> mine, len |-> mine]
    /\ pc \in {"length", "count", "counted", "wrap", "wrapped"}
         => \A i \in Slots : writes[i].msg = mine => i = Cell

(* Sent, in the ring, or pushed out by N others. *)
Has(w, m) == \E i \in Slots : w[i] = [msg |-> m, len |-> m]
HoldInv ==
  \A m \in 1 .. Len(to) :
    m \notin Involved /\ Lasts(m) =>
      (\E s \in sent : s.msg = m) \/ Has(writes, m) \/ Len(to) - m >= N

BystanderInv == crash = "no" => AgeInv /\ SlotInv /\ SentInv /\ AddInv /\ HoldInv

-----------------------------------------------------------------------------
(* Ages. *)

LEMMA AgeIs ==
  ASSUME NEW i \in Slots, NEW c \in 0 .. N
  PROVE  /\ Age(c, i) \in 1 .. N /\ Age(c, i) \in Int /\ Age(Wrapped(c), i) = Age(c, i)
         /\ c = i => Age(c, i) = N
         /\ c \in Slots => Age(c + 1, i) = IF c = i THEN 1 ELSE Age(c, i) + 1
<1>1. N \in Nat /\ N > 0 /\ i \in Int /\ 0 <= i /\ i < N /\ c \in Int /\ 0 <= c /\ c <= N
  BY NAssumption DEF Slots
<1>2. Wrapped(c) = IF c = N THEN 0 ELSE c
  BY WrappedIs
<1>3. Age(c, i) \in 1 .. N /\ Age(c, i) \in Int /\ Age(Wrapped(c), i) = Age(c, i)
  BY <1>1, <1>2 DEF Age
<1>4. c = i => Age(c, i) = N
  BY <1>1 DEF Age
<1>5. c \in Slots => Age(c + 1, i) = IF c = i THEN 1 ELSE Age(c, i) + 1
  BY <1>1 DEF Age, Slots
<1>6. QED
  BY <1>3, <1>4, <1>5

(* Slots that only get messages of X do not matter, nor later messages. *)
LEMMA SameAged ==
  ASSUME NEW w, NEW v, NEW c, NEW n \in Int, NEW k \in Int, n <= k, NEW X, NEW Y, X \subseteq Y,
         Aged(w, c, n, X), c \in 0 .. N,
         \A i \in Slots : w[i].msg \in Int,
         \A i \in Slots : v[i].msg = w[i].msg \/ v[i].msg \in Y
  PROVE  Aged(v, c, k, Y)
<1> SUFFICES ASSUME NEW i \in Slots, v[i].msg \notin Y
             PROVE  Age(c, i) <= k - v[i].msg + 1
  BY DEF Aged
<1>1. v[i].msg = w[i].msg /\ w[i].msg \in Int /\ w[i].msg \notin X
  OBVIOUS
<1>2. Age(c, i) <= n - w[i].msg + 1
  BY <1>1 DEF Aged
<1>3. Age(c, i) \in Int
  BY AgeIs
<1>4. QED
  BY <1>1, <1>2, <1>3

(* The next cursor, and one message more. *)
LEMMA NextAged ==
  ASSUME NEW w, NEW c \in Slots, NEW n \in Int, NEW X, Aged(w, c, n, X),
         \A i \in Slots : w[i].msg \in Int,
         w[c].msg \in X \/ w[c].msg <= n + 1
  PROVE  Aged(w, c + 1, n + 1, X)
<1> SUFFICES ASSUME NEW i \in Slots, w[i].msg \notin X
             PROVE  Age(c + 1, i) <= n + 1 - w[i].msg + 1
  BY DEF Aged
<1>1. w[i].msg \in Int /\ Age(c, i) <= n - w[i].msg + 1
  BY DEF Aged
<1>2. c \in 0 .. N
  BY NAssumption DEF Slots
<1>3. /\ Age(c, i) \in Int
      /\ Age(c + 1, i) = IF c = i THEN 1 ELSE Age(c, i) + 1
  BY <1>2, AgeIs
<1>4. QED
  BY <1>1, <1>3

(* A cursor at the end is one at the start. *)
LEMMA WrappedAged ==
  ASSUME NEW w, NEW c \in 0 .. N, NEW n, NEW X, Aged(w, c, n, X)
  PROVE  Aged(w, Wrapped(c), n, X)
BY AgeIs DEF Aged

(* A message in the slot of the cursor. *)
LEMMA ReplacedAged ==
  ASSUME NEW w, NEW v, NEW c \in Slots, NEW n \in Int, NEW X, Aged(w, c, n, X),
         \A i \in Slots : w[i].msg \in Int,
         NEW m \in Int, m \in X \/ m <= n + 1,
         \A i \in Slots : v[i].msg = IF i = c THEN m ELSE w[i].msg
  PROVE  Aged(v, c + 1, n + 1, X)
<1> SUFFICES ASSUME NEW i \in Slots, v[i].msg \notin X
             PROVE  Age(c + 1, i) <= n + 1 - v[i].msg + 1
  BY DEF Aged
<1>1. c \in 0 .. N
  BY NAssumption DEF Slots
<1>2. Age(c, i) \in Int /\ Age(c + 1, i) = IF c = i THEN 1 ELSE Age(c, i) + 1
  BY <1>1, AgeIs
<1>3. CASE i = c
  BY <1>2, <1>3
<1>4. CASE i # c
  <2>1. v[i].msg = w[i].msg /\ w[i].msg \in Int /\ Age(c, i) <= n - w[i].msg + 1
    BY <1>4 DEF Aged
  <2>2. QED
    BY <1>2, <1>4, <2>1
<1>5. QED
  BY <1>3, <1>4

(* The same, with the cursor moved on. *)
LEMMA FilledAged ==
  ASSUME NEW w \in [Slots -> Slot], NEW c \in Slots, NEW n \in Int, NEW X, Aged(w, c, n, X),
         \A i \in Slots : w[i].msg \in Int,
         NEW m \in Int, m \in X \/ m <= n + 1
  PROVE  Aged(Filled(w, c, m), Wrapped(c + 1), n + 1, X)
<1>1. \A i \in Slots : Filled(w, c, m)[i].msg = IF i = c THEN m ELSE w[i].msg
  BY DEF Filled
<1>2. Aged(Filled(w, c, m), c + 1, n + 1, X)
  BY <1>1, ReplacedAged
<1>3. c + 1 \in 0 .. N
  BY NAssumption DEF Slots
<1>4. QED
  BY <1>2, <1>3, WrappedAged

(* A message of S, in the ring, or pushed out. *)
Held(w, n, X, S) == \A m \in 1 .. n : m \notin X => m \in S \/ Has(w, m) \/ n - m >= N

(* What the cursor's slot holds is old enough to be pushed out. *)
LEMMA FilledHeld ==
  ASSUME NEW w \in [Slots -> Slot], NEW c \in Slots, NEW n \in Nat, NEW X, Aged(w, c, n, X),
         NEW S, Held(w, n, X, S)
  PROVE  Held(Filled(w, c, n + 1), n + 1, X, S)
<1> DEFINE v == Filled(w, c, n + 1)
<1>1. v[c] = [msg |-> n + 1, len |-> n + 1] /\ \A i \in Slots : i # c => v[i] = w[i]
  BY DEF Filled
<1> HIDE DEF v
<1> SUFFICES ASSUME NEW m \in 1 .. n + 1, m \notin X
             PROVE  m \in S \/ Has(v, m) \/ n + 1 - m >= N
  BY DEF Held, v
<1>2. CASE m = n + 1
  BY <1>1, <1>2 DEF Has
<1>3. CASE m # n + 1
  <2>1. m \in 1 .. n
    BY <1>3
  <2>2. m \in S \/ Has(w, m) \/ n - m >= N
    BY <2>1 DEF Held
  <2>3. ASSUME n - m >= N PROVE n + 1 - m >= N
    BY <2>1, <2>3, NAssumption
  <2>4. ASSUME NEW i \in Slots, w[i] = [msg |-> m, len |-> m]
        PROVE  Has(v, m) \/ n + 1 - m >= N
    <3>1. CASE i # c
      BY <1>1, <2>4, <3>1 DEF Has
    <3>2. CASE i = c
      <4>1. w[i].msg = m
        BY <2>4
      <4>2. Age(c, i) <= n - m + 1
        BY <4>1 DEF Aged
      <4>3. c \in 0 .. N
        BY NAssumption DEF Slots
      <4>4. Age(c, i) = N
        BY <3>2, <4>3, AgeIs
      <4>5. QED
        BY <2>1, <4>2, <4>4, NAssumption
    <3>3. QED
      BY <3>1, <3>2
  <2>5. QED
    BY <2>2, <2>3, <2>4 DEF Has
<1>4. QED
  BY <1>2, <1>3

-----------------------------------------------------------------------------
(* Bystanders and the main thread. *)

(* The instructions that take no message up, nor let one go. *)
AddOther ==
  \/ AddSlot \/ AddOccupied \/ AddOld \/ AddFreeOld \/ AddMessage \/ AddLength
  \/ AddCount \/ AddCounted \/ AddWrap
Other == AddOther \/ Walk \/ Connection

(* Who is involved after an instruction. *)
LEMMA InvolvedIs ==
  ASSUME TypeOK
  PROVE  /\ NULL \in Involved /\ NULL \in Involved' /\ (pc \in AddSteps => mine \in Involved)
         /\ Other => /\ Involved' = Involved /\ UNCHANGED <<to, mine, torn>>
                     /\ pc' \in AddSteps <=> pc \in AddSteps
         /\ SendMsg => Involved' = Involved \cup {mine'} /\ pc \notin AddSteps /\ pc' \in AddSteps
         /\ AddWrapped => /\ Involved = Involved' \cup {mine} /\ UNCHANGED <<to, mine, torn>>
                          /\ Involved' = {NULL} \cup torn
                          /\ pc \in AddSteps /\ pc' \notin AddSteps
<1>1. ASSUME UNCHANGED <<to, mine, torn>>, pc' \in AddSteps <=> pc \in AddSteps
      PROVE  Other => /\ Involved' = Involved /\ UNCHANGED <<to, mine, torn>>
                      /\ pc' \in AddSteps <=> pc \in AddSteps
  BY <1>1 DEF Involved
<1>2. AddOther => UNCHANGED <<to, mine, torn>> /\ pc' \in AddSteps /\ pc \in AddSteps
  BY DEF AddOther, AddSlot, AddOccupied, AddOld, AddFreeOld, AddMessage, AddLength, AddCount,
     AddCounted, AddWrap, Step, AddSteps, history
<1>3. Walk => UNCHANGED <<to, mine, torn>> /\ pc' \notin AddSteps /\ pc \notin AddSteps
  BY DEF Walk, Writeable, First, WalkLook, WalkTake, WalkWrite, WalkAgain, WalkFree, WalkNull,
     WalkNext, Step, AddSteps, history
<1>4. Connection => UNCHANGED <<to, mine, torn>> /\ pc' \notin AddSteps /\ pc \notin AddSteps
  BY DEF Connection, Established, Closed, ClearTest, ClearLoad, ClearFree, ClearNull,
     ClearLength, ClearNext, ClearReset, Disconnect, Step, AddSteps, main, history
<1>5. SendMsg => Involved' = Involved \cup {mine'} /\ pc \notin AddSteps /\ pc' \in AddSteps
  BY DEF SendMsg, Step, AddSteps, Involved
<1>6. AddWrapped => /\ Involved = Involved' \cup {mine} /\ UNCHANGED <<to, mine, torn>>
                    /\ Involved' = {NULL} \cup torn
                    /\ pc \in AddSteps /\ pc' \notin AddSteps
  BY DEF AddWrapped, Step, AddSteps, Involved, history
<1>7. NULL \in Involved /\ NULL \in Involved' /\ (pc \in AddSteps => mine \in Involved)
  BY DEF Involved
<1>8. QED
  BY <1>1, <1>2, <1>3, <1>4, <1>5, <1>6, <1>7 DEF Other

(* What the lemmas below need of the types. *)
LEMMA RingFacts ==
  ASSUME TypeOK, PcInv, NumberInv
  PROVE  /\ writes \in [Slots -> Slot] /\ lastWritten \in Slots /\ lastBuffered \in 0 .. N
         /\ lastBuffered \notin Slots => pc \in {"wrap", "wrapped"}
         /\ at \in 0 .. N /\ Slots \subseteq 0 .. N /\ N \in Nat /\ N > 0
         /\ to \in Seq(1 .. MaxConns) /\ Len(to) \in Nat /\ conn \in Nat
         /\ \A i \in Slots : writes[i].msg \in Nat /\ writes[i].msg <= Len(to)
         /\ \A s \in sent : s.msg \in Nat /\ s.msg # NULL
         /\ reg \in Nat /\ reg <= Len(to) /\ NULL = 0
<1>1. /\ RingPart /\ MainPart /\ PagePart /\ MemoryPart /\ HistoryPart
      /\ Slots \subseteq 0 .. N
      /\ \A i \in Slots : writes[i].msg \in {NULL} \cup Messages
      /\ lastBuffered \notin Slots => pc \in {"wrap", "wrapped"}
  BY PcFacts
<1>2. to \in Seq(1 .. MaxConns) /\ Len(to) \in Nat
  <2>1. to \in Seq(1 .. MaxConns)
    BY <1>1 DEF HistoryPart
  <2>2. QED
    BY <2>1, LenProperties
<1>3. NULL = 0 /\ NULL \notin Messages /\ \A m \in {NULL} \cup Messages : m \in Nat
  BY MessageNumbers DEF NULL
<1>4. /\ \A i \in Slots : writes[i].msg <= Len(to)
      /\ reg <= Len(to)
  BY DEF NumberInv
<1>5. \A i \in Slots : writes[i].msg \in Nat
  BY <1>1, <1>3
<1>6. \A s \in sent : s.msg \in Nat /\ s.msg # NULL
  <2>1. \A s \in sent : s \in [msg : Messages, len : {NULL} \cup Messages, conn : 1 .. MaxConns]
    BY <1>1 DEF HistoryPart
  <2>2. \A s \in sent : s.msg \in Messages
    BY <2>1
  <2>3. QED
    BY <1>3, <2>2
<1>7. N \in Nat /\ N > 0
  BY NAssumption
<1>8. reg \in Nat /\ at \in 0 .. N /\ conn \in Nat
  BY <1>1, <1>3, MessageNumbers DEF MainPart, PagePart
<1>9. QED
  BY <1>1, <1>2, <1>3, <1>4, <1>5, <1>6, <1>7, <1>8 DEF RingPart

(* Early: the message of the add is made and not counted. *)
Early == pc \in AddSteps \ {"wrap", "wrapped"}

(* The main thread keeps the ages, *)
LEMMA AgeMain ==
  ASSUME TypeOK, PcInv, NumberInv, AgeInv, SlotInv, AddInv, Main
  PROVE  AgeInv'
<1> DEFINE n == IF Early THEN Len(to) - 1 ELSE Len(to)
<1>1. /\ writes \in [Slots -> Slot] /\ lastBuffered \in 0 .. N
      /\ lastBuffered \notin Slots => pc \in {"wrap", "wrapped"}
      /\ at \in 0 .. N /\ Slots \subseteq 0 .. N /\ N \in Nat /\ N > 0
      /\ Len(to) \in Nat /\ n \in Int /\ n <= Len(to) /\ to \in Seq(1 .. MaxConns)
      /\ \A i \in Slots : writes[i].msg \in Int /\ writes[i].msg \in Nat
                          /\ writes[i].msg <= Len(to)
  BY RingFacts
<1>2. /\ Aged(writes, lastBuffered, n, Involved)
      /\ pc = "counted" => Aged(writes, at + 1, Len(to), Involved)
      /\ pc = "wrapped" => Aged(writes, at, Len(to), Involved)
      /\ pc \in {"occupied", "old", "freeOld", "message"} /\ writes[at].msg \notin Involved
           => Len(to) - writes[at].msg >= N
  BY DEF AgeInv, Early
<1>3. /\ NULL \in Involved /\ NULL \in Involved' /\ (pc \in AddSteps => mine \in Involved)
  BY InvolvedIs
<1>4. ASSUME Other
      PROVE  /\ Involved' = Involved /\ UNCHANGED <<to, mine, torn>>
             /\ pc' \in AddSteps <=> pc \in AddSteps
  BY <1>4, InvolvedIs
(* The ring is unchanged, or loses messages. *)
<1>5. ASSUME Other, UNCHANGED lastBuffered, pc' \notin AddSteps,
             \A i \in Slots : writes'[i].msg = writes[i].msg \/ writes'[i].msg = NULL
      PROVE  AgeInv'
  <2>1. n = Len(to) /\ Involved' = Involved /\ to' = to
    BY <1>4, <1>5 DEF Early
  <2>2. Aged(writes', lastBuffered, Len(to), Involved)
    <3>1. \A i \in Slots : writes'[i].msg = writes[i].msg \/ writes'[i].msg \in Involved
      BY <1>3, <1>5
    <3>2. Aged(writes, lastBuffered, Len(to), Involved) /\ Len(to) \in Int /\ Len(to) <= Len(to)
      BY <1>1, <1>2, <2>1
    <3>3. QED
      BY <1>1, <3>1, <3>2, SameAged
  <2>3. pc' \notin {"counted", "wrapped", "occupied", "old", "freeOld", "message"}
    BY <1>5 DEF AddSteps
  <2>4. QED
    BY <1>5, <2>1, <2>2, <2>3 DEF AgeInv
<1>6. CASE \/ Writeable \/ WalkLook \/ WalkTake \/ WalkWrite \/ WalkAgain \/ WalkFree
           \/ WalkNext
  <2>1. Other /\ UNCHANGED <<writes, lastBuffered>> /\ pc' \notin AddSteps
    BY <1>6 DEF Other, Walk, Writeable, First, WalkLook, WalkTake, WalkWrite, WalkAgain,
       WalkFree, WalkNext, Step, AddSteps, ring
  <2>2. QED
    BY <1>5, <2>1
<1>7. CASE \/ Established \/ Closed \/ ClearTest \/ ClearLoad \/ ClearFree \/ ClearNext
           \/ Disconnect
  <2>1. Other /\ UNCHANGED <<writes, lastBuffered>> /\ pc' \notin AddSteps
    BY <1>7 DEF Other, Connection, Established, Closed, ClearTest, ClearLoad, ClearFree,
       ClearNext, Disconnect, Step, AddSteps, ring
  <2>2. QED
    BY <1>5, <2>1
<1>8. CASE WalkNull \/ ClearNull \/ ClearLength
  <2>1. Other /\ UNCHANGED lastBuffered /\ pc' \notin AddSteps
    BY <1>8 DEF Other, Walk, Connection, WalkNull, ClearNull, ClearLength, Step, AddSteps
  <2>2. \A i \in Slots : writes'[i].msg = writes[i].msg \/ writes'[i].msg = NULL
    BY <1>1, <1>8 DEF WalkNull, Sent, ClearNull, ClearLength, Slot
  <2>3. QED
    BY <1>5, <2>1, <2>2
<1>9. CASE ClearReset
  <2>1. /\ Other /\ lastBuffered' = 0 /\ pc = "reset" /\ pc' = "disconnect"
        /\ UNCHANGED writes
    BY <1>9 DEF Other, Connection, ClearReset, Step
  <2>2. \A i \in Slots : writes[i].msg \in Involved
    BY <2>1 DEF SlotInv, Cleared
  <2>3. Aged(writes', lastBuffered', Len(to), Involved)
    BY <2>1, <2>2 DEF Aged
  <2>4. QED
    BY <1>4, <2>1, <2>3 DEF AgeInv, AddSteps
<1>10. CASE SendMsg
  <2>1. /\ UNCHANGED <<writes, lastBuffered>> /\ to' = Append(to, conn) /\ pc' = "slot"
        /\ Involved \subseteq Involved' /\ n = Len(to)
    BY <1>10, InvolvedIs DEF SendMsg, Step, ring, Early
  <2>2. Len(to') = Len(to) + 1
    BY <1>1, <2>1
  <2>3. Aged(writes', lastBuffered, Len(to') - 1, Involved')
    <3>1. Aged(writes, lastBuffered, Len(to), Involved) /\ Len(to) \in Int /\ Len(to) <= Len(to)
      BY <1>1, <1>2, <2>1
    <3>2. Aged(writes, lastBuffered, Len(to), Involved')
      BY <1>1, <2>1, <3>1, SameAged
    <3>3. Len(to') - 1 = Len(to)
      BY <1>1, <2>2
    <3>4. QED
      BY <2>1, <3>2, <3>3
  <2>4. QED
    BY <2>1, <2>3 DEF AgeInv, AddSteps
<1>11. CASE AddOccupied \/ AddOld \/ AddFreeOld
  <2>1. /\ Other /\ UNCHANGED <<writes, lastBuffered, at>>
        /\ pc \in {"occupied", "old", "freeOld"} /\ pc' \in {"old", "freeOld", "message"}
    BY <1>11 DEF Other, AddOther, AddOccupied, AddOld, AddFreeOld, Step, ring
  <2>2. QED
    BY <1>2, <1>4, <2>1 DEF AgeInv, AddSteps, Early
<1>12. CASE AddSlot
  <2>1. /\ Other /\ UNCHANGED <<writes, lastBuffered>> /\ at' = lastBuffered
        /\ pc = "slot" /\ pc' = "occupied"
    BY <1>12 DEF Other, AddOther, AddSlot, Step, ring
  <2>2. lastBuffered \in Slots /\ n = Len(to) - 1
    BY <1>1, <2>1 DEF Early, AddSteps
  <2>3. ASSUME writes[lastBuffered].msg \notin Involved
        PROVE  Len(to) - writes[lastBuffered].msg >= N
    <3>1. Age(lastBuffered, lastBuffered) = N
      BY <1>1, <2>2, AgeIs
    <3>2. Age(lastBuffered, lastBuffered) <= n - writes[lastBuffered].msg + 1
      BY <1>2, <2>2, <2>3 DEF Aged
    <3>3. QED
      BY <1>1, <2>2, <3>1, <3>2
  <2>4. QED
    BY <1>2, <1>4, <2>1, <2>2, <2>3 DEF AgeInv, AddSteps
<1>13. CASE AddMessage \/ AddLength
  <2>1. /\ Other /\ UNCHANGED lastBuffered
        /\ pc \in {"message", "length"} /\ pc' \in {"length", "count"}
    BY <1>13 DEF Other, AddOther, AddMessage, AddLength, Step
  <2>2. mine \in Involved /\ n = Len(to) - 1
    BY <1>3, <2>1 DEF AddSteps, Early
  <2>3. \A i \in Slots : writes'[i].msg = writes[i].msg \/ writes'[i].msg = mine
    BY <1>1, <1>13 DEF AddMessage, AddLength, Slot
  <2>4. Aged(writes', lastBuffered, n, Involved)
    <3> HIDE DEF n
    <3>1. \A i \in Slots : writes'[i].msg = writes[i].msg \/ writes'[i].msg \in Involved
      BY <2>2, <2>3
    <3>2. n \in Int /\ n <= n
      BY <1>1
    <3>3. QED
      BY <1>1, <1>2, <3>1, <3>2, SameAged
  <2>5. QED
    BY <1>4, <2>1, <2>2, <2>4 DEF AgeInv, AddSteps
<1>14. CASE AddCount
  <2>1. /\ Other /\ UNCHANGED <<writes, lastBuffered>> /\ at' = lastBuffered
        /\ pc = "count" /\ pc' = "counted"
    BY <1>14 DEF Other, AddOther, AddCount, Step, ring
  <2>2. lastBuffered \in Slots /\ n = Len(to) - 1
    BY <1>1, <2>1 DEF Early, AddSteps
  <2>3. Aged(writes, lastBuffered + 1, n + 1, Involved)
    BY <1>1, <1>2, <2>2, NextAged
  <2>4. n + 1 = Len(to)
    BY <1>1, <2>2
  <2>5. QED
    BY <1>2, <1>4, <2>1, <2>2, <2>3, <2>4 DEF AgeInv, AddSteps
<1>15. CASE AddCounted \/ AddWrap
  <2>1. /\ Other /\ UNCHANGED writes /\ pc \in {"counted", "wrap"}
        /\ \/ pc = "counted" /\ lastBuffered' = at + 1 /\ pc' = "wrap"
           \/ /\ pc = "wrap" /\ UNCHANGED lastBuffered /\ at' = lastBuffered
              /\ pc' = "wrapped"
    BY <1>15 DEF Other, AddOther, AddCounted, AddWrap, Step, ring
  <2>2. pc = "wrap" => n = Len(to)
    BY DEF Early
  <2>3. QED
    BY <1>2, <1>4, <2>1, <2>2 DEF AgeInv, AddSteps
<1>16. CASE AddWrapped
  <2>1. /\ UNCHANGED <<writes, to>> /\ lastBuffered' = Wrapped(at) /\ pc = "wrapped"
        /\ pc' = "idle" /\ Involved = Involved' \cup {mine} /\ Involved' = {NULL} \cup torn
    BY <1>16, InvolvedIs DEF AddWrapped, Step
  <2>2. ASSUME NEW i \in Slots, writes[i].msg = mine, mine \notin torn
        PROVE  Age(at, i) <= Len(to) - writes[i].msg + 1
    <3>1. i = at - 1 /\ mine = Len(to)
      BY <2>1, <2>2 DEF AddInv, AddSteps, Cell
    <3>2. at \in 0 .. N /\ i \in Int /\ i < at
      BY <1>1, <2>2, <3>1 DEF Slots
    <3>3. Age(at, i) = 1
      BY <3>1, <3>2 DEF Age
    <3>4. QED
      BY <1>1, <2>2, <3>1, <3>3
  <2>3. Aged(writes, at, Len(to), Involved')
    <3> SUFFICES ASSUME NEW i \in Slots, writes[i].msg \notin Involved'
                 PROVE  Age(at, i) <= Len(to) - writes[i].msg + 1
      BY DEF Aged
    <3>1. CASE writes[i].msg \in Involved
      BY <2>1, <2>2, <3>1
    <3>2. CASE writes[i].msg \notin Involved
      BY <1>2, <2>1, <3>2 DEF Aged
    <3>3. QED
      BY <3>1, <3>2
  <2>4. Aged(writes, Wrapped(at), Len(to), Involved')
    BY <1>1, <2>3, WrappedAged
  <2>5. QED
    BY <2>1, <2>4 DEF AgeInv, AddSteps
<1>17. QED
  BY <1>6, <1>7, <1>8, <1>9, <1>10, <1>11, <1>12, <1>13, <1>14, <1>15, <1>16
     DEF Main, Add, Walk, Connection

(* what the slots hold, *)
LEMMA SlotMain ==
  ASSUME TypeOK, PcInv, NumberInv, SlotInv, AddInv, Main
  PROVE  SlotInv'
<1>1. /\ writes \in [Slots -> Slot] /\ lastWritten \in Slots
      /\ at \in 0 .. N /\ N \in Nat /\ N > 0
      /\ to \in Seq(1 .. MaxConns) /\ Len(to) \in Nat /\ conn \in Nat
      /\ \A i \in Slots : writes[i].msg \in Nat /\ writes[i].msg <= Len(to)
      /\ NULL = 0
  BY RingFacts
<1>2. /\ \A i \in Slots : writes[i].msg \notin Involved =>
           /\ writes[i].len = writes[i].msg /\ to[writes[i].msg] = conn /\ socketInstance
           /\ i \notin Cleared
      /\ pc = "length" => writes[at].msg \in Involved
      /\ \A m \in 1 .. Len(to) : to[m] <= conn
  BY DEF SlotInv
<1>3. NULL \in Involved /\ NULL \in Involved' /\ (pc \in AddSteps => mine \in Involved)
  BY InvolvedIs
<1>4. ASSUME Other
      PROVE  /\ Involved' = Involved /\ UNCHANGED <<to, mine, torn>>
             /\ pc' \in AddSteps <=> pc \in AddSteps
  BY <1>4, InvolvedIs
(* What is in the slots stays, or is involved. *)
<1>5. ASSUME Other, UNCHANGED page, pc' # "length",
             \A i \in Slots : writes'[i] = writes[i] \/ writes'[i].msg \in Involved,
             \A i \in Slots : i \in Cleared' => i \in Cleared \/ writes'[i].msg \in Involved
      PROVE  SlotInv'
  <2>1. \A i \in Slots : writes'[i].msg \notin Involved' =>
           /\ writes'[i].len = writes'[i].msg /\ to'[writes'[i].msg] = conn' /\ socketInstance'
           /\ i \notin Cleared'
    BY <1>2, <1>4, <1>5 DEF page
  <2>2. \A m \in 1 .. Len(to') : to'[m] <= conn'
    BY <1>2, <1>4, <1>5 DEF page
  <2>3. QED
    BY <1>5, <2>1, <2>2 DEF SlotInv
<1>6. CASE \/ AddSlot \/ AddOccupied \/ AddOld \/ AddFreeOld \/ AddCount \/ AddCounted \/ AddWrap
  <2>1. Other /\ UNCHANGED <<writes, page>> /\ pc' # "length" /\ pc' \notin ClearSteps
    BY <1>6 DEF Other, AddOther, AddSlot, AddOccupied, AddOld, AddFreeOld, AddCount,
       AddCounted, AddWrap, Step, ring, ClearSteps
  <2>2. Cleared' = {}
    BY <2>1 DEF Cleared, ClearSteps
  <2>3. QED
    BY <1>5, <2>1, <2>2
<1>7. CASE \/ Writeable \/ WalkLook \/ WalkTake \/ WalkWrite \/ WalkAgain \/ WalkFree
           \/ WalkNext
  <2>1. Other /\ UNCHANGED <<writes, page>> /\ pc' # "length" /\ pc' \notin ClearSteps
    BY <1>7 DEF Other, Walk, Writeable, First, WalkLook, WalkTake, WalkWrite, WalkAgain,
       WalkFree, WalkNext, Step, ring, ClearSteps
  <2>2. Cleared' = {}
    BY <2>1 DEF Cleared, ClearSteps
  <2>3. QED
    BY <1>5, <2>1, <2>2
<1>8. CASE AddMessage
  <2>1. /\ Other /\ UNCHANGED <<page, at>> /\ pc' = "length" /\ pc = "message"
        /\ writes' = [writes EXCEPT ![at].msg = mine] /\ at \in Slots
    BY <1>8 DEF Other, AddOther, AddMessage, Step, PcInv
  <2>2. writes'[at].msg \in Involved /\ \A i \in Slots : i # at => writes'[i] = writes[i]
    BY <1>1, <1>3, <2>1 DEF AddSteps, Slot
  <2>3. Cleared' = {}
    BY <2>1 DEF Cleared
  <2>4. \A i \in Slots : writes'[i].msg \notin Involved' =>
           /\ writes'[i].len = writes'[i].msg /\ to'[writes'[i].msg] = conn' /\ socketInstance'
           /\ i \notin Cleared'
    BY <1>2, <1>4, <2>1, <2>2, <2>3 DEF page
  <2>5. \A m \in 1 .. Len(to') : to'[m] <= conn'
    BY <1>2, <1>4, <2>1 DEF page
  <2>6. QED
    BY <1>4, <2>1, <2>2, <2>4, <2>5 DEF SlotInv
<1>9. CASE AddLength
  <2>1. /\ Other /\ UNCHANGED page /\ pc' = "count" /\ pc = "length"
        /\ writes' = [writes EXCEPT ![at].len = mine] /\ at \in Slots
    BY <1>9 DEF Other, AddOther, AddLength, Step, PcInv
  <2>2. writes[at].msg \in Involved
    BY <1>2, <2>1
  <2>3. /\ writes'[at].msg = writes[at].msg
        /\ \A i \in Slots : i # at => writes'[i] = writes[i]
    BY <1>1, <2>1 DEF Slot
  <2>4. Cleared' = {}
    BY <2>1 DEF Cleared
  <2>5. QED
    BY <1>5, <2>1, <2>2, <2>3, <2>4
<1>10. CASE WalkNull
  <2>1. /\ Other /\ UNCHANGED page /\ pc' = "next"
        /\ writes' = [writes EXCEPT ![lastWritten] = Sent(@)]
    BY <1>10 DEF Other, Walk, WalkNull, Step
  <2>2. /\ writes'[lastWritten].msg = NULL
        /\ \A i \in Slots : i # lastWritten => writes'[i] = writes[i]
    BY <1>1, <2>1 DEF Slot, Sent
  <2>3. Cleared' = {}
    BY <2>1 DEF Cleared
  <2>4. QED
    BY <1>3, <1>5, <2>1, <2>2, <2>3
<1>11. CASE Closed
  <2>1. Other /\ UNCHANGED <<writes, page>> /\ pc' = "test" /\ at' = 0
    BY <1>11 DEF Other, Connection, Closed, Step, ring
  <2>2. Cleared' = {}
    BY <2>1 DEF Cleared
  <2>3. QED
    BY <1>5, <2>1, <2>2
<1>12. CASE ClearTest \/ ClearLoad \/ ClearFree
  <2>1. /\ Other /\ UNCHANGED <<writes, page, at>> /\ pc' # "length"
        /\ pc \in {"test", "clearLoad", "clearFree"}
        /\ pc' \in {"clearLoad", "clearFree", "clearNull"}
    BY <1>12 DEF Other, Connection, ClearTest, ClearLoad, ClearFree, Step, ring
  <2>2. Cleared' = Cleared
    BY <2>1 DEF Cleared
  <2>3. QED
    BY <1>5, <2>1, <2>2
<1>13. CASE ClearNull
  <2>1. /\ Other /\ UNCHANGED <<page, at>> /\ pc = "clearNull" /\ pc' = "clearLength"
        /\ writes' = [writes EXCEPT ![at].msg = NULL] /\ at \in Slots
    BY <1>13 DEF Other, Connection, ClearNull, Step, PcInv, ClearSteps
  <2>2. writes'[at].msg = NULL /\ \A i \in Slots : i # at => writes'[i] = writes[i]
    BY <1>1, <2>1 DEF Slot
  <2>3. Cleared = 0 .. at - 1 /\ Cleared' = 0 .. at
    BY <2>1 DEF Cleared
  <2>4. \A i \in Slots : i \in Cleared' => i \in Cleared \/ i = at
    BY <1>1, <2>3 DEF Slots
  <2>5. QED
    BY <1>3, <1>5, <2>1, <2>2, <2>4
<1>14. CASE ClearLength
  <2>1. /\ Other /\ UNCHANGED <<page, at>> /\ pc = "clearLength" /\ pc' = "clearNext"
        /\ writes' = [writes EXCEPT ![at].len = NULL] /\ at \in Slots
    BY <1>14 DEF Other, Connection, ClearLength, Step, PcInv, ClearSteps
  <2>2. Cleared = 0 .. at /\ Cleared' = 0 .. at
    BY <2>1 DEF Cleared
  <2>3. writes[at].msg \in Involved
    <3>1. at \in Cleared
      BY <1>1, <2>2
    <3>2. QED
      BY <1>2, <2>1, <3>1
  <2>4. /\ writes'[at].msg = writes[at].msg
        /\ \A i \in Slots : i # at => writes'[i] = writes[i]
    BY <1>1, <2>1 DEF Slot
  <2>5. QED
    BY <1>5, <2>1, <2>2, <2>3, <2>4
<1>15. CASE ClearNext
  <2>1. /\ Other /\ UNCHANGED <<writes, page>> /\ pc = "clearNext"
        /\ pc' = IF at + 1 \in Slots THEN "test" ELSE "reset"
        /\ at' = IF at + 1 \in Slots THEN at + 1 ELSE 0
    BY <1>15 DEF Other, Connection, ClearNext, Step, ring
  <2>2. Cleared = 0 .. at
    BY <2>1 DEF Cleared
  <2>3. at \in Slots
    BY <2>1 DEF PcInv, ClearSteps
  <2>4. \A i \in Slots : i \in Cleared' => i \in Cleared
    <3>1. CASE at + 1 \in Slots
      <4>1. pc' = "test" /\ at' = at + 1
        BY <2>1, <3>1
      <4>2. Cleared' = 0 .. at' - 1
        BY <4>1 DEF Cleared
      <4>3. at' - 1 = at
        BY <1>1, <4>1
      <4>4. QED
        BY <2>2, <4>2, <4>3
    <3>2. CASE at + 1 \notin Slots
      <4>1. \A i \in Slots : i \in 0 .. at
        BY <1>1, <2>3, <3>2 DEF Slots
      <4>2. QED
        BY <2>2, <4>1
    <3>3. QED
      BY <3>1, <3>2
  <2>5. QED
    BY <1>5, <2>1, <2>4
<1>16. CASE ClearReset
  <2>1. /\ Other /\ UNCHANGED <<writes, page>> /\ pc = "reset" /\ pc' = "disconnect"
    BY <1>16 DEF Other, Connection, ClearReset, Step
  <2>2. Cleared' = Cleared
    BY <2>1 DEF Cleared
  <2>3. QED
    BY <1>5, <2>1, <2>2
<1>17. CASE Disconnect \/ Established
  <2>1. /\ Other /\ UNCHANGED writes /\ pc' = "idle" /\ (conn' = conn \/ conn' = conn + 1)
        /\ \/ pc = "disconnect"
           \/ ~socketInstance
    BY <1>17 DEF Other, Connection, Disconnect, Established, Step, ring
  <2>2. \A i \in Slots : writes[i].msg \in Involved
    BY <1>2, <2>1 DEF Cleared
  <2>3. \A m \in 1 .. Len(to') : to'[m] <= conn'
    <3>1. \A m \in 1 .. Len(to) : to[m] \in Nat
      BY <1>1, ElementOfSeq, MessageNumbers
    <3>2. to' = to
      BY <1>4, <2>1
    <3>3. QED
      BY <1>1, <1>2, <2>1, <3>1, <3>2
  <2>4. QED
    BY <1>4, <2>1, <2>2, <2>3 DEF SlotInv
<1>18. CASE SendMsg
  <2>1. /\ UNCHANGED <<writes, page>> /\ to' = Append(to, conn) /\ pc' = "slot"
        /\ Involved \subseteq Involved' /\ socketInstance
    BY <1>18, InvolvedIs DEF SendMsg, Step, ring
  <2>2. /\ Len(to') = Len(to) + 1
        /\ \A m \in 1 .. Len(to) : to'[m] = to[m]
        /\ to'[Len(to) + 1] = conn
    BY <1>1, <2>1, AppendProperties
  <2>3. Cleared' = {}
    BY <2>1 DEF Cleared
  <2>4. \A i \in Slots : writes[i].msg \notin Involved => writes[i].msg \in 1 .. Len(to)
    BY <1>1, <1>3
  <2>5. \A i \in Slots : writes'[i].msg \notin Involved' =>
           /\ writes'[i].len = writes'[i].msg /\ to'[writes'[i].msg] = conn' /\ socketInstance'
           /\ i \notin Cleared'
    BY <1>2, <2>1, <2>2, <2>3, <2>4 DEF page
  <2>6. \A m \in 1 .. Len(to') : to'[m] <= conn'
    BY <1>1, <1>2, <2>1, <2>2 DEF page
  <2>7. QED
    BY <2>1, <2>5, <2>6 DEF SlotInv
<1>19. CASE AddWrapped
  <2>1. /\ UNCHANGED <<writes, to, page>> /\ pc = "wrapped" /\ pc' = "idle"
        /\ Involved = Involved' \cup {mine} /\ Involved' = {NULL} \cup torn
    BY <1>19, InvolvedIs DEF AddWrapped, Step
  <2>2. Cleared' = {} /\ Cleared = {} /\ socketInstance
    BY <2>1 DEF Cleared, PcInv
  <2>3. ASSUME NEW i \in Slots, writes[i].msg = mine, mine \notin torn
        PROVE  writes[i].len = writes[i].msg /\ to[writes[i].msg] = conn
    <3>1. i = Cell /\ writes[Cell] = [msg |-> mine, len |-> mine] /\ to[mine] = conn
      BY <2>1, <2>3 DEF AddInv, AddSteps
    <3>2. QED
      BY <2>3, <3>1
  <2>4. \A i \in Slots : writes'[i].msg \notin Involved' =>
           /\ writes'[i].len = writes'[i].msg /\ to'[writes'[i].msg] = conn' /\ socketInstance'
           /\ i \notin Cleared'
    BY <1>2, <2>1, <2>2, <2>3 DEF page
  <2>5. \A m \in 1 .. Len(to') : to'[m] <= conn'
    BY <1>2, <2>1 DEF page
  <2>6. QED
    BY <2>1, <2>4, <2>5 DEF SlotInv
<1>20. QED
  BY <1>6, <1>7, <1>8, <1>9, <1>10, <1>11, <1>12, <1>13, <1>14, <1>15, <1>16, <1>17, <1>18,
     <1>19 DEF Main, Add, Walk, Connection

(* what was sent, *)
LEMMA SentMain ==
  ASSUME TypeOK, PcInv, NumberInv, SlotInv, SentInv, Main
  PROVE  SentInv'
<1>1. /\ writes \in [Slots -> Slot] /\ lastWritten \in Slots
      /\ to \in Seq(1 .. MaxConns) /\ Len(to) \in Nat
      /\ \A s \in sent : s.msg \in Nat /\ s.msg # NULL
      /\ reg \in Nat /\ reg <= Len(to) /\ NULL = 0
  BY RingFacts
<1>2. /\ \A s \in sent :
           /\ s.msg <= Len(to)
           /\ s.msg \notin Involved => s.len = s.msg /\ s.conn = to[s.msg]
           /\ pc \in AddSteps => s.msg # mine
      /\ pc = "write" => /\ reg \notin Involved => len = reg /\ to[reg] = conn
                         /\ writes[lastWritten].msg \notin Involved
                              => reg = writes[lastWritten].msg
      /\ pc \in {"again", "free", "null"} /\ writes[lastWritten].msg \notin Involved
           => \E s \in sent : s.msg = writes[lastWritten].msg
  BY DEF SentInv
<1>3. ASSUME Other
      PROVE  /\ Involved' = Involved /\ UNCHANGED <<to, mine, torn>>
             /\ pc' \in AddSteps <=> pc \in AddSteps
  BY <1>3, InvolvedIs
<1>4. ASSUME Other, UNCHANGED sent, pc' \notin {"write", "again", "free", "null"}
      PROVE  SentInv'
  BY <1>2, <1>3, <1>4 DEF SentInv
<1>5. CASE AddOther
  <2>1. UNCHANGED sent /\ pc' \notin {"write", "again", "free", "null"}
    BY <1>5 DEF AddOther, AddSlot, AddOccupied, AddOld, AddFreeOld, AddMessage, AddLength,
       AddCount, AddCounted, AddWrap, Step, history
  <2>2. QED
    BY <1>4, <1>5, <2>1 DEF Other
<1>6. CASE Connection
  <2>1. UNCHANGED sent /\ pc' \notin {"write", "again", "free", "null"}
    BY <1>6 DEF Connection, Established, Closed, ClearTest, ClearLoad, ClearFree, ClearNull,
       ClearLength, ClearNext, ClearReset, Disconnect, Step, history
  <2>2. QED
    BY <1>4, <1>6, <2>1 DEF Other
<1>7. CASE Writeable \/ WalkLook \/ WalkNull \/ WalkNext
  <2>1. Other /\ UNCHANGED sent /\ pc' \notin {"write", "again", "free", "null"}
    BY <1>7 DEF Other, Walk, Writeable, First, WalkLook, WalkNull, WalkNext, Step, history
  <2>2. QED
    BY <1>4, <2>1
<1>8. CASE WalkTake
  <2>1. /\ Other /\ UNCHANGED <<sent, writes, lastWritten, conn>> /\ pc' = "write"
        /\ reg' = writes[lastWritten].msg /\ len' = writes[lastWritten].len
    BY <1>8 DEF Other, Walk, WalkTake, Step, history, ring, page
  <2>2. writes[lastWritten].msg \notin Involved =>
          /\ writes[lastWritten].len = writes[lastWritten].msg
          /\ to[writes[lastWritten].msg] = conn
    BY <1>1 DEF SlotInv
  <2>3. QED
    BY <1>2, <1>3, <2>1, <2>2 DEF SentInv
<1>9. CASE WalkWrite
  <2>1. /\ Other /\ UNCHANGED <<writes, lastWritten>> /\ pc = "write" /\ pc' = "again"
        /\ sent' = sent \cup {[msg |-> reg, len |-> len, conn |-> conn]}
    BY <1>9 DEF Other, Walk, WalkWrite, Step, ring
  <2>2. pc' \notin AddSteps
    BY <2>1 DEF AddSteps
  <2> DEFINE t == [msg |-> reg, len |-> len, conn |-> conn]
  <2>3. t.msg = reg /\ t.len = len /\ t.conn = conn
    OBVIOUS
  <2> HIDE DEF t
  <2>4. sent' = sent \cup {t}
    BY <2>1 DEF t
  <2>5. \A s \in sent' : /\ s.msg <= Len(to)
                         /\ s.msg \notin Involved => s.len = s.msg /\ s.conn = to[s.msg]
    BY <1>1, <1>2, <2>1, <2>3, <2>4
  <2>6. writes[lastWritten].msg \notin Involved =>
          \E s \in sent' : s.msg = writes[lastWritten].msg
    BY <1>2, <2>1, <2>3, <2>4
  <2>7. QED
    BY <1>3, <2>1, <2>2, <2>5, <2>6 DEF SentInv
<1>10. CASE WalkAgain \/ WalkFree
  <2>1. /\ Other /\ UNCHANGED <<sent, writes, lastWritten>>
        /\ pc \in {"again", "free"} /\ pc' \in {"free", "null"}
    BY <1>10 DEF Other, Walk, WalkAgain, WalkFree, Step, history, ring
  <2>2. QED
    BY <1>2, <1>3, <2>1 DEF SentInv
<1>11. CASE SendMsg
  <2>1. /\ UNCHANGED sent /\ to' = Append(to, conn) /\ pc' = "slot" /\ mine' = Len(to) + 1
        /\ Involved \subseteq Involved'
    BY <1>11, InvolvedIs DEF SendMsg, Step
  <2>2. Len(to') = Len(to) + 1 /\ \A m \in 1 .. Len(to) : to'[m] = to[m]
    BY <1>1, <2>1, AppendProperties
  <2>3. \A s \in sent : s.msg \in 1 .. Len(to)
    BY <1>1, <1>2
  <2>4. \A s \in sent' :
           /\ s.msg <= Len(to')
           /\ s.msg \notin Involved' => s.len = s.msg /\ s.conn = to'[s.msg]
           /\ s.msg # mine'
    BY <1>1, <1>2, <2>1, <2>2, <2>3
  <2>5. QED
    BY <2>1, <2>4 DEF SentInv
<1>12. CASE AddWrapped
  <2>1. /\ UNCHANGED <<sent, to>> /\ pc' = "idle"
        /\ Involved = Involved' \cup {mine} /\ pc \in AddSteps /\ pc' \notin AddSteps
    BY <1>12, InvolvedIs DEF AddWrapped, Step, history
  <2>2. QED
    BY <1>2, <2>1 DEF SentInv
<1>13. QED
  BY <1>5, <1>6, <1>7, <1>8, <1>9, <1>10, <1>11, <1>12
     DEF Main, Add, AddOther, Walk, Connection

(* its own message, *)
LEMMA AddMain ==
  ASSUME TypeOK, PcInv, NumberInv, AddInv, Main
  PROVE  AddInv'
<1>1. /\ writes \in [Slots -> Slot] /\ lastBuffered \in 0 .. N
      /\ lastBuffered \notin Slots => pc \in {"wrap", "wrapped"}
      /\ at \in 0 .. N /\ N \in Nat /\ N > 0
      /\ to \in Seq(1 .. MaxConns) /\ Len(to) \in Nat
      /\ \A i \in Slots : writes[i].msg \in Nat /\ writes[i].msg <= Len(to)
  BY RingFacts
<1>2. ASSUME pc \in AddSteps, mine \notin torn
      PROVE  /\ mine = Len(to) /\ to[mine] = conn
             /\ pc \in {"occupied", "old", "freeOld", "message", "length", "counted", "wrapped"}
                  => at = lastBuffered
             /\ pc = "wrap" => at + 1 = lastBuffered
             /\ pc \in {"slot", "occupied", "old", "freeOld", "message"}
                  => \A i \in Slots : writes[i].msg # mine
             /\ pc = "length" => writes[at].msg = mine
             /\ pc \in {"count", "counted", "wrap", "wrapped"}
                  => Cell \in Slots /\ writes[Cell] = [msg |-> mine, len |-> mine]
             /\ pc \in {"length", "count", "counted", "wrap", "wrapped"}
                  => \A i \in Slots : writes[i].msg = mine => i = Cell
  BY <1>2 DEF AddInv
<1>3. ASSUME Other
      PROVE  /\ UNCHANGED <<to, mine, torn>> /\ pc' \in AddSteps <=> pc \in AddSteps
  BY <1>3, InvolvedIs
<1>4. CASE Walk \/ Connection \/ AddWrapped
  <2>1. pc' \notin AddSteps
    <3>1. CASE AddWrapped
      BY <3>1, InvolvedIs
    <3>2. CASE Walk
      BY <3>2 DEF Walk, Writeable, First, WalkLook, WalkTake, WalkWrite, WalkAgain, WalkFree,
         WalkNull, WalkNext, Step, AddSteps
    <3>3. CASE Connection
      BY <3>3 DEF Connection, Established, Closed, ClearTest, ClearLoad, ClearFree, ClearNull,
         ClearLength, ClearNext, ClearReset, Disconnect, Step, AddSteps
    <3>4. QED
      BY <1>4, <3>1, <3>2, <3>3
  <2>2. QED
    BY <2>1 DEF AddInv
<1>5. CASE AddOther \/ SendMsg
  <2>1. SUFFICES ASSUME mine' \notin torn'
                 PROVE  AddInv'
    BY DEF AddInv
  <2>2. CASE SendMsg
    <3>1. /\ UNCHANGED <<writes, conn>> /\ mine' = Len(to) + 1 /\ to' = Append(to, conn)
          /\ pc' = "slot"
      BY <2>2 DEF SendMsg, Step, ring, page
    <3>2. Len(to') = Len(to) + 1 /\ to'[Len(to) + 1] = conn
      BY <1>1, <3>1, AppendProperties
    <3>3. \A i \in Slots : writes[i].msg # mine'
      BY <1>1, <3>1
    <3>4. QED
      BY <3>1, <3>2, <3>3 DEF AddInv
  <2>3. ASSUME AddOther
        PROVE  pc \in AddSteps /\ mine \notin torn /\ UNCHANGED <<to, mine, torn, conn>>
    <3>1. pc \in AddSteps /\ UNCHANGED conn
      BY <2>3 DEF AddOther, AddSlot, AddOccupied, AddOld, AddFreeOld, AddMessage, AddLength,
         AddCount, AddCounted, AddWrap, Step, AddSteps, page
    <3>2. QED
      BY <1>3, <2>1, <2>3, <3>1 DEF Other
  <2>4. CASE AddSlot
    <3>1. /\ UNCHANGED <<writes, lastBuffered>> /\ at' = lastBuffered
          /\ pc = "slot" /\ pc' = "occupied"
      BY <2>4 DEF AddSlot, Step, ring
    <3>2. QED
      BY <1>2, <2>3, <2>4, <3>1 DEF AddInv, AddOther
  <2>5. CASE AddOccupied \/ AddOld \/ AddFreeOld
    <3>1. /\ UNCHANGED <<writes, lastBuffered, at>>
          /\ pc \in {"occupied", "old", "freeOld"} /\ pc' \in {"old", "freeOld", "message"}
      BY <2>5 DEF AddOccupied, AddOld, AddFreeOld, Step, ring
    <3>2. QED
      BY <1>2, <2>3, <2>5, <3>1 DEF AddInv, AddOther
  <2>6. CASE AddMessage
    <3>1. /\ UNCHANGED <<lastBuffered, at>> /\ at \in Slots
          /\ writes' = [writes EXCEPT ![at].msg = mine]
          /\ pc = "message" /\ pc' = "length"
      BY <2>6 DEF AddMessage, Step, PcInv
    <3>2. /\ writes'[at].msg = mine
          /\ \A i \in Slots : i # at => writes'[i] = writes[i]
      BY <1>1, <3>1 DEF Slot
    <3>3. Cell' = at
      BY <3>1 DEF Cell
    <3>4. \A i \in Slots : writes[i].msg # mine
      BY <1>2, <2>3, <2>6, <3>1 DEF AddOther
    <3>5. QED
      BY <1>2, <2>3, <2>6, <3>1, <3>2, <3>3, <3>4 DEF AddInv, AddOther
  <2>7. CASE AddLength
    <3>1. /\ UNCHANGED <<lastBuffered, at>> /\ at \in Slots
          /\ writes' = [writes EXCEPT ![at].len = mine]
          /\ pc = "length" /\ pc' = "count"
      BY <2>7 DEF AddLength, Step, PcInv
    <3>2. /\ at = lastBuffered /\ writes[at].msg = mine /\ mine = Len(to) /\ to[mine] = conn
          /\ \A i \in Slots : writes[i].msg = mine => i = Cell
      BY <1>2, <2>3, <2>7, <3>1 DEF AddOther
    <3>3. /\ writes'[at] = [msg |-> mine, len |-> mine]
          /\ \A i \in Slots : writes'[i].msg = writes[i].msg
      BY <1>1, <3>1, <3>2 DEF Slot
    <3>4. Cell' = at /\ Cell = at
      BY <3>1, <3>2 DEF Cell
    <3>5. QED
      BY <2>3, <2>7, <3>1, <3>2, <3>3, <3>4 DEF AddInv, AddOther
  <2>8. CASE AddCount \/ AddCounted \/ AddWrap
    <3>1. /\ UNCHANGED writes
          /\ \/ pc = "count" /\ pc' = "counted" /\ lastBuffered' = lastBuffered
                /\ at' = lastBuffered
             \/ pc = "counted" /\ pc' = "wrap" /\ lastBuffered' = at + 1 /\ at' = at
             \/ pc = "wrap" /\ pc' = "wrapped" /\ lastBuffered' = lastBuffered
                /\ at' = lastBuffered
      BY <2>8 DEF AddCount, AddCounted, AddWrap, Step, ring
    <3>2. /\ mine = Len(to) /\ to[mine] = conn
          /\ pc = "counted" => at = lastBuffered
          /\ pc = "wrap" => at + 1 = lastBuffered
          /\ Cell \in Slots /\ writes[Cell] = [msg |-> mine, len |-> mine]
          /\ \A i \in Slots : writes[i].msg = mine => i = Cell
      BY <1>2, <2>3, <2>8, <3>1 DEF AddOther
    <3>3. Cell' = Cell
      <4>1. CASE pc = "count"
        BY <3>1, <4>1 DEF Cell
      <4>2. CASE pc = "counted"
        BY <3>1, <3>2, <4>2 DEF Cell
      <4>3. CASE pc = "wrap"
        <5>1. Cell = at /\ Cell' = at' - 1 /\ at' = at + 1
          BY <3>1, <3>2, <4>3 DEF Cell
        <5>2. QED
          BY <1>1, <5>1
      <4>4. QED
        BY <3>1, <4>1, <4>2, <4>3
    <3>4. QED
      BY <2>3, <2>8, <3>1, <3>2, <3>3 DEF AddInv, AddOther
  <2>9. QED
    BY <1>5, <2>2, <2>4, <2>5, <2>6, <2>7, <2>8 DEF AddOther
<1>6. QED
  BY <1>4, <1>5 DEF Main, Add, AddOther

(* and what must not be lost. *)
LEMMA HoldMain ==
  ASSUME TypeOK, PcInv, NumberInv, AgeInv, SlotInv, SentInv, AddInv, HoldInv, Main
  PROVE  HoldInv'
<1>1. /\ writes \in [Slots -> Slot] /\ lastWritten \in Slots
      /\ to \in Seq(1 .. MaxConns) /\ Len(to) \in Nat /\ conn \in Nat /\ N \in Nat
      /\ \A i \in Slots : writes[i].msg \in Nat
  BY RingFacts
<1>2. \A m \in 1 .. Len(to) : m \notin Involved /\ Lasts(m) =>
        (\E s \in sent : s.msg = m) \/ Has(writes, m) \/ Len(to) - m >= N
  BY DEF HoldInv
<1>3. NULL \in Involved /\ NULL \in Involved' /\ (pc \in AddSteps => mine \in Involved)
  BY InvolvedIs
<1>4. ASSUME Other
      PROVE  Involved' = Involved /\ UNCHANGED <<to, mine, torn>>
  BY <1>4, InvolvedIs
(* A slot changes whose message is involved, was sent or is old. *)
<1>5. ASSUME Other, UNCHANGED page, pc' \notin ClearSteps => pc \notin ClearSteps,
             sent \subseteq sent', NEW l \in Slots,
             \A i \in Slots : i # l => writes'[i] = writes[i],
             \/ writes'[l] = writes[l] \/ writes[l].msg \in Involved
             \/ \E s \in sent : s.msg = writes[l].msg
             \/ Len(to) - writes[l].msg >= N
      PROVE  HoldInv'
  <2> SUFFICES ASSUME NEW m \in 1 .. Len(to), m \notin Involved, Lasts(m)'
               PROVE  (\E s \in sent' : s.msg = m) \/ Has(writes', m) \/ Len(to) - m >= N
    BY <1>4, <1>5 DEF HoldInv
  <2>1. Lasts(m)
    BY <1>4, <1>5 DEF Lasts, page
  <2>2. (\E s \in sent : s.msg = m) \/ Has(writes, m) \/ Len(to) - m >= N
    BY <1>2, <2>1
  <2>3. ASSUME NEW i \in Slots, writes[i] = [msg |-> m, len |-> m]
        PROVE  (\E s \in sent' : s.msg = m) \/ Has(writes', m) \/ Len(to) - m >= N
    <3>1. writes[i].msg = m
      BY <2>3
    <3>2. CASE writes'[i] = writes[i]
      BY <2>3, <3>2 DEF Has
    <3>3. CASE writes'[i] # writes[i]
      BY <1>5, <3>1, <3>3
    <3>4. QED
      BY <3>2, <3>3
  <2>4. QED
    BY <1>5, <2>2, <2>3 DEF Has
<1>6. ASSUME Other, UNCHANGED <<page, writes>>, sent \subseteq sent',
             pc' \notin ClearSteps => pc \notin ClearSteps
      PROVE  HoldInv'
  BY <1>1, <1>5, <1>6
<1>7. CASE AddOther
  <2>1. Other /\ UNCHANGED <<page, sent>> /\ pc \notin ClearSteps
    BY <1>7 DEF Other, AddOther, AddSlot, AddOccupied, AddOld, AddFreeOld, AddMessage,
       AddLength, AddCount, AddCounted, AddWrap, Step, ClearSteps, history
  <2>2. CASE AddMessage
    <3>1. pc = "message" /\ at \in Slots /\ writes' = [writes EXCEPT ![at].msg = mine]
      BY <2>2 DEF AddMessage, Step, PcInv
    <3>2. writes[at].msg \in Involved \/ Len(to) - writes[at].msg >= N
      BY <3>1 DEF AgeInv
    <3>3. \A i \in Slots : i # at => writes'[i] = writes[i]
      BY <1>1, <3>1
    <3>4. QED
      BY <1>5, <2>1, <3>1, <3>2, <3>3
  <2>3. CASE AddLength
    <3>1. pc = "length" /\ at \in Slots /\ writes' = [writes EXCEPT ![at].len = mine]
      BY <2>3 DEF AddLength, Step, PcInv
    <3>2. writes[at].msg \in Involved
      BY <3>1 DEF SlotInv
    <3>3. \A i \in Slots : i # at => writes'[i] = writes[i]
      BY <1>1, <3>1
    <3>4. QED
      BY <1>5, <2>1, <3>1, <3>2, <3>3
  <2>4. CASE \/ AddSlot \/ AddOccupied \/ AddOld \/ AddFreeOld \/ AddCount \/ AddCounted
             \/ AddWrap
    <3>1. UNCHANGED writes
      BY <2>4 DEF AddSlot, AddOccupied, AddOld, AddFreeOld, AddCount, AddCounted, AddWrap, ring
    <3>2. QED
      BY <1>6, <2>1, <3>1
  <2>5. QED
    BY <1>7, <2>2, <2>3, <2>4 DEF AddOther
<1>8. CASE Walk
  <2>1. Other /\ UNCHANGED page /\ sent \subseteq sent' /\ pc \notin ClearSteps
    BY <1>8 DEF Other, Walk, Writeable, WalkLook, WalkTake, WalkWrite, WalkAgain, WalkFree,
       WalkNull, WalkNext, Step, ClearSteps, history
  <2>2. CASE WalkNull
    <3>1. pc = "null" /\ writes' = [writes EXCEPT ![lastWritten] = Sent(@)]
      BY <2>2 DEF WalkNull, Step
    <3>2. \/ writes[lastWritten].msg \in Involved
          \/ \E s \in sent : s.msg = writes[lastWritten].msg
      BY <3>1 DEF SentInv
    <3>3. \A i \in Slots : i # lastWritten => writes'[i] = writes[i]
      BY <1>1, <3>1
    <3>4. QED
      BY <1>1, <1>5, <2>1, <3>2, <3>3
  <2>3. CASE \/ Writeable \/ WalkLook \/ WalkTake \/ WalkWrite \/ WalkAgain \/ WalkFree
             \/ WalkNext
    <3>1. UNCHANGED writes
      BY <2>3 DEF Writeable, WalkLook, WalkTake, WalkWrite, WalkAgain, WalkFree, WalkNext, ring
    <3>2. QED
      BY <1>6, <2>1, <3>1
  <2>4. QED
    BY <1>8, <2>2, <2>3 DEF Walk
<1>9. CASE Connection
  <2>1. Other
    BY <1>9 DEF Other
  <2>2. CASE Disconnect
    <3>1. socketInstance' = FALSE
      BY <2>2 DEF Disconnect
    <3>2. QED
      BY <3>1 DEF HoldInv, Lasts
  <2>3. CASE Established
    <3>1. conn' = conn + 1
      BY <2>3 DEF Established
    <3>2. \A m \in 1 .. Len(to) : to[m] \in Nat /\ to[m] <= conn
      BY <1>1, ElementOfSeq, MessageNumbers DEF SlotInv
    <3>3. \A m \in 1 .. Len(to) : to[m] # conn'
      BY <1>1, <3>1, <3>2
    <3>4. QED
      BY <1>4, <2>1, <3>3 DEF HoldInv, Lasts
  <2>4. CASE \/ Closed \/ ClearTest \/ ClearLoad \/ ClearFree \/ ClearNull
             \/ ClearLength \/ ClearNext \/ ClearReset
    <3>1. pc' \in ClearSteps
      BY <2>4 DEF Closed, ClearTest, ClearLoad, ClearFree, ClearNull, ClearLength, ClearNext,
         ClearReset, Step, ClearSteps
    <3>2. QED
      BY <3>1 DEF HoldInv, Lasts
  <2>5. QED
    BY <1>9, <2>2, <2>3, <2>4 DEF Connection
<1>10. CASE SendMsg
  <2>1. /\ UNCHANGED <<writes, page, sent>> /\ to' = Append(to, conn) /\ mine' = Len(to) + 1
        /\ Involved' = Involved \cup {mine'} /\ pc \notin ClearSteps
    BY <1>10, InvolvedIs DEF SendMsg, Step, ring, ClearSteps
  <2>2. Len(to') = Len(to) + 1 /\ \A m \in 1 .. Len(to) : to'[m] = to[m]
    BY <1>1, <2>1, AppendProperties
  <2> SUFFICES ASSUME NEW m \in 1 .. Len(to'), m \notin Involved', Lasts(m)'
               PROVE  (\E s \in sent' : s.msg = m) \/ Has(writes', m) \/ Len(to') - m >= N
    BY DEF HoldInv
  <2>3. m \in 1 .. Len(to) /\ m \notin Involved
    BY <1>1, <2>1, <2>2
  <2>4. Lasts(m)
    BY <2>1, <2>2, <2>3 DEF Lasts, page
  <2>5. (\E s \in sent : s.msg = m) \/ Has(writes, m) \/ Len(to) - m >= N
    BY <1>2, <2>3, <2>4
  <2>6. Len(to) - m >= N => Len(to') - m >= N
    BY <1>1, <2>2, <2>3
  <2>7. QED
    BY <2>1, <2>5, <2>6 DEF Has
<1>11. CASE AddWrapped
  <2>1. /\ UNCHANGED <<writes, to, page, sent>> /\ pc = "wrapped"
        /\ Involved = Involved' \cup {mine} /\ Involved' = {NULL} \cup torn
    BY <1>11, InvolvedIs DEF AddWrapped, Step, history
  <2> SUFFICES ASSUME NEW m \in 1 .. Len(to), m \notin Involved', Lasts(m)'
               PROVE  (\E s \in sent' : s.msg = m) \/ Has(writes', m) \/ Len(to') - m >= N
    BY <2>1 DEF HoldInv
  <2>2. Lasts(m)
    BY <2>1 DEF Lasts, page, ClearSteps
  <2>3. CASE m \notin Involved
    BY <1>2, <2>1, <2>2, <2>3 DEF Has
  <2>4. CASE m \in Involved
    <3>1. m = mine /\ mine \notin torn
      BY <2>1, <2>4
    <3>2. Cell \in Slots /\ writes[Cell] = [msg |-> mine, len |-> mine]
      BY <2>1, <3>1 DEF AddInv, AddSteps
    <3>3. QED
      BY <2>1, <3>1, <3>2 DEF Has
  <2>5. QED
    BY <2>3, <2>4
<1>12. QED
  BY <1>7, <1>8, <1>9, <1>10, <1>11 DEF Main, Add, AddOther

-----------------------------------------------------------------------------
(* Bystanders and the handler. *)

(* The ring after one message, or two, of a handler that stayed on it.     *)
LEMMA TimerAdds ==
  ASSUME TypeOK, PcInv, NumberInv, Timer, crash' = "no", NEW e \in Int, NEW X, NEW S,
         Aged(writes, lastBuffered, e, X), Aged(writes, lastBuffered, Len(to), X),
         Held(writes, Len(to), X, S), e = Len(to) \/ Made \subseteq X
  PROVE  /\ Aged(writes', lastBuffered', e + Len(to') - Len(to), X)
         /\ Held(writes', Len(to'), X, S)
<1> DEFINE n == Len(to)
           w == Filled(writes, lastBuffered, n + 1)
           f == FreedFor(writes, lastBuffered, freed)
           l == Wrapped(lastBuffered + 1)
<1>1. /\ writes \in [Slots -> Slot] /\ n \in Nat /\ n \in Int
      /\ \A i \in Slots : writes[i].msg \in Int
  BY RingFacts
<1>2. /\ Made \subseteq Messages /\ n + 1 \in Made /\ (ClearFirst => n + 2 \in Made)
      /\ \A m \in Made : m \in Nat /\ m > n
  BY TimerEffect, MadeTypes
<1>3. n + 1 \in X \/ n + 1 <= e + 1
  BY <1>1, <1>2
<1>4. ClearFirst => n + 2 \in X \/ n + 2 <= e + 2
  BY <1>1, <1>2
<1>5. Len(to') = n + (IF ClearFirst THEN 2 ELSE 1)
  BY TimerEffect
<1>6. ASSUME lastBuffered \in Slots, l \in Slots
      PROVE  /\ w \in [Slots -> Slot] /\ \A i \in Slots : w[i].msg \in Int
             /\ Aged(w, l, e + 1, X) /\ Aged(w, l, n + 1, X) /\ Held(w, n + 1, X, S)
  <2>1. [msg |-> n + 1, len |-> n + 1] \in Slot
    BY <1>2 DEF Slot
  <2>2. w \in [Slots -> Slot] /\ \A i \in Slots : w[i].msg \in Int
    BY <1>1, <1>6, <2>1 DEF Filled
  <2> HIDE DEF n
  <2>3. n + 1 \in Int /\ n + 1 <= n + 1
    BY <1>1
  <2>4. Aged(writes, lastBuffered, n, X) /\ Held(writes, n, X, S)
    BY DEF n
  <2>5. Aged(w, l, e + 1, X)
    BY <1>1, <1>3, <1>6, <2>3, FilledAged
  <2>6. Aged(w, l, n + 1, X)
    BY <1>1, <1>6, <2>3, <2>4, FilledAged
  <2>7. Held(w, n + 1, X, S)
    BY <1>1, <1>6, <2>4, FilledHeld
  <2>8. QED
    BY <2>2, <2>5, <2>6, <2>7
(* One message, or the second one after it. *)
<1>7. CASE /\ lastBuffered \in Slots /\ l \in Slots /\ ~ClearFirst
           /\ writes' = w /\ lastBuffered' = l
  <2> HIDE DEF w, l
  <2>1. Len(to') = n + 1 /\ e + Len(to') - n = e + 1
    BY <1>1, <1>5, <1>7
  <2> HIDE DEF n
  <2>2. Aged(writes', lastBuffered', e + Len(to') - n, X) /\ Held(writes', Len(to'), X, S)
    BY <1>6, <1>7, <2>1
  <2>3. QED
    BY <2>2 DEF n
<1>8. CASE /\ lastBuffered \in Slots /\ l \in Slots /\ ClearFirst
           /\ writes' = Filled(w, l, n + 1 + 1) /\ lastBuffered' = Wrapped(l + 1)
  <2> HIDE DEF w, l
  <2>1. Len(to') = n + 1 + 1 /\ e + Len(to') - n = e + 1 + 1
    BY <1>1, <1>5, <1>8
  <2>2. n + 1 \in Nat /\ n + 1 + 1 \in Int /\ e + 1 \in Int /\ n + 1 + 1 = n + 2
    BY <1>1
  <2> DEFINE k == n + 1
             g == e + 1
  <2>3. k + 1 \in X \/ k + 1 <= g + 1
    BY <1>1, <1>4, <1>8, <2>2
  <2>4. k \in Nat /\ k + 1 \in Int /\ g \in Int
    BY <2>2
  <2>5. /\ w \in [Slots -> Slot] /\ \A i \in Slots : w[i].msg \in Int
        /\ Aged(w, l, g, X) /\ Aged(w, l, k, X) /\ Held(w, k, X, S)
    BY <1>6, <1>8
  <2>6. /\ writes' = Filled(w, l, k + 1) /\ lastBuffered' = Wrapped(l + 1)
        /\ Len(to') = k + 1 /\ e + Len(to') - n = g + 1 /\ l \in Slots
    BY <1>8, <2>1
  <2> HIDE DEF k, g, n
  <2>7. Aged(writes', lastBuffered', g + 1, X)
    BY <2>3, <2>4, <2>5, <2>6, FilledAged
  <2>8. Held(writes', k + 1, X, S)
    BY <2>4, <2>5, <2>6, FilledHeld
  <2>9. Aged(writes', lastBuffered', e + Len(to') - n, X) /\ Held(writes', Len(to'), X, S)
    BY <2>6, <2>7, <2>8
  <2>10. QED
    BY <2>9 DEF n
<1>9. \/ /\ lastBuffered \in Slots /\ l \in Slots /\ ~ClearFirst
         /\ writes' = w /\ lastBuffered' = l
      \/ /\ lastBuffered \in Slots /\ l \in Slots /\ ClearFirst
         /\ writes' = Filled(w, l, n + 1 + 1) /\ lastBuffered' = Wrapped(l + 1)
  BY TimerOnRing
<1>10. QED
  BY <1>7, <1>8, <1>9

(* So does the handler. *)
LEMMA BystanderTimer ==
  ASSUME TypeOK, PcInv, NumberInv, AgeInv, SlotInv, SentInv, HoldInv, Timer, crash' = "no"
  PROVE  AgeInv' /\ SlotInv' /\ SentInv' /\ AddInv' /\ HoldInv'
<1> DEFINE n == IF Early THEN Len(to) - 1 ELSE Len(to)
           more == IF ClearFirst THEN 2 ELSE 1
<1>1. /\ writes \in [Slots -> Slot] /\ lastWritten \in Slots /\ lastBuffered \in 0 .. N
      /\ at \in 0 .. N /\ N \in Nat
      /\ to \in Seq(1 .. MaxConns) /\ Len(to) \in Nat /\ conn \in Nat /\ n \in Int
      /\ \A i \in Slots : writes[i].msg \in Nat /\ writes[i].msg <= Len(to)
      /\ \A s \in sent : s.msg \in Nat /\ s.msg # NULL
      /\ reg \in Nat /\ reg <= Len(to) /\ NULL = 0
  BY RingFacts
<1>2. /\ UNCHANGED <<lastWritten, pc, at, reg, len, mine, socketInstance, conn, sent>>
      /\ socketInstance /\ Len(to') = Len(to) + more
      /\ \A m \in 1 .. Len(to') : to'[m] = IF m <= Len(to) THEN to[m] ELSE conn
      /\ torn' = torn \cup (IF Strikes THEN Made ELSE {})
                      \cup (IF pc \in AddSteps THEN {mine} ELSE {})
  BY TimerEffect
<1>3. \A m \in Made : m \in Nat /\ m > Len(to) /\ m <= Len(to')
  <2>1. \A m \in Made : m \in Nat /\ m > Len(to)
    BY TimerEffect, MadeTypes
  <2>2. \A m \in Made : m <= Len(to) + more
    BY <1>1 DEF Made
  <2>3. QED
    BY <1>2, <2>1, <2>2
<1>4. /\ Involved' = Involved \cup (IF Strikes THEN Made ELSE {})
      /\ Involved \subseteq Involved' /\ NULL \in Involved
      /\ pc \in AddSteps => mine \in torn'
      /\ pc \in AddSteps \cup ClearSteps => Made \subseteq Involved'
  <2>1. Involved' = Involved \cup (IF Strikes THEN Made ELSE {})
    BY <1>2 DEF Involved
  <2>2. pc \in AddSteps \cup ClearSteps => Strikes
    BY DEF Strikes
  <2> HIDE DEF Strikes
  <2>3. QED
    BY <1>2, <2>1, <2>2, InvolvedIs
<1>5. \A i \in Slots : \/ writes'[i] = writes[i]
                       \/ /\ writes'[i].msg \in Made /\ writes'[i].len = writes'[i].msg
                          /\ writes'[i] # writes[i]
  <2>1. \A i \in Slots : \/ writes'[i] = writes[i]
                         \/ \E m \in Made : writes'[i] = [msg |-> m, len |-> m]
    BY TimerFills
  <2>2. \A m \in Made : [msg |-> m, len |-> m].msg = m /\ [msg |-> m, len |-> m].len = m
    OBVIOUS
  <2>3. QED
    BY <2>1, <2>2
<1>6. \A i \in Slots : writes'[i].msg = writes[i].msg \/ writes'[i].msg \in Made
  BY <1>5
<1>7. AddInv'
  BY <1>2, <1>4 DEF AddInv
<1> DEFINE S == {m \in 1 .. Len(to') : (\E s \in sent : s.msg = m) \/ ~Lasts(m)'}
<1> HIDE DEF more
<1>8. Aged(writes, lastBuffered, n, Involved') /\ Aged(writes, lastBuffered, Len(to), Involved')
  <2>1. Aged(writes, lastBuffered, n, Involved) /\ n <= Len(to) /\ n <= n
    BY <1>1 DEF AgeInv, Early
  <2> HIDE DEF n
  <2>2. \A i \in Slots : writes[i].msg \in Int
    BY <1>1
  <2>3. Len(to) \in Int
    BY <1>1
  <2>4. QED
    BY <1>1, <1>4, <2>1, <2>2, <2>3, SameAged
<1>9. Held(writes, Len(to), Involved', S)
  <2> SUFFICES ASSUME NEW m \in 1 .. Len(to), m \notin Involved'
               PROVE  m \in S \/ Has(writes, m) \/ Len(to) - m >= N
    BY DEF Held
  <2>1. m \notin Involved /\ m \in 1 .. Len(to') /\ (Lasts(m)' <=> Lasts(m))
    BY <1>1, <1>2, <1>3, <1>4 DEF Lasts, more
  <2>2. (\E s \in sent : s.msg = m) \/ ~Lasts(m) \/ Has(writes, m) \/ Len(to) - m >= N
    BY <2>1 DEF HoldInv, Has
  <2>3. QED
    BY <2>1, <2>2
<1>10. /\ Aged(writes', lastBuffered', n + Len(to') - Len(to), Involved')
       /\ Held(writes', Len(to'), Involved', S)
  <2>1. n = Len(to) \/ Made \subseteq Involved'
    BY <1>4 DEF Early
  <2> HIDE DEF n, S
  <2>2. QED
    BY <1>1, <1>8, <1>9, <2>1, TimerAdds
<1>11. HoldInv'
  <2> SUFFICES ASSUME NEW m \in 1 .. Len(to'), m \notin Involved', Lasts(m)'
               PROVE  (\E s \in sent' : s.msg = m) \/ Has(writes', m) \/ Len(to') - m >= N
    BY DEF HoldInv, Has
  <2>1. m \in S \/ Has(writes', m) \/ Len(to') - m >= N
    BY <1>10 DEF Held
  <2>2. QED
    BY <1>2, <2>1
<1>12. AgeInv'
  <2>1. Aged(writes', lastBuffered', IF Early THEN Len(to') - 1 ELSE Len(to'), Involved')
    <3>1. n + Len(to') - Len(to) = IF Early THEN Len(to') - 1 ELSE Len(to')
      <4>1. Len(to') \in Nat
        BY <1>1, <1>2 DEF more
      <4>2. CASE Early
        BY <1>1, <4>1, <4>2
      <4>3. CASE ~Early
        BY <1>1, <4>1, <4>3
      <4>4. QED
        BY <4>2, <4>3
    <3>2. QED
      BY <1>10, <3>1
  <2>2. Len(to') \in Int /\ Len(to) \in Int /\ Len(to) <= Len(to')
    BY <1>1, <1>2 DEF more
  <2>3. ASSUME pc \in AddSteps, NEW c \in 0 .. N, Aged(writes, c, Len(to), Involved)
        PROVE  Aged(writes', c, Len(to'), Involved')
    <3>1. \A i \in Slots : writes'[i].msg = writes[i].msg \/ writes'[i].msg \in Involved'
      BY <1>4, <1>6, <2>3
    <3>2. \A i \in Slots : writes[i].msg \in Int
      BY <1>1
    <3>3. QED
      BY <1>4, <2>2, <2>3, <3>1, <3>2, SameAged
  <2>4. pc = "counted" => Aged(writes', at + 1, Len(to'), Involved')
    <3>1. pc = "counted" => /\ Aged(writes, at + 1, Len(to), Involved) /\ pc \in AddSteps
                            /\ at \in Slots
      BY DEF AgeInv, AddSteps, PcInv
    <3>2. at \in Slots => at + 1 \in 0 .. N
      BY <1>1 DEF Slots
    <3>3. QED
      BY <2>3, <3>1, <3>2
  <2>5. pc = "wrapped" => Aged(writes', at, Len(to'), Involved')
    <3>1. pc = "wrapped" => Aged(writes, at, Len(to), Involved) /\ pc \in AddSteps
      BY DEF AgeInv, AddSteps
    <3>2. QED
      BY <1>1, <2>3, <3>1
  <2>6. ASSUME pc \in {"occupied", "old", "freeOld", "message"}, writes'[at].msg \notin Involved'
        PROVE  Len(to') - writes'[at].msg >= N
    <3>1. at \in Slots /\ pc \in AddSteps
      BY <2>6 DEF PcInv, AddSteps
    <3>2. writes'[at].msg = writes[at].msg /\ writes[at].msg \notin Involved
      BY <1>4, <1>6, <2>6, <3>1
    <3>3. Len(to) - writes[at].msg >= N
      BY <2>6, <3>2 DEF AgeInv
    <3>4. QED
      BY <1>1, <2>2, <3>1, <3>2, <3>3
  <2>7. QED
    BY <1>2, <2>1, <2>4, <2>5, <2>6 DEF AgeInv, Early
<1>13. SlotInv'
  <2>1. Cleared' = Cleared
    BY <1>2 DEF Cleared
  <2>2. ASSUME NEW i \in Slots, writes'[i].msg \notin Involved'
        PROVE  /\ writes'[i].len = writes'[i].msg /\ to'[writes'[i].msg] = conn
               /\ i \notin Cleared
    <3>1. CASE writes'[i] = writes[i]
      <4>1. /\ writes[i].len = writes[i].msg /\ to[writes[i].msg] = conn
            /\ i \notin Cleared /\ writes[i].msg # NULL
        BY <1>4, <2>2, <3>1 DEF SlotInv
      <4>2. writes[i].msg \in 1 .. Len(to') /\ writes[i].msg <= Len(to)
        BY <1>1, <1>2, <4>1 DEF more
      <4>3. QED
        BY <1>2, <3>1, <4>1, <4>2
    <3>2. CASE writes'[i] # writes[i]
      <4>1. writes'[i].msg \in Made /\ writes'[i].len = writes'[i].msg
        BY <1>5, <3>2
      <4>2. pc \notin ClearSteps
        BY <1>4, <2>2, <4>1
      <4>3. Cleared = {}
        BY <4>2 DEF Cleared, ClearSteps
      <4>4. writes'[i].msg \in 1 .. Len(to') /\ ~(writes'[i].msg <= Len(to))
        BY <1>1, <1>3, <4>1
      <4>5. QED
        BY <1>2, <4>1, <4>3, <4>4
    <3>3. QED
      BY <3>1, <3>2
  <2>3. pc = "length" => writes'[at].msg \in Involved'
    <3>1. pc = "length" => at \in Slots /\ writes[at].msg \in Involved /\ pc \in AddSteps
      BY DEF SlotInv, PcInv, AddSteps
    <3>2. QED
      BY <1>4, <1>6, <3>1
  <2>4. \A m \in 1 .. Len(to') : to'[m] <= conn
    <3>1. TAKE m \in 1 .. Len(to')
    <3>2. CASE m <= Len(to)
      <4>1. m \in 1 .. Len(to) /\ to'[m] = to[m]
        BY <1>1, <1>2, <3>2
      <4>2. QED
        BY <4>1 DEF SlotInv
    <3>3. CASE ~(m <= Len(to))
      BY <1>1, <1>2, <3>3
    <3>4. QED
      BY <3>2, <3>3
  <2>5. QED
    BY <1>2, <2>1, <2>2, <2>3, <2>4 DEF SlotInv
<1>14. SentInv'
  <2>1. \A s \in sent :
          /\ s.msg <= Len(to')
          /\ s.msg \notin Involved' => s.len = s.msg /\ s.conn = to'[s.msg]
          /\ pc \in AddSteps => s.msg # mine
    <3>1. TAKE s \in sent
    <3>2. s.msg \in 1 .. Len(to) /\ s.msg \in 1 .. Len(to') /\ s.msg <= Len(to')
      BY <1>1, <1>2 DEF SentInv, more
    <3>3. to'[s.msg] = to[s.msg]
      BY <1>2, <3>2
    <3>4. QED
      BY <1>4, <3>2, <3>3 DEF SentInv
  <2>2. ASSUME pc = "write", reg \notin Involved'
        PROVE  len = reg /\ to'[reg] = conn
    <3>1. len = reg /\ to[reg] = conn /\ reg # NULL
      BY <1>4, <2>2 DEF SentInv
    <3>2. reg \in 1 .. Len(to') /\ reg <= Len(to)
      BY <1>1, <1>2, <3>1 DEF more
    <3>3. QED
      BY <1>2, <3>1, <3>2
  <2>3. ASSUME pc \in {"write", "again", "free", "null"}, writes'[lastWritten].msg \notin Involved'
        PROVE  writes'[lastWritten] = writes[lastWritten]
    <3>1. CASE writes'[lastWritten] # writes[lastWritten]
      <4>1. Strikes
        BY <2>3, <3>1 DEF Strikes, AtHand, WalkSteps
      <4>2. writes'[lastWritten].msg \in Made
        BY <1>1, <1>5, <3>1
      <4>3. QED
        BY <1>4, <2>3, <4>1, <4>2
    <3>2. QED
      BY <3>1
  <2>4. pc = "write" /\ writes'[lastWritten].msg \notin Involved'
          => reg = writes'[lastWritten].msg
    BY <1>4, <2>3 DEF SentInv
  <2>5. pc \in {"again", "free", "null"} /\ writes'[lastWritten].msg \notin Involved'
          => \E s \in sent : s.msg = writes'[lastWritten].msg
    BY <1>4, <2>3 DEF SentInv
  <2>6. QED
    BY <1>2, <2>1, <2>2, <2>4, <2>5 DEF SentInv
<1>15. QED
  BY <1>7, <1>11, <1>12, <1>13, <1>14

-----------------------------------------------------------------------------
(* The bystanders. *)

(* BystanderInv is inductive, given that the ring is sound. *)
LEMMA BystanderStep == RingIInv /\ BystanderInv /\ [Next]_vars => BystanderInv'
<1> SUFFICES ASSUME RingIInv, BystanderInv, [Next]_vars, crash' = "no"
             PROVE  AgeInv' /\ SlotInv' /\ SentInv' /\ AddInv' /\ HoldInv'
  BY DEF BystanderInv
<1>1. TypeOK /\ PcInv /\ NumberInv
  BY DEF RingIInv
<1>2. CASE UNCHANGED vars
  <2>1. AgeInv /\ SlotInv /\ SentInv /\ AddInv /\ HoldInv
    BY <1>2 DEF BystanderInv, vars, memory
  <2>2. /\ UNCHANGED <<writes, lastBuffered, lastWritten, pc, at, reg, len, mine>>
        /\ UNCHANGED <<socketInstance, conn, to, sent, torn>>
    BY <1>2 DEF vars, ring, main, page, history
  <2>3. Involved' = Involved /\ Cleared' = Cleared /\ Cell' = Cell
    BY <2>2 DEF Involved, Cleared, Cell
  <2>4. QED
    BY <2>1, <2>2, <2>3 DEF AgeInv, SlotInv, SentInv, AddInv, HoldInv, Lasts, Has
<1>3. CASE Main
  <2>1. crash = "no"
    BY <1>3 DEF Main, Add, Walk, Connection, SendMsg, AddSlot, AddOccupied, AddOld, AddFreeOld,
       AddMessage, AddLength, AddCount, AddCounted, AddWrap, AddWrapped, Writeable, WalkLook,
       WalkTake, WalkWrite, WalkAgain, WalkFree, WalkNull, WalkNext, Established, Closed,
       ClearTest, ClearLoad, ClearFree, ClearNull, ClearLength, ClearNext, ClearReset,
       Disconnect, Step
  <2>2. AgeInv /\ SlotInv /\ SentInv /\ AddInv /\ HoldInv
    BY <2>1 DEF BystanderInv
  <2>3. QED
    BY <1>1, <1>3, <2>2, AgeMain, SlotMain, SentMain, AddMain, HoldMain
<1>4. CASE Timer
  <2>1. AgeInv /\ SlotInv /\ SentInv /\ AddInv /\ HoldInv
    BY <1>4 DEF BystanderInv, Timer
  <2>2. QED
    BY <1>1, <1>4, <2>1, BystanderTimer
<1>5. QED
  BY <1>2, <1>3, <1>4 DEF Next

(* It holds first. *)
LEMMA BystanderInit == Init => BystanderInv
<1> SUFFICES ASSUME Init PROVE AgeInv /\ SlotInv /\ SentInv /\ AddInv /\ HoldInv
  BY DEF BystanderInv
<1>1. NULL \in Involved /\ Len(to) = 0 /\ Cleared = {} /\ pc \notin AddSteps
  BY DEF Init, Involved, Cleared, AddSteps
<1>2. \A i \in Slots : writes[i].msg = NULL
  BY DEF Init
<1>3. \A m \in 1 .. Len(to) : FALSE
  BY <1>1
<1>4. QED
  BY <1>1, <1>2, <1>3 DEF Init, AgeInv, Aged, SlotInv, SentInv, AddInv, HoldInv

(* BystandersUnharmed, for every ring size and any interleaving: whatever  *)
(* the handler struck, a message that was not being added, nor made by the *)
(* handler then, goes at most to its own connection and with its own       *)
(* length; and while that connection lasts it was sent, is in the ring, or *)
(* was pushed out by N messages accepted after it.                         *)
THEOREM BystandersUnharmedAlways == Spec => []BystandersUnharmed
<1>1. RingIInv /\ BystanderInv => BystandersUnharmed
  <2> SUFFICES ASSUME RingIInv, BystanderInv, crash = "no", NEW m \in DOMAIN to,
                      m \notin torn, ~(pc \in AddSteps /\ mine = m)
               PROVE  /\ \A s \in sent : s.msg = m => s.len = m /\ s.conn = to[m]
                      /\ \/ ~Lasts(m)
                         \/ \E s \in sent : s.msg = m
                         \/ \E i \in Slots : writes[i] = [msg |-> m, len |-> m]
                         \/ Len(to) - m >= N
    BY DEF BystandersUnharmed
  <2>1. TypeOK /\ PcInv /\ NumberInv /\ SentInv /\ HoldInv
    BY DEF RingIInv, BystanderInv
  <2>2. to \in Seq(1 .. MaxConns) /\ NULL = 0
    BY <2>1, RingFacts
  <2>3. m \in 1 .. Len(to) /\ m # NULL
    BY <2>2, LenProperties
  <2>4. m \notin Involved
    BY <2>3 DEF Involved
  <2>5. QED
    BY <2>1, <2>3, <2>4 DEF SentInv, HoldInv, Has
<1>2. QED
  BY <1>1, BystanderInit, BystanderStep, RingIInvAlways, PTL DEF Spec
====
