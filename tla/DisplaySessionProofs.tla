------------------------ MODULE DisplaySessionProofs ------------------------
(* Theorems about DisplaySession, for any number of pages and plugins.     *)
EXTENDS DisplaySession, FiniteSetTheorems, SequenceTheorems, TLAPS

(* Nothing unusual happened, and no page was left. *)
Calm == leaves = 0 /\ happened = {}

(* The main thread: the two flags of daemonProcess are one, and a plugin   *)
(* is at hand only in the first loop of the shutdown.                      *)
LoopInv ==
  /\ pluginSent = oldWebStatus
  /\ turn # {} => pc = "update"
  /\ pc \notin {"check", "service"} => shutdown

(* While pages come one after the other, the one there is is the daemon's. *)
OneInv ==
  "overlap" \notin happened =>
    /\ ~crashed
    /\ \A p, q \in open : p = q
    /\ \A p \in open : displaySocketInstance = p
    /\ readyReceived # {} => displayConnected

(* What was loaded stays connected; a shutdown begins with the plugins     *)
(* loaded, or without a page.                                              *)
CalmInv ==
  Calm =>
    /\ alive = open /\ (open = {} => loadedPlugins = 0)
    /\ pluginSent => IsDisplayConnected
    /\ shutdown => open = {} \/ pluginSent

UnusedInv == \A p \in unused : pluginList[p] = {} /\ toPage[p] = <<>>

(* A command that changes the set of loaded plugins, from S to U. *)
Effective(m, S, U) ==
  IF m.cmd = "load" THEN m.pName \notin S /\ U = S \cup {m.pName}
  ELSE m.pName \in S /\ U = S \ {m.pName}

(* The commands of q, each of them effective, lead from S to U: h[i] is    *)
(* what is loaded after i of them.                                         *)
Leads(q, S, U) ==
  \E h \in [0 .. Len(q) -> SUBSET Plugins] :
    /\ h[0] = S /\ h[Len(q)] = U
    /\ \A i \in 1 .. Len(q) : Effective(q[i], h[i - 1], h[i])

(* The plugins that the page is to have in the end. *)
Intended == IF pluginSent THEN enabled \ turn ELSE {}

QueueInv == Calm => \A p \in open : Leads(toPage[p], pluginList[p], Intended)

CountInv ==
  Calm => \A p \in open :
    loadedPlugins + Reported(p, "loaded") - Reported(p, "unloaded")
      = Cardinality(pluginList[p])

DisplayIInv ==
  TypeOK /\ LoopInv /\ OneInv /\ CalmInv /\ UnusedInv /\ QueueInv /\ CountInv

-----------------------------------------------------------------------------
(* Sequences of commands. *)

(* None leads nowhere. *)
LEMMA LeadsNowhere ==
  ASSUME NEW S \in SUBSET Plugins
  PROVE  Leads(<<>>, S, S)
<1> DEFINE h == [i \in 0 .. 0 |-> S]
<1>1. h \in [0 .. Len(<<>>) -> SUBSET Plugins] /\ h[0] = S /\ h[Len(<<>>)] = S
  OBVIOUS
<1>2. 1 .. Len(<<>>) = {}
  OBVIOUS
<1> HIDE DEF h
<1> QED BY <1>1, <1>2 DEF Leads

(* One, effective, leads to its effect. *)
LEMMA LeadsOne ==
  ASSUME NEW S \in SUBSET Plugins, NEW U \in SUBSET Plugins, NEW m \in Messages,
         Effective(m, S, U)
  PROVE  Leads(<<m>>, S, U)
<1> DEFINE h == [i \in 0 .. 1 |-> IF i = 0 THEN S ELSE U]
<1>1. h \in [0 .. 1 -> SUBSET Plugins] /\ h[0] = S /\ h[1] = U
  OBVIOUS
<1>2. Len(<<m>>) = 1 /\ <<m>>[1] = m /\ \A i \in 1 .. 1 : i = 1 /\ i - 1 = 0
  OBVIOUS
<1> HIDE DEF h
<1>3. \A i \in 1 .. Len(<<m>>) : Effective(<<m>>[i], h[i - 1], h[i])
  BY <1>1, <1>2
<1> QED BY <1>1, <1>2, <1>3 DEF Leads

(* Where the first leads, the second goes on. *)
LEMMA LeadsOn ==
  ASSUME NEW q \in Seq(Messages), NEW s \in Seq(Messages),
         NEW S, NEW T, NEW U, Leads(q, S, T), Leads(s, T, U)
  PROVE  Leads(q \o s, S, U)
<1> DEFINE n == Len(q)
           m == Len(s)
<1>1. PICK f \in [0 .. n -> SUBSET Plugins] :
        /\ f[0] = S /\ f[n] = T /\ \A i \in 1 .. n : Effective(q[i], f[i - 1], f[i])
  BY DEF Leads
<1>2. PICK g \in [0 .. m -> SUBSET Plugins] :
        /\ g[0] = T /\ g[m] = U /\ \A i \in 1 .. m : Effective(s[i], g[i - 1], g[i])
  BY DEF Leads
<1>3. /\ n \in Nat /\ m \in Nat /\ Len(q \o s) = n + m
      /\ \A i \in 1 .. n : (q \o s)[i] = q[i]
      /\ \A i \in n + 1 .. n + m : (q \o s)[i] = s[i - n]
  BY ConcatProperties, LenProperties
<1> HIDE DEF n, m
<1> DEFINE h == [i \in 0 .. n + m |-> IF i <= n THEN f[i] ELSE g[i - n]]
<1>4. h \in [0 .. n + m -> SUBSET Plugins]
  <2>1. ASSUME NEW i \in 0 .. n + m
        PROVE  (IF i <= n THEN f[i] ELSE g[i - n]) \in SUBSET Plugins
    <3>1. CASE i <= n
      <4>1. i \in 0 .. n
        BY <3>1, <1>3
      <4> QED BY <4>1, <3>1
    <3>2. CASE ~(i <= n)
      <4>1. i - n \in 0 .. m
        BY <3>2, <1>3
      <4> QED BY <4>1, <3>2
    <3> QED BY <3>1, <3>2
  <2> QED BY <2>1
<1>5. \A i \in 0 .. n : h[i] = f[i]
  <2>1. \A i \in 0 .. n : i \in 0 .. n + m /\ i <= n
    BY <1>3
  <2> QED BY <2>1
<1>6. \A i \in n .. n + m : h[i] = g[i - n]
  <2>1. ASSUME NEW i \in n .. n + m
        PROVE  h[i] = g[i - n]
    <3>1. i \in 0 .. n + m
      BY <1>3
    <3>2. CASE i <= n
      <4>1. i = n /\ i - n = 0
        BY <3>2, <1>3
      <4> QED BY <4>1, <3>1, <1>1, <1>2
    <3>3. CASE ~(i <= n)
      BY <3>1, <3>3
    <3> QED BY <3>2, <3>3
  <2> QED BY <2>1
<1> HIDE DEF h
<1>7. h[0] = S /\ h[n + m] = U
  <2>1. 0 \in 0 .. n /\ n + m \in n .. n + m /\ (n + m) - n = m
    BY <1>3
  <2> QED BY <2>1, <1>1, <1>2, <1>5, <1>6
<1>8. ASSUME NEW i \in 1 .. n + m
      PROVE  Effective((q \o s)[i], h[i - 1], h[i])
  <2>1. CASE i <= n
    <3>1. i \in 1 .. n /\ i \in 0 .. n /\ i - 1 \in 0 .. n
      BY <2>1, <1>3
    <3> QED BY <3>1, <1>1, <1>3, <1>5
  <2>2. CASE ~(i <= n)
    <3>1. /\ i \in n + 1 .. n + m /\ i \in n .. n + m /\ i - 1 \in n .. n + m
          /\ i - n \in 1 .. m /\ (i - 1) - n = (i - n) - 1
      BY <2>2, <1>3
    <3>2. h[i] = g[i - n] /\ h[i - 1] = g[(i - n) - 1] /\ (q \o s)[i] = s[i - n]
      BY <3>1, <1>3, <1>6
    <3> QED BY <3>1, <3>2, <1>2
  <2> QED BY <2>1, <2>2
<1> QED BY <1>3, <1>4, <1>7, <1>8 DEF Leads

(* The first command has its effect, and the others lead on. *)
LEMMA LeadsFirst ==
  ASSUME NEW q \in Seq(Messages), q # <<>>, NEW S, NEW U, Leads(q, S, U)
  PROVE  \E T \in SUBSET Plugins : Effective(Head(q), S, T) /\ Leads(Tail(q), T, U)
<1> DEFINE n == Len(q)
<1>1. PICK f \in [0 .. n -> SUBSET Plugins] :
        /\ f[0] = S /\ f[n] = U /\ \A i \in 1 .. n : Effective(q[i], f[i - 1], f[i])
  BY DEF Leads
<1>2. /\ n \in Nat \ {0} /\ Head(q) = q[1] /\ Len(Tail(q)) = n - 1
      /\ \A i \in 1 .. n - 1 : Tail(q)[i] = q[i + 1]
  <2>1. n \in Nat /\ n # 0
    BY LenProperties, EmptySeq
  <2>2. /\ Len(Tail(q)) = n - 1 /\ \A i \in 1 .. n - 1 : Tail(q)[i] = q[i + 1]
    BY <2>1, HeadTailProperties
  <2> QED BY <2>1, <2>2
<1> HIDE DEF n
<1> DEFINE h == [i \in 0 .. n - 1 |-> f[i + 1]]
<1>3. \A i \in 0 .. n - 1 : i + 1 \in 0 .. n
  BY <1>2
<1>4. h \in [0 .. n - 1 -> SUBSET Plugins]
  BY <1>3
<1>5. \A i \in 0 .. n - 1 : h[i] = f[i + 1]
  OBVIOUS
<1> HIDE DEF h
<1>6. h[0] = f[1] /\ h[n - 1] = U
  <2>1. 0 \in 0 .. n - 1 /\ n - 1 \in 0 .. n - 1 /\ (n - 1) + 1 = n /\ 0 + 1 = 1
    BY <1>2
  <2> QED BY <2>1, <1>1, <1>5
<1>7. ASSUME NEW i \in 1 .. n - 1
      PROVE  Effective(Tail(q)[i], h[i - 1], h[i])
  <2>1. /\ i \in 0 .. n - 1 /\ i - 1 \in 0 .. n - 1 /\ (i - 1) + 1 = i
        /\ i + 1 \in 1 .. n /\ (i + 1) - 1 = i
    BY <1>2
  <2>2. h[i] = f[i + 1] /\ h[i - 1] = f[i] /\ Tail(q)[i] = q[i + 1]
    BY <2>1, <1>2, <1>5
  <2> QED BY <2>1, <2>2, <1>1
<1>8. Leads(Tail(q), f[1], U)
  BY <1>2, <1>4, <1>6, <1>7 DEF Leads
<1>9. f[1] \in SUBSET Plugins /\ Effective(Head(q), S, f[1])
  <2>1. 1 \in 0 .. n /\ 1 \in 1 .. n /\ 1 - 1 = 0
    BY <1>2
  <2> QED BY <2>1, <1>1, <1>2
<1> QED BY <1>8, <1>9

(* The command to load or unload each of a set of plugins. *)
Order(cmd, x) == [cmd |-> cmd, pName |-> x]
Orders(cmd, S) == {Order(cmd, x) : x \in S}

(* SetToSeq lists each element of a finite set once. *)
LEMMA SetToSeqLists ==
  ASSUME NEW S, IsFiniteSet(S)
  PROVE  /\ SetToSeq(S) \in Seq(S) /\ Len(SetToSeq(S)) = Cardinality(S)
         /\ \A i, j \in DOMAIN SetToSeq(S) : SetToSeq(S)[i] = SetToSeq(S)[j] => i = j
         /\ \A x \in S : \E i \in DOMAIN SetToSeq(S) : SetToSeq(S)[i] = x
<1> DEFINE n == Cardinality(S)
           Lists(f) == f \in [1 .. n -> S] /\ IsInjective(f)
           q == SetToSeq(S)
<1>1. n \in Nat /\ ExistsBijection(1 .. n, S)
  BY FS_CardinalityType
<1>2. \E f : Lists(f)
  BY <1>1 DEF ExistsBijection, Bijection, Injection, IsInjective
<1>3. q = CHOOSE f : Lists(f)
  BY DEF SetToSeq
<1>4. Lists(q)
  BY <1>2, <1>3
<1>5. q \in Seq(S) /\ DOMAIN q = 1 .. n /\ Len(q) = n
  BY <1>1, <1>4
<1>6. \A i, j \in DOMAIN q : q[i] = q[j] => i = j
  BY <1>4 DEF IsInjective
<1>7. q \in Injection(1 .. n, S)
  BY <1>4 DEF Injection, IsInjective
<1>8. IsFiniteSet(1 .. n) /\ Cardinality(1 .. n) = n
  BY <1>1, FS_Interval
<1>9. q \in Surjection(1 .. n, S)
  BY <1>7, <1>8, FS_Injection
<1> QED BY <1>5, <1>6, <1>9 DEF Surjection

(* There are finitely many commands to load or unload plugins. *)
LEMMA OrdersFinite ==
  ASSUME NEW S \in SUBSET Plugins, NEW cmd \in {"load", "unload"}
  PROVE  IsFiniteSet(Orders(cmd, S)) /\ Orders(cmd, S) \subseteq Messages
<1> DEFINE f == [x \in S |-> Order(cmd, x)]
<1>1. IsFiniteSet(S)
  BY PluginsAssumption, FS_Subset
<1>2. \A x, y \in S : Order(cmd, x) = Order(cmd, y) => x = y
  <2>1. \A x : Order(cmd, x).pName = x
    BY DEF Order
  <2> QED BY <2>1
<1>3. f \in [S -> Orders(cmd, S)]
  BY DEF Orders
<1>4. f \in Bijection(S, Orders(cmd, S))
  BY <1>2, <1>3 DEF Bijection, Injection, Surjection, Orders, IsInjective
<1>5. IsFiniteSet(Orders(cmd, S))
  BY <1>1, <1>4, FS_Bijection DEF ExistsBijection
<1>6. \A x \in S : Order(cmd, x) \in Messages
  BY DEF Order, Messages
<1> QED BY <1>5, <1>6 DEF Orders

(* They lead from no plugin to all of these. *)
LEMMA LeadsAll ==
  ASSUME NEW S \in SUBSET Plugins
  PROVE  SetToSeq(Orders("load", S)) \in Seq(Messages) /\ Leads(SetToSeq(Orders("load", S)), {}, S)
<1>1. PICK q : q = SetToSeq(Orders("load", S))
  OBVIOUS
<1>2. /\ q \in Seq(Orders("load", S))
      /\ \A i, j \in DOMAIN q : q[i] = q[j] => i = j
      /\ \A m \in Orders("load", S) : \E i \in DOMAIN q : q[i] = m
  BY <1>1, OrdersFinite, SetToSeqLists
<1>3. PICK n \in Nat : n = Len(q) /\ DOMAIN q = 1 .. n
  BY <1>2, LenProperties
<1>4. \A i \in 1 .. n : q[i] \in Orders("load", S)
  BY <1>2, <1>3, ElementOfSeq
<1>5. \A i \in 1 .. n : q[i].cmd = "load" /\ q[i].pName \in S /\ q[i] = Order("load", q[i].pName)
  BY <1>4 DEF Orders, Order
<1> DEFINE h == [i \in 0 .. n |-> {q[j].pName : j \in 1 .. i}]
<1>6. \A i \in 0 .. n : h[i] = {q[j].pName : j \in 1 .. i}
  OBVIOUS
<1>7. h \in [0 .. n -> SUBSET Plugins]
  <2>1. ASSUME NEW i \in 0 .. n
        PROVE  {q[j].pName : j \in 1 .. i} \in SUBSET Plugins
    <3>1. \A j \in 1 .. i : j \in 1 .. n
      BY <1>3
    <3> QED BY <3>1, <1>5
  <2> QED BY <2>1
<1> HIDE DEF h
<1>8. h[0] = {}
  <2>1. 0 \in 0 .. n /\ 1 .. 0 = {}
    BY <1>3
  <2> QED BY <2>1, <1>6
<1>9. h[n] = S
  <2>1. h[n] = {q[j].pName : j \in 1 .. n}
    BY <1>3, <1>6
  <2>2. ASSUME NEW x \in S
        PROVE  \E j \in 1 .. n : q[j].pName = x
    <3>1. PICK j \in 1 .. n : q[j] = Order("load", x)
      BY <1>2, <1>3 DEF Orders
    <3>2. Order("load", x).pName = x
      BY DEF Order
    <3> QED BY <3>1, <3>2
  <2> QED BY <2>1, <2>2, <1>5
<1>10. ASSUME NEW i \in 1 .. n
       PROVE  Effective(q[i], h[i - 1], h[i])
  <2>1. i \in 0 .. n /\ i - 1 \in 0 .. n
    BY <1>3
  <2>2. h[i] = {q[j].pName : j \in 1 .. i} /\ h[i - 1] = {q[j].pName : j \in 1 .. i - 1}
    BY <2>1, <1>6
  <2>3. 1 .. i = (1 .. i - 1) \cup {i} /\ i \notin 1 .. i - 1 /\ 1 .. i - 1 \subseteq 1 .. n
    BY <1>3
  <2>4. h[i] = h[i - 1] \cup {q[i].pName}
    BY <2>2, <2>3
  <2>5. q[i].pName \notin h[i - 1]
    <3>1. \A j \in 1 .. i - 1 : q[j].pName # q[i].pName
      BY <2>3, <1>2, <1>3, <1>5
    <3> QED BY <3>1, <2>2
  <2> QED BY <2>4, <2>5, <1>5 DEF Effective
<1>11. q \in Seq(Messages)
  BY <1>2, OrdersFinite, SeqMonotonic
<1> QED BY <1>1, <1>3, <1>7, <1>8, <1>9, <1>10, <1>11 DEF Leads

(* One command, or none. *)
LEMMA OrderOne ==
  ASSUME NEW cmd, NEW x
  PROVE  SetToSeq(Orders(cmd, {x})) = <<Order(cmd, x)>> /\ SetToSeq(Orders(cmd, {})) = <<>>
<1>1. Orders(cmd, {x}) = {Order(cmd, x)} /\ Orders(cmd, {}) = {}
  BY DEF Orders
<1>2. PICK m : m = Order(cmd, x)
  OBVIOUS
<1>3. IsFiniteSet({m}) /\ Cardinality({m}) = 1
  BY FS_Singleton
<1>4. SetToSeq({m}) \in Seq({m}) /\ Len(SetToSeq({m})) = 1
  BY <1>3, SetToSeqLists
<1>5. SetToSeq({m}) = <<m>>
  <2>1. PICK q : q = SetToSeq({m})
    OBVIOUS
  <2>2. q \in [1 .. 1 -> {m}]
    BY <2>1, <1>4, LenProperties
  <2>3. 1 .. 1 = {1}
    OBVIOUS
  <2> QED BY <2>1, <2>2, <2>3
<1>6. SetToSeq({}) \in Seq({}) /\ Len(SetToSeq({})) = 0
  BY FS_EmptySet, SetToSeqLists
<1>7. SetToSeq({}) = <<>>
  BY <1>6, EmptySeq
<1> QED BY <1>1, <1>2, <1>5, <1>7

-----------------------------------------------------------------------------
(* Messages on their way. *)

CountIn(s, msg) == Cardinality({i \in DOMAIN s : s[i] = msg})

(* One more at the end. *)
LEMMA CountAppend ==
  ASSUME NEW M, NEW s \in Seq(M), NEW m \in M, NEW msg
  PROVE  /\ CountIn(s, msg) \in Nat
         /\ CountIn(Append(s, m), msg) = CountIn(s, msg) + (IF m = msg THEN 1 ELSE 0)
<1>1. PICK n \in Nat : n = Len(s) /\ DOMAIN s = 1 .. n
  BY LenProperties
<1>2. PICK t : t = Append(s, m)
  OBVIOUS
<1>3. DOMAIN t = 1 .. n + 1 /\ t[n + 1] = m /\ \A i \in 1 .. n : t[i] = s[i]
  BY <1>1, <1>2, AppendProperties, LenProperties
<1> DEFINE S == {i \in DOMAIN s : s[i] = msg}
           T == {i \in DOMAIN t : t[i] = msg}
<1>4. IsFiniteSet(S)
  <2>1. IsFiniteSet(1 .. n)
    BY FS_Interval
  <2> QED BY <2>1, <1>1, FS_Subset
<1>5. Cardinality(S) \in Nat
  BY <1>4, FS_CardinalityType
<1>6. n + 1 \notin S /\ \A i \in 1 .. n + 1 : i \in 1 .. n \/ i = n + 1
  BY <1>1
<1>7. CASE m = msg
  <2>1. T = S \cup {n + 1}
    BY <1>1, <1>3, <1>6, <1>7
  <2> HIDE DEF S, T
  <2>2. Cardinality(T) = Cardinality(S) + 1
    BY <2>1, <1>4, <1>6, FS_AddElement
  <2> QED BY <2>2, <1>2, <1>5, <1>7 DEF CountIn, S, T
<1>8. CASE m # msg
  <2>1. T = S
    BY <1>1, <1>3, <1>6, <1>8
  <2> HIDE DEF S, T
  <2>2. Cardinality(T) = Cardinality(S)
    BY <2>1
  <2>3. CountIn(s, msg) = Cardinality(S) /\ CountIn(t, msg) = Cardinality(T)
    BY DEF CountIn, S, T
  <2> QED BY <2>2, <2>3, <1>2, <1>5, <1>8
<1> QED BY <1>7, <1>8

(* One less at the front. *)
LEMMA CountTail ==
  ASSUME NEW M, NEW s \in Seq(M), s # <<>>, NEW msg
  PROVE  /\ CountIn(Tail(s), msg) \in Nat
         /\ CountIn(s, msg) = CountIn(Tail(s), msg) + (IF Head(s) = msg THEN 1 ELSE 0)
<1>1. PICK n \in Nat : n = Len(s) /\ DOMAIN s = 1 .. n
  BY LenProperties
<1>2. PICK t : t = Tail(s)
  OBVIOUS
<1>3. /\ n # 0 /\ Head(s) = s[1] /\ t \in Seq(M)
      /\ DOMAIN t = 1 .. n - 1 /\ \A i \in 1 .. n - 1 : t[i] = s[i + 1]
  BY <1>1, <1>2, EmptySeq, HeadTailProperties, LenProperties
<1> DEFINE S == {i \in 1 .. n : s[i] = msg}
           L == {i \in 2 .. n : s[i] = msg}
           T == {i \in 1 .. n - 1 : t[i] = msg}
<1>4. IsFiniteSet(T)
  <2>1. IsFiniteSet(1 .. n - 1)
    <3>1. n - 1 \in Int /\ 1 \in Int
      OBVIOUS
    <3> QED BY <3>1, FS_Interval
  <2> QED BY <2>1, FS_Subset
<1>5. Cardinality(T) \in Nat
  BY <1>4, FS_CardinalityType
<1> DEFINE f == [i \in T |-> i + 1]
<1>6. ExistsBijection(T, L)
  <2>1. \A i \in T : i \in Int /\ i + 1 \in L
    BY <1>3
  <2>2. ASSUME NEW j \in L
        PROVE  j - 1 \in T /\ (j - 1) + 1 = j
    <3>1. j - 1 \in 1 .. n - 1 /\ (j - 1) + 1 = j
      OBVIOUS
    <3>2. t[j - 1] = s[j]
      BY <3>1, <1>3
    <3> QED BY <3>1, <3>2
  <2> HIDE DEF T, L
  <2>3. f \in [T -> L] /\ \A i \in T : f[i] = i + 1
    BY <2>1
  <2>4. \A i, j \in T : f[i] = f[j] => i = j
    BY <2>1, <2>3
  <2>5. \A j \in L : \E i \in T : f[i] = j
    BY <2>2, <2>3
  <2> HIDE DEF f
  <2>6. f \in Bijection(T, L)
    BY <2>3, <2>4, <2>5 DEF Bijection, Injection, Surjection, IsInjective
  <2> QED BY <2>6 DEF ExistsBijection
<1>7. IsFiniteSet(L) /\ Cardinality(L) = Cardinality(T)
  BY <1>4, <1>6, FS_Bijection
<1>8. 1 \notin L /\ \A i \in 1 .. n : i = 1 \/ i \in 2 .. n
  OBVIOUS
<1>9. CASE Head(s) = msg
  <2>1. S = L \cup {1}
    BY <1>3, <1>8, <1>9
  <2> HIDE DEF S, L, T
  <2>2. Cardinality(S) = Cardinality(L) + 1
    BY <2>1, <1>7, <1>8, FS_AddElement
  <2> QED BY <2>2, <1>1, <1>2, <1>3, <1>5, <1>7, <1>9 DEF CountIn, S, T
<1>10. CASE Head(s) # msg
  <2>1. S = L
    BY <1>3, <1>8, <1>10
  <2> HIDE DEF S, L, T
  <2>2. Cardinality(S) = Cardinality(T)
    BY <2>1, <1>7
  <2>3. CountIn(s, msg) = Cardinality(S) /\ CountIn(t, msg) = Cardinality(T)
    BY <1>1, <1>3 DEF CountIn, S, T
  <2> QED BY <2>2, <2>3, <1>2, <1>5, <1>10
<1> QED BY <1>9, <1>10

-----------------------------------------------------------------------------
(* Type correctness, in parts. *)

MainType ==
  /\ enabled \subseteq Plugins /\ todo \subseteq Plugins /\ turn \subseteq Plugins
  /\ oldWebStatus \in BOOLEAN /\ pluginSent \in BOOLEAN /\ shutdown \in BOOLEAN
  /\ pc \in {"check", "service", "disable", "update", "drain", "wait", "stopped"}
  /\ leaves \in 0 .. MaxLeaves /\ calls \in 0 .. MaxCalls
  /\ happened \subseteq Circumstances
SocketType ==
  /\ displaySocketInstance \in open \cup {NoPage}
  /\ displayConnected \in BOOLEAN /\ sawClose \in BOOLEAN /\ crashed \in BOOLEAN
  /\ loadedPlugins \in Int
  /\ readyReceived \subseteq open /\ open \subseteq Pages /\ alive \subseteq open
  /\ unused \subseteq Pages \ open
PageType ==
  /\ pluginList \in [Pages -> SUBSET Plugins]
  /\ toPage \in [Pages -> Seq(Messages)]
  /\ toDaemon \in [Pages -> Seq({"ready", "loaded", "unloaded"})]

(* TypeOK is these parts. *)
LEMMA TypeParts == TypeOK <=> MainType /\ SocketType /\ PageType
BY DEF TypeOK, MainType, SocketType, PageType

(* Under adds circumstances to those that arose. *)
LEMMA UnderGrows ==
  ASSUME NEW cs, Under(cs), happened \subseteq Circumstances
  PROVE  /\ happened \subseteq happened' /\ happened' \subseteq Circumstances
         /\ cs \subseteq happened'
BY DEF Under

(* What Bootstrap sends: to the page there is, if the daemon sees it. *)
LEMMA BootstrapSends ==
  ASSUME SocketType, PageType, NEW cmd \in {"load", "unload"}, NEW S \in SUBSET Plugins,
         Bootstrap(cmd, S)
  PROVE  /\ SetToSeq(Orders(cmd, S)) \in Seq(Messages)
         /\ toPage' \in [Pages -> Seq(Messages)]
         /\ \A q \in Pages :
              toPage'[q] = IF IsDisplayConnected /\ q = displaySocketInstance
                           THEN toPage[q] \o SetToSeq(Orders(cmd, S)) ELSE toPage[q]
<1>1. PICK s : s = SetToSeq(Orders(cmd, S))
  OBVIOUS
<1>2. IsFiniteSet(Orders(cmd, S)) /\ Orders(cmd, S) \subseteq Messages
  BY OrdersFinite
<1>3. s \in Seq(Messages)
  BY <1>1, <1>2, SetToSeqLists, SeqMonotonic
<1>4. toPage \in [Pages -> Seq(Messages)]
  BY DEF PageType
<1>5. toPage' = IF ~IsDisplayConnected THEN toPage
                ELSE [toPage EXCEPT ![displaySocketInstance] =
                        toPage[displaySocketInstance] \o s]
  BY <1>1 DEF Bootstrap, Orders, Order
<1>6. \A q \in Pages : toPage[q] \o s \in Seq(Messages)
  BY <1>3, <1>4, ConcatProperties
<1>7. IsDisplayConnected => displaySocketInstance \in Pages
  BY DEF IsDisplayConnected, SocketType
<1>8. CASE ~IsDisplayConnected
  BY <1>1, <1>3, <1>4, <1>5, <1>8
<1>9. CASE IsDisplayConnected
  <2>1. toPage' = [toPage EXCEPT ![displaySocketInstance] =
                     toPage[displaySocketInstance] \o s]
    BY <1>5, <1>9
  <2> QED BY <2>1, <1>1, <1>3, <1>4, <1>6, <1>7, <1>9
<1> QED BY <1>8, <1>9

-----------------------------------------------------------------------------
(* One step, for each part of the invariant. *)

(* The step of Next, action by action, with every name a stutter keeps. *)
LEMMA StepCases ==
  ASSUME [Next]_vars
  PROVE  \/ Check \/ ShutdownUnload \/ Drain \/ EndService \/ Stop
         \/ \E p \in Pages : \/ Established(p) \/ Receive(p) \/ Closed(p)
                             \/ PageActs(p) \/ Leave(p)
         \/ \E x \in Plugins : EnablePlugin(x) \/ DisablePlugin(x)
         \/ /\ enabled' = enabled /\ displaySocketInstance' = displaySocketInstance
            /\ displayConnected' = displayConnected /\ loadedPlugins' = loadedPlugins
            /\ oldWebStatus' = oldWebStatus /\ pluginSent' = pluginSent
            /\ shutdown' = shutdown /\ pc' = pc /\ turn' = turn /\ todo' = todo
            /\ open' = open /\ readyReceived' = readyReceived /\ unused' = unused
            /\ alive' = alive /\ pluginList' = pluginList
            /\ toPage' = toPage /\ toDaemon' = toDaemon
            /\ sawClose' = sawClose /\ crashed' = crashed /\ happened' = happened
            /\ leaves' = leaves /\ calls' = calls
BY DEF Next, MainStep, vars, seen, loop, sockets, net, bounds

(* The main thread's variables. *)
LEMMA MainTypeStep ==
  ASSUME TypeOK, [Next]_vars PROVE MainType'
<1> USE DEF MainType
<1>0. MainType /\ SocketType
  BY TypeParts
<1>1. ASSUME Check PROVE MainType'
  <2>1. IsDisplayConnected \in BOOLEAN
    BY <1>0 DEF IsDisplayConnected, SocketType
  <2> QED BY <1>0, <1>1, <2>1 DEF Check, bounds
<1>2. ASSUME ShutdownUnload PROVE MainType'
  BY <1>0, <1>2 DEF ShutdownUnload, bounds
<1>3. ASSUME Drain PROVE MainType'
  BY <1>0, <1>3 DEF Drain, bounds
<1>4. ASSUME EndService PROVE MainType'
  BY <1>0, <1>4 DEF EndService, InService, bounds
<1>5. ASSUME NEW p \in Pages, Established(p) \/ Receive(p)
      PROVE  MainType'
  <2>1. happened' \subseteq Circumstances
    BY <1>0, <1>5, UnderGrows DEF Established, Receive
  <2> QED BY <1>0, <1>5, <2>1 DEF Established, Receive, loop, bounds
<1>6. ASSUME NEW p \in Pages, Closed(p) \/ PageActs(p)
      PROVE  MainType'
  BY <1>0, <1>6 DEF Closed, PageActs, loop, bounds
<1>7. ASSUME NEW p \in Pages, Leave(p)
      PROVE  MainType'
  <2>1. leaves' \in 0 .. MaxLeaves
    BY <1>0, <1>7, BoundsAssumption DEF Leave
  <2> QED BY <1>0, <1>7, <2>1 DEF Leave, loop
<1>8. ASSUME NEW x \in Plugins, EnablePlugin(x) \/ DisablePlugin(x)
      PROVE  MainType'
  <2>1. happened' \subseteq Circumstances
    BY <1>0, <1>8, UnderGrows DEF EnablePlugin, DisablePlugin, Call
  <2>2. calls' \in 0 .. MaxCalls
    <3>1. calls < MaxCalls /\ calls' = calls + 1
      BY <1>8 DEF EnablePlugin, DisablePlugin
    <3>2. calls \in 0 .. MaxCalls /\ MaxCalls \in Nat
      BY <1>0, BoundsAssumption
    <3> QED BY <3>1, <3>2
  <2> QED BY <1>0, <1>8, <2>1, <2>2 DEF EnablePlugin, DisablePlugin, loop
<1>9. ASSUME Stop PROVE MainType'
  <2>1. happened' \subseteq Circumstances
    BY <1>0, <1>9, UnderGrows DEF Stop, Call
  <2> QED BY <1>0, <1>9, <2>1 DEF Stop, bounds
<1> QED BY <1>0, <1>1, <1>2, <1>3, <1>4, <1>5, <1>6, <1>7, <1>8, <1>9, StepCases

(* What most steps leave alone: the connections. *)
LEMMA SocketsKept ==
  ASSUME \/ Check \/ ShutdownUnload \/ Drain \/ EndService \/ Stop
         \/ \E p \in Pages : PageActs(p)
         \/ \E x \in Plugins : EnablePlugin(x) \/ DisablePlugin(x)
  PROVE  /\ displaySocketInstance' = displaySocketInstance
         /\ displayConnected' = displayConnected /\ loadedPlugins' = loadedPlugins
         /\ open' = open /\ readyReceived' = readyReceived /\ unused' = unused
         /\ alive' = alive /\ crashed' = crashed
         /\ sawClose' \in {sawClose, FALSE} /\ leaves' = leaves
<1>1. ASSUME Check \/ ShutdownUnload \/ Drain \/ EndService \/ Stop
      PROVE  /\ displaySocketInstance' = displaySocketInstance
             /\ displayConnected' = displayConnected /\ loadedPlugins' = loadedPlugins
             /\ open' = open /\ readyReceived' = readyReceived /\ unused' = unused
             /\ alive' = alive /\ crashed' = crashed
             /\ sawClose' \in {sawClose, FALSE} /\ leaves' = leaves
  BY <1>1 DEF Check, ShutdownUnload, Drain, EndService, Stop, seen, sockets, bounds
<1>2. ASSUME \/ \E p \in Pages : PageActs(p)
             \/ \E x \in Plugins : EnablePlugin(x) \/ DisablePlugin(x)
      PROVE  /\ displaySocketInstance' = displaySocketInstance
             /\ displayConnected' = displayConnected /\ loadedPlugins' = loadedPlugins
             /\ open' = open /\ readyReceived' = readyReceived /\ unused' = unused
             /\ alive' = alive /\ crashed' = crashed
             /\ sawClose' \in {sawClose, FALSE} /\ leaves' = leaves
  BY <1>2 DEF PageActs, EnablePlugin, DisablePlugin, seen, sockets, bounds
<1> QED BY <1>1, <1>2

(* Connections. *)
LEMMA SocketTypeStep ==
  ASSUME TypeOK, [Next]_vars PROVE SocketType'
<1> USE DEF SocketType
<1>0. SocketType /\ PageType
  BY TypeParts
<1>1. ASSUME \/ Check \/ ShutdownUnload \/ Drain \/ EndService \/ Stop
             \/ \E p \in Pages : PageActs(p)
             \/ \E x \in Plugins : EnablePlugin(x) \/ DisablePlugin(x)
      PROVE  SocketType'
  BY <1>0, <1>1, SocketsKept
<1>2. ASSUME NEW p \in Pages, Established(p)
      PROVE  SocketType'
  BY <1>0, <1>2 DEF Established, CurrentAfter
<1>3. ASSUME NEW p \in Pages, Receive(p)
      PROVE  SocketType'
  <2>1. Counted(Head(toDaemon[p])) \in Int
    BY DEF Counted
  <2>2. ConnectedAfter(Head(toDaemon[p])) \in BOOLEAN
    BY DEF ConnectedAfter
  <2>3. /\ loadedPlugins' = loadedPlugins + Counted(Head(toDaemon[p]))
        /\ displayConnected' = ConnectedAfter(Head(toDaemon[p]))
        /\ readyReceived' \in {readyReceived, readyReceived \cup {p}} /\ p \in open
        /\ displaySocketInstance' = displaySocketInstance
        /\ open' = open /\ alive' = alive /\ unused' = unused
        /\ sawClose' = sawClose /\ crashed' = crashed
    BY <1>3 DEF Receive
  <2>4. loadedPlugins' \in Int /\ displayConnected' \in BOOLEAN
    BY <1>0, <2>1, <2>2, <2>3
  <2> QED BY <1>0, <2>3, <2>4
<1>4. ASSUME NEW p \in Pages, Closed(p)
      PROVE  SocketType'
  BY <1>0, <1>4 DEF Closed
<1>5. ASSUME NEW p \in Pages, Leave(p)
      PROVE  SocketType'
  BY <1>0, <1>5 DEF Leave, seen, sockets
<1> QED BY <1>0, <1>1, <1>2, <1>3, <1>4, <1>5, StepCases

(* What is sent to a page when another closes: the first of it. *)
LEMMA ClosedKeeps ==
  ASSUME TypeOK, NEW p \in Pages, Closed(p)
  PROVE  /\ toPage' \in [Pages -> Seq(Messages)]
         /\ \A q \in Pages : q \notin open => toPage'[q] = toPage[q]
<1>0. SocketType /\ toPage \in [Pages -> Seq(Messages)]
  BY TypeParts DEF PageType
<1>1. <<>> \in Seq(Messages)
  OBVIOUS
<1>2. CASE displaySocketInstance \in open \ {p}
  <2>1. PICK kept \in Prefixes(toPage[displaySocketInstance]) :
          toPage' = [toPage EXCEPT ![p] = <<>>, ![displaySocketInstance] = kept]
    BY <1>2 DEF Closed
  <2>2. PICK l \in 0 .. Len(toPage[displaySocketInstance]) :
          kept = SubSeq(toPage[displaySocketInstance], 1, l)
    BY <2>1 DEF Prefixes
  <2>3. displaySocketInstance \in Pages
    BY <1>0, <1>2 DEF SocketType
  <2>4. PICK s \in Seq(Messages) : s = toPage[displaySocketInstance]
    BY <1>0, <2>3
  <2>5. Len(s) \in Nat /\ l \in 0 .. Len(s)
    BY <2>2, <2>4, LenProperties
  <2>6. kept \in Seq(Messages)
    BY <2>2, <2>4, <2>5, SubSeqProperties
  <2> QED BY <1>0, <1>1, <1>2, <2>1, <2>3, <2>6 DEF Closed
<1>3. CASE ~(displaySocketInstance \in open \ {p})
  <2>1. toPage' = [toPage EXCEPT ![p] = <<>>] /\ p \in open
    BY <1>3 DEF Closed
  <2> QED BY <1>0, <1>1, <2>1
<1> QED BY <1>2, <1>3

(* Pages and messages. *)
LEMMA PageTypeStep ==
  ASSUME TypeOK, [Next]_vars PROVE PageType'
<1> USE DEF PageType
<1>0. MainType /\ SocketType /\ PageType
  BY TypeParts
<1>1. ASSUME NEW cmd \in {"load", "unload"}, NEW S \in SUBSET Plugins, Bootstrap(cmd, S),
             pluginList' = pluginList, toDaemon' = toDaemon
      PROVE  PageType'
  BY <1>0, <1>1, BootstrapSends
<1>2. ASSUME Check \/ ShutdownUnload
      PROVE  PageType'
  <2>1. pluginList' = pluginList /\ toDaemon' = toDaemon
    BY <1>2 DEF Check, ShutdownUnload
  <2>2. CASE toPage' = toPage
    BY <1>0, <2>1, <2>2
  <2>3. CASE \E cmd \in {"load", "unload"}, S \in SUBSET Plugins : Bootstrap(cmd, S)
    BY <1>1, <2>1, <2>3
  <2>4. enabled \in SUBSET Plugins /\ {} \in SUBSET Plugins
    BY <1>0 DEF MainType
  <2>5. ASSUME Check, ~shutdown
        PROVE  \E S \in SUBSET Plugins : Bootstrap("load", S)
    BY <2>4, <2>5 DEF Check
  <2>6. ASSUME ShutdownUnload
        PROVE  \E S \in SUBSET Plugins : Bootstrap("unload", S)
    <3>1. PICK x \in todo : Bootstrap("unload", {x} \cap enabled)
      BY <2>6 DEF ShutdownUnload
    <3>2. {x} \cap enabled \in SUBSET Plugins
      BY <2>4
    <3> QED BY <3>1, <3>2
  <2>7. Check /\ shutdown => toPage' = toPage
    BY DEF Check
  <2> QED BY <1>2, <2>2, <2>3, <2>5, <2>6, <2>7
<1>3. ASSUME NEW x \in Plugins, EnablePlugin(x) \/ DisablePlugin(x)
      PROVE  PageType'
  <2>1. pluginList' = pluginList /\ toDaemon' = toDaemon
    BY <1>3 DEF EnablePlugin, DisablePlugin
  <2>2. {x} \in SUBSET Plugins /\ {x} \cap enabled \in SUBSET Plugins
    OBVIOUS
  <2>3. Bootstrap("load", {x}) \/ Bootstrap("unload", {x} \cap enabled)
    BY <1>3 DEF EnablePlugin, DisablePlugin
  <2> QED BY <1>1, <2>1, <2>2, <2>3
<1>4. ASSUME Drain \/ EndService \/ Stop
      PROVE  PageType'
  BY <1>0, <1>4 DEF Drain, EndService, Stop, net
<1>5. ASSUME NEW p \in Pages, Established(p)
      PROVE  PageType'
  <2>1. <<"ready">> \in Seq({"ready", "loaded", "unloaded"})
    OBVIOUS
  <2> QED BY <1>0, <1>5, <2>1 DEF Established
<1>6. ASSUME NEW p \in Pages, Receive(p)
      PROVE  PageType'
  <2>1. toDaemon[p] \in Seq({"ready", "loaded", "unloaded"}) /\ toDaemon[p] # <<>>
    BY <1>0, <1>6 DEF Receive
  <2>2. Tail(toDaemon[p]) \in Seq({"ready", "loaded", "unloaded"})
    BY <2>1, HeadTailProperties
  <2> QED BY <1>0, <1>6, <2>2 DEF Receive
<1>7. ASSUME NEW p \in Pages, Closed(p)
      PROVE  PageType'
  <2>1. toDaemon' = [toDaemon EXCEPT ![p] = <<>>] /\ pluginList' = pluginList
    BY <1>7 DEF Closed
  <2>2. <<>> \in Seq({"ready", "loaded", "unloaded"})
    OBVIOUS
  <2>3. toPage' \in [Pages -> Seq(Messages)]
    BY <1>7, ClosedKeeps
  <2> QED BY <1>0, <2>1, <2>2, <2>3
<1>8. ASSUME NEW p \in Pages, PageActs(p)
      PROVE  PageType'
  <2>1. toPage[p] \in Seq(Messages) /\ toPage[p] # <<>>
    BY <1>0, <1>8 DEF PageActs
  <2>2. Tail(toPage[p]) \in Seq(Messages) /\ Head(toPage[p]) \in Messages
    BY <2>1, HeadTailProperties
  <2>3. Head(toPage[p]).pName \in Plugins
    BY <2>2 DEF Messages
  <2>4. \A m \in {"loaded", "unloaded"} :
          Append(toDaemon[p], m) \in Seq({"ready", "loaded", "unloaded"})
    <3>1. toDaemon[p] \in Seq({"ready", "loaded", "unloaded"})
      BY <1>0
    <3> QED BY <3>1, AppendProperties
  <2>5. PICK m \in {"loaded", "unloaded"} :
          toDaemon' = [toDaemon EXCEPT ![p] = Append(toDaemon[p], m)]
    BY <1>8 DEF PageActs
  <2>6. PICK S \in SUBSET Plugins : pluginList' = [pluginList EXCEPT ![p] = S]
    <3>1. pluginList[p] \in SUBSET Plugins
      BY <1>0
    <3> QED BY <1>8, <2>3, <3>1 DEF PageActs
  <2>7. toPage' = [toPage EXCEPT ![p] = Tail(toPage[p])]
    BY <1>8 DEF PageActs
  <2> QED BY <1>0, <2>2, <2>4, <2>5, <2>6, <2>7
<1>9. ASSUME NEW p \in Pages, Leave(p)
      PROVE  PageType'
  BY <1>0, <1>9 DEF Leave, net
<1> QED BY <1>0, <1>2, <1>3, <1>4, <1>5, <1>6, <1>7, <1>8, <1>9, StepCases

(* Every variable stays in its type. *)
LEMMA TypeStep ==
  ASSUME TypeOK, [Next]_vars PROVE TypeOK'
BY MainTypeStep, SocketTypeStep, PageTypeStep, TypeParts, PTL

(* Circumstances add up. *)
LEMMA HappenedGrows ==
  ASSUME TypeOK, [Next]_vars PROVE happened \subseteq happened'
<1>1. happened \subseteq Circumstances
  BY DEF TypeOK
<1>2. ASSUME NEW p \in Pages, Established(p) \/ Receive(p)
      PROVE  happened \subseteq happened'
  BY <1>1, <1>2, UnderGrows DEF Established, Receive
<1>3. ASSUME NEW x \in Plugins, EnablePlugin(x) \/ DisablePlugin(x)
      PROVE  happened \subseteq happened'
  BY <1>1, <1>3, UnderGrows DEF EnablePlugin, DisablePlugin, Call
<1>4. Stop => happened \subseteq happened'
  BY <1>1, UnderGrows DEF Stop, Call
<1>5. Check \/ ShutdownUnload \/ Drain \/ EndService => happened' = happened
  BY DEF Check, ShutdownUnload, Drain, EndService
<1>6. ASSUME NEW p \in Pages, Closed(p) \/ PageActs(p) \/ Leave(p)
      PROVE  happened' = happened
  BY <1>6 DEF Closed, PageActs, Leave
<1> QED BY <1>2, <1>3, <1>4, <1>5, <1>6, StepCases

(* What is calm after a step was calm before. *)
LEMMA CalmBefore ==
  ASSUME TypeOK, [Next]_vars, Calm'
  PROVE  Calm /\ happened' = {} /\ \A p \in Pages : ~Leave(p)
<1>1. happened' = {} /\ leaves' = 0
  BY DEF Calm
<1>2. \A p \in Pages : ~Leave(p)
  BY <1>1 DEF Leave, TypeOK
<1>3. leaves' = leaves
  <2>1. ASSUME NEW p \in Pages, Established(p) \/ Receive(p) \/ Closed(p)
        PROVE  leaves' = leaves
    BY <2>1 DEF Established, Receive, Closed, bounds
  <2> QED BY <1>2, <2>1, SocketsKept, StepCases
<1> QED BY <1>1, <1>2, <1>3, HappenedGrows DEF Calm

(* The main thread. *)
LEMMA LoopStep ==
  ASSUME TypeOK, LoopInv, [Next]_vars PROVE LoopInv'
<1> USE DEF LoopInv
<1>0. MainType
  BY TypeParts
<1>1. ASSUME Check PROVE LoopInv'
  <2>1. CASE shutdown
    BY <1>1, <2>1 DEF Check
  <2>2. CASE ~shutdown
    <3>1. oldWebStatus' = IsDisplayConnected /\ pc' = "service" /\ turn' = turn
          /\ pluginSent' = (IF Changed THEN IsDisplayConnected ELSE pluginSent)
          /\ pc = "check"
      BY <1>1, <2>2 DEF Check
    <3>2. pluginSent' = oldWebStatus'
      BY <3>1 DEF Changed
    <3> QED BY <3>1, <3>2
  <2> QED BY <2>1, <2>2
<1>2. ASSUME ShutdownUnload PROVE LoopInv'
  BY <1>2 DEF ShutdownUnload
<1>3. ASSUME Drain PROVE LoopInv'
  BY <1>3 DEF Drain
<1>4. ASSUME EndService PROVE LoopInv'
  BY <1>4 DEF EndService, InService
<1>5. ASSUME NEW p \in Pages,
             Established(p) \/ Receive(p) \/ Closed(p) \/ PageActs(p) \/ Leave(p)
      PROVE  LoopInv'
  <2>1. UNCHANGED loop
    BY <1>5 DEF Established, Receive, Closed, PageActs, Leave
  <2> QED BY <2>1 DEF loop
<1>6. ASSUME NEW x \in Plugins, EnablePlugin(x) \/ DisablePlugin(x)
      PROVE  LoopInv'
  <2>1. UNCHANGED loop
    BY <1>6 DEF EnablePlugin, DisablePlugin
  <2> QED BY <2>1 DEF loop
<1>7. ASSUME Stop PROVE LoopInv'
  BY <1>7 DEF Stop
<1> QED BY <1>1, <1>2, <1>3, <1>4, <1>5, <1>6, <1>7, StepCases

(* A page that connects where there was none is the one there is; when it  *)
(* closes, the daemon finds its protocol, and forgets it.                  *)
LEMMA OneStep ==
  ASSUME TypeOK, OneInv, [Next]_vars PROVE OneInv'
<1> USE DEF OneInv
<1>0. SocketType
  BY TypeParts
<1>1. SUFFICES ASSUME "overlap" \notin happened'
               PROVE  /\ ~crashed'
                      /\ \A p, q \in open' : p = q
                      /\ \A p \in open' : displaySocketInstance' = p
                      /\ readyReceived' # {} => displayConnected'
  OBVIOUS
<1>2. /\ ~crashed
      /\ \A p, q \in open : p = q
      /\ \A p \in open : displaySocketInstance = p
      /\ readyReceived # {} => displayConnected
  BY <1>1, HappenedGrows
<1> DEFINE Goal == /\ ~crashed'
                   /\ \A p, q \in open' : p = q
                   /\ \A p \in open' : displaySocketInstance' = p
                   /\ readyReceived' # {} => displayConnected'
<1>3. ASSUME \/ Check \/ ShutdownUnload \/ Drain \/ EndService \/ Stop
             \/ \E p \in Pages : PageActs(p)
             \/ \E x \in Plugins : EnablePlugin(x) \/ DisablePlugin(x)
      PROVE  Goal
  <2>1. /\ displaySocketInstance' = displaySocketInstance
        /\ displayConnected' = displayConnected
        /\ open' = open /\ readyReceived' = readyReceived /\ crashed' = crashed
    BY <1>3, SocketsKept
  <2> QED BY <1>2, <2>1
<1>4. ASSUME NEW p \in Pages, Established(p)
      PROVE  Goal
  <2>1. When(open # {}, "overlap") \subseteq happened'
    BY <1>4 DEF Established, Under
  <2>2. open = {}
    BY <1>1, <2>1 DEF When
  <2>3. /\ open' = open \cup {p} /\ displaySocketInstance' = p
        /\ displayConnected' = displayConnected /\ readyReceived' = readyReceived
        /\ crashed' = crashed
    BY <1>4 DEF Established, CurrentAfter
  <2> QED BY <1>0, <1>2, <2>2, <2>3 DEF SocketType
<1>5. ASSUME NEW p \in Pages, Receive(p)
      PROVE  Goal
  <2>1. /\ open' = open /\ displaySocketInstance' = displaySocketInstance
        /\ crashed' = crashed
        /\ displayConnected' = (displayConnected \/ Head(toDaemon[p]) = "ready")
        /\ readyReceived' = IF Head(toDaemon[p]) = "ready" THEN readyReceived \cup {p}
                            ELSE readyReceived
    BY <1>5 DEF Receive, ConnectedAfter
  <2> QED BY <1>2, <2>1
<1>6. ASSUME NEW p \in Pages, Closed(p)
      PROVE  Goal
  <2>1. /\ p \in open /\ open' = open \ {p} /\ readyReceived' = readyReceived \ {p}
        /\ crashed' = (displaySocketInstance = NoPage)
    BY <1>6 DEF Closed
  <2>2. ~crashed'
    BY <1>2, <2>1, PagesAssumption
  <2>3. open' = {} /\ readyReceived' = {}
    BY <1>0, <1>2, <2>1 DEF SocketType
  <2> QED BY <2>2, <2>3
<1>7. ASSUME NEW p \in Pages, Leave(p)
      PROVE  Goal
  BY <1>2, <1>7 DEF Leave, seen, sockets
<1> HIDE DEF Goal
<1>8. Goal \/ UNCHANGED <<crashed, open, displaySocketInstance, readyReceived, displayConnected>>
  BY <1>3, <1>4, <1>5, <1>6, <1>7, StepCases
<1> QED BY <1>2, <1>8 DEF Goal

(* While all is calm. *)
LEMMA CalmStep ==
  ASSUME TypeOK, LoopInv, OneInv, CalmInv, [Next]_vars PROVE CalmInv'
<1>0. SocketType /\ MainType
  BY TypeParts
<1>1. SUFFICES ASSUME Calm'
               PROVE  /\ alive' = open' /\ (open' = {} => loadedPlugins' = 0)
                      /\ pluginSent' => IsDisplayConnected'
                      /\ shutdown' => open' = {} \/ pluginSent'
  BY DEF CalmInv
<1>2. Calm /\ happened' = {} /\ \A p \in Pages : ~Leave(p)
  BY <1>1, CalmBefore
<1>3. /\ alive = open /\ (open = {} => loadedPlugins = 0)
      /\ pluginSent => IsDisplayConnected
      /\ shutdown => open = {} \/ pluginSent
  BY <1>2 DEF CalmInv
<1>4. IsDisplayConnected => open # {}
  BY <1>0 DEF IsDisplayConnected, SocketType
<1> DEFINE Goal == /\ alive' = open' /\ (open' = {} => loadedPlugins' = 0)
                   /\ pluginSent' => IsDisplayConnected'
                   /\ shutdown' => open' = {} \/ pluginSent'
<1>5. ASSUME /\ alive' = alive /\ open' = open /\ loadedPlugins' = loadedPlugins
             /\ displayConnected' = displayConnected
             /\ displaySocketInstance' = displaySocketInstance
             /\ pluginSent' = pluginSent
             /\ shutdown' => shutdown \/ open = {} \/ pluginSent
      PROVE  Goal
  BY <1>3, <1>5 DEF IsDisplayConnected
<1>6. ASSUME Check PROVE Goal
  <2>1. /\ alive' = alive /\ open' = open /\ loadedPlugins' = loadedPlugins
        /\ displayConnected' = displayConnected
        /\ displaySocketInstance' = displaySocketInstance
    BY <1>6, SocketsKept
  <2>2. shutdown' = shutdown
    BY <1>6 DEF Check
  <2>3. CASE pluginSent' = pluginSent
    BY <1>3, <2>1, <2>2, <2>3 DEF IsDisplayConnected
  <2>4. CASE ~shutdown /\ pluginSent' = IsDisplayConnected
    BY <1>3, <2>1, <2>2, <2>4 DEF IsDisplayConnected
  <2> QED BY <1>6, <2>3, <2>4 DEF Check
<1>7. ASSUME ShutdownUnload \/ Drain \/ EndService
      PROVE  Goal
  <2>1. pluginSent' = pluginSent /\ shutdown' = shutdown
    BY <1>7 DEF ShutdownUnload, Drain, EndService
  <2> HIDE DEF Goal
  <2> QED BY <1>5, <1>7, <2>1, SocketsKept
<1>8. ASSUME Stop PROVE Goal
  <2>1. When(~Settled, "race") \subseteq happened'
    BY <1>8 DEF Stop, Call, Under
  <2>2. open = {} \/ pluginSent
    BY <1>2, <2>1 DEF When, Settled
  <2>3. pluginSent' = pluginSent
    BY <1>8 DEF Stop
  <2> HIDE DEF Goal
  <2> QED BY <1>5, <1>8, <2>2, <2>3, SocketsKept
<1>9. ASSUME \/ \E p \in Pages : PageActs(p)
             \/ \E x \in Plugins : EnablePlugin(x) \/ DisablePlugin(x)
      PROVE  Goal
  <2>1. pluginSent' = pluginSent /\ shutdown' = shutdown
    BY <1>9 DEF PageActs, EnablePlugin, DisablePlugin, loop
  <2> HIDE DEF Goal
  <2> QED BY <1>5, <1>9, <2>1, SocketsKept
<1>10. ASSUME NEW p \in Pages, Established(p)
       PROVE  Goal
  <2>1. When(open # {}, "overlap") \cup When(shutdown, "race") \subseteq happened'
    BY <1>10 DEF Established, Under
  <2>2. open = {} /\ ~shutdown
    BY <1>2, <2>1 DEF When
  <2>3. /\ open' = open \cup {p} /\ alive' = alive \cup {p}
        /\ pluginSent' = pluginSent /\ shutdown' = shutdown
    BY <1>10 DEF Established, loop
  <2> QED BY <1>3, <1>4, <2>2, <2>3
<1>11. ASSUME NEW p \in Pages, Receive(p)
       PROVE  Goal
  <2>1. /\ p \in open /\ open' = open /\ alive' = alive
        /\ displaySocketInstance' = displaySocketInstance
        /\ displayConnected' = (displayConnected \/ Head(toDaemon[p]) = "ready")
        /\ pluginSent' = pluginSent /\ shutdown' = shutdown
    BY <1>11 DEF Receive, ConnectedAfter, loop
  <2> QED BY <1>3, <2>1 DEF IsDisplayConnected
<1>12. ASSUME NEW p \in Pages, Closed(p)
       PROVE  Goal
  BY <1>3, <1>12 DEF Closed
<1>13. CASE /\ alive' = alive /\ open' = open /\ loadedPlugins' = loadedPlugins
            /\ displayConnected' = displayConnected
            /\ displaySocketInstance' = displaySocketInstance
            /\ pluginSent' = pluginSent /\ shutdown' = shutdown
  BY <1>5, <1>13
<1> HIDE DEF Goal
<1>14. Goal
  BY <1>2, <1>6, <1>7, <1>8, <1>9, <1>10, <1>11, <1>12, <1>5, StepCases
<1> QED BY <1>14 DEF Goal

(* Where a page that was not opened is concerned, nothing happens. *)
LEMMA UnusedStep ==
  ASSUME TypeOK, UnusedInv, [Next]_vars PROVE UnusedInv'
<1> USE DEF UnusedInv
<1>0. SocketType /\ MainType /\ PageType
  BY TypeParts
<1>1. ASSUME unused' \subseteq unused, pluginList' = pluginList,
             \A q \in Pages : q \notin open => toPage'[q] = toPage[q]
      PROVE  UnusedInv'
  BY <1>0, <1>1 DEF SocketType
<1>2. ASSUME NEW cmd \in {"load", "unload"}, NEW S \in SUBSET Plugins, Bootstrap(cmd, S)
      PROVE  \A q \in Pages : q \notin open => toPage'[q] = toPage[q]
  <2>1. IsDisplayConnected => displaySocketInstance \in open
    BY <1>0 DEF IsDisplayConnected, SocketType
  <2> QED BY <1>0, <1>2, <2>1, BootstrapSends
<1>3. ASSUME Check \/ ShutdownUnload
      PROVE  UnusedInv'
  <2>1. unused' = unused /\ pluginList' = pluginList
    BY <1>3 DEF Check, ShutdownUnload, sockets
  <2>2. enabled \in SUBSET Plugins /\ {} \in SUBSET Plugins
    BY <1>0 DEF MainType
  <2>3. \/ toPage' = toPage
        \/ \E cmd \in {"load", "unload"}, S \in SUBSET Plugins : Bootstrap(cmd, S)
    <3>1. CASE Check
      BY <2>2, <3>1 DEF Check
    <3>2. CASE ShutdownUnload
      <4>1. PICK x \in todo : Bootstrap("unload", {x} \cap enabled)
        BY <3>2 DEF ShutdownUnload
      <4>2. {x} \cap enabled \in SUBSET Plugins
        BY <2>2
      <4> QED BY <4>1, <4>2
    <3> QED BY <1>3, <3>1, <3>2
  <2> QED BY <1>1, <1>2, <2>1, <2>3
<1>4. ASSUME NEW x \in Plugins, EnablePlugin(x) \/ DisablePlugin(x)
      PROVE  UnusedInv'
  <2>1. unused' = unused /\ pluginList' = pluginList
    BY <1>4 DEF EnablePlugin, DisablePlugin, sockets
  <2>2. {x} \in SUBSET Plugins /\ {x} \cap enabled \in SUBSET Plugins
    OBVIOUS
  <2>3. Bootstrap("load", {x}) \/ Bootstrap("unload", {x} \cap enabled)
    BY <1>4 DEF EnablePlugin, DisablePlugin
  <2> QED BY <1>1, <1>2, <2>1, <2>2, <2>3
<1>5. ASSUME Drain \/ EndService \/ Stop
      PROVE  UnusedInv'
  BY <1>1, <1>5 DEF Drain, EndService, Stop, sockets, net
<1>6. ASSUME NEW p \in Pages, Established(p) \/ Receive(p)
      PROVE  UnusedInv'
  <2>1. unused' \subseteq unused /\ pluginList' = pluginList /\ toPage' = toPage
    BY <1>6 DEF Established, Receive
  <2> QED BY <1>1, <2>1
<1>7. ASSUME NEW p \in Pages, Closed(p)
      PROVE  UnusedInv'
  <2>1. unused' = unused /\ pluginList' = pluginList
    BY <1>7 DEF Closed
  <2> QED BY <1>1, <1>7, <2>1, ClosedKeeps
<1>8. ASSUME NEW p \in Pages, PageActs(p) \/ Leave(p)
      PROVE  UnusedInv'
  <2>1. p \in alive /\ unused' = unused
    BY <1>8 DEF PageActs, Leave, sockets
  <2>2. \A q \in Pages : q # p => pluginList'[q] = pluginList[q] /\ toPage'[q] = toPage[q]
    BY <1>0, <1>8 DEF PageActs, Leave, net, PageType
  <2> QED BY <1>0, <2>1, <2>2 DEF SocketType
<1> QED BY <1>3, <1>4, <1>5, <1>6, <1>7, <1>8, StepCases

(* A page is sent commands. *)
LEMMA QueueExtended ==
  ASSUME TypeOK, NEW cmd \in {"load", "unload"}, NEW S \in SUBSET Plugins, Bootstrap(cmd, S),
         NEW p \in Pages, IsDisplayConnected, displaySocketInstance = p,
         NEW T, NEW U, NEW V, Leads(toPage[p], T, U), Leads(SetToSeq(Orders(cmd, S)), U, V)
  PROVE  Leads(toPage'[p], T, V)
<1>1. SocketType /\ PageType
  BY TypeParts
<1>2. SetToSeq(Orders(cmd, S)) \in Seq(Messages)
      /\ toPage'[p] = toPage[p] \o SetToSeq(Orders(cmd, S))
  BY <1>1, BootstrapSends
<1>3. toPage[p] \in Seq(Messages)
  BY <1>1 DEF PageType
<1> QED BY <1>2, <1>3, LeadsOn

(* A page is not sent anything. *)
LEMMA QueueSame ==
  ASSUME TypeOK, NEW cmd \in {"load", "unload"}, NEW S \in SUBSET Plugins, Bootstrap(cmd, S),
         NEW p \in Pages, \/ ~IsDisplayConnected
                          \/ displaySocketInstance # p
                          \/ S = {}
  PROVE  toPage'[p] = toPage[p]
<1>1. SocketType /\ PageType
  BY TypeParts
<1>2. toPage'[p] = IF IsDisplayConnected /\ p = displaySocketInstance
                   THEN toPage[p] \o SetToSeq(Orders(cmd, S)) ELSE toPage[p]
  BY <1>1, BootstrapSends
<1>3. toPage[p] \in Seq(Messages)
  BY <1>1 DEF PageType
<1>4. toPage[p] \o <<>> = toPage[p]
  BY <1>3
<1>5. S = {} => SetToSeq(Orders(cmd, S)) = <<>>
  BY OrderOne
<1> QED BY <1>2, <1>4, <1>5

(* One plugin is loaded or unloaded. *)
LEMMA LeadsOrder ==
  ASSUME NEW x \in Plugins, NEW S \in SUBSET Plugins
  PROVE  /\ x \notin S => Leads(SetToSeq(Orders("load", {x})), S, S \cup {x})
         /\ x \in S => Leads(SetToSeq(Orders("unload", {x})), S, S \ {x})
<1>1. /\ SetToSeq(Orders("load", {x})) = <<Order("load", x)>>
      /\ SetToSeq(Orders("unload", {x})) = <<Order("unload", x)>>
  BY OrderOne
<1>2. Order("load", x) \in Messages /\ Order("unload", x) \in Messages
  BY DEF Order, Messages
<1>3. /\ x \notin S => Effective(Order("load", x), S, S \cup {x})
      /\ x \in S => Effective(Order("unload", x), S, S \ {x})
  BY DEF Effective, Order
<1>4. S \cup {x} \in SUBSET Plugins /\ S \ {x} \in SUBSET Plugins
  OBVIOUS
<1> QED BY <1>1, <1>2, <1>3, <1>4, LeadsOne

(* The commands on their way lead to what the page is to have. *)
LEMMA QueueStep ==
  ASSUME TypeOK, LoopInv, OneInv, CalmInv, UnusedInv, QueueInv, [Next]_vars
  PROVE  QueueInv'
<1>0. SocketType /\ MainType /\ PageType
  BY TypeParts
<1>1. SUFFICES ASSUME Calm', NEW p \in Pages, p \in open'
               PROVE  Leads(toPage'[p], pluginList'[p], Intended')
  <2>1. SocketType'
    BY SocketTypeStep
  <2>2. open' \subseteq Pages
    BY <2>1 DEF SocketType
  <2>3. Calm' => \A p \in open' : Leads(toPage'[p], pluginList'[p], Intended')
    BY <1>1, <2>2
  <2> QED BY <2>3 DEF QueueInv, Leads
<1>2. Calm /\ happened' = {} /\ \A q \in Pages : ~Leave(q)
  BY <1>1, CalmBefore
<1>3. /\ alive = open
      /\ pluginSent => IsDisplayConnected
      /\ shutdown => open = {} \/ pluginSent
      /\ \A q \in open : Leads(toPage[q], pluginList[q], Intended)
      /\ \A q \in open : displaySocketInstance = q
  BY <1>2 DEF CalmInv, QueueInv, OneInv, Calm
<1>4. IsDisplayConnected <=> displayConnected /\ open # {}
  BY <1>0, <1>3, PagesAssumption DEF IsDisplayConnected, SocketType
<1>5. Intended \in SUBSET Plugins
  BY <1>0 DEF Intended, MainType
<1> DEFINE Goal == Leads(toPage'[p], pluginList'[p], Intended')
<1>6. ASSUME p \in open, toPage'[p] = toPage[p], pluginList'[p] = pluginList[p],
             Intended' = Intended
      PROVE  Goal
  BY <1>3, <1>6
<1>7. ASSUME Check PROVE Goal
  <2>1. /\ open' = open /\ pluginList' = pluginList /\ turn' = turn /\ enabled' = enabled
        /\ pc = "check"
    BY <1>7, SocketsKept DEF Check
  <2>2. CASE toPage' = toPage /\ pluginSent' = pluginSent
    BY <1>1, <1>6, <2>1, <2>2 DEF Intended
  <2>3. CASE ~shutdown
    <3>1. Bootstrap("load", IF Loads THEN enabled ELSE {})
          /\ pluginSent' = IF Changed THEN IsDisplayConnected ELSE pluginSent
      BY <1>7, <2>3 DEF Check
    <3>2. CASE Loads
      <4>1. IsDisplayConnected /\ ~pluginSent /\ pluginSent' /\ Bootstrap("load", enabled)
        BY <3>1, <3>2 DEF Loads
      <4>2. Intended = {} /\ Intended' = enabled
        BY <2>1, <4>1 DEF Intended, LoopInv
      <4>3. enabled \in SUBSET Plugins
        BY <1>0 DEF MainType
      <4>4. Leads(SetToSeq(Orders("load", enabled)), {}, enabled)
        BY <4>3, LeadsAll
      <4>5. Leads(toPage[p], pluginList[p], {}) /\ displaySocketInstance = p
        BY <1>1, <1>3, <2>1, <4>2
      <4>6. Leads(toPage'[p], pluginList[p], enabled)
        BY <4>1, <4>3, <4>4, <4>5, QueueExtended
      <4> QED BY <4>2, <4>6, <2>1
    <3>3. CASE ~Loads
      <4>1. Bootstrap("load", {})
        BY <3>1, <3>3
      <4>2. toPage'[p] = toPage[p]
        BY <4>1, QueueSame
      <4>3. pluginSent' = pluginSent
        <5>1. IsDisplayConnected \in BOOLEAN /\ pluginSent \in BOOLEAN
              /\ oldWebStatus = pluginSent
          BY <1>0 DEF IsDisplayConnected, SocketType, MainType, LoopInv
        <5>2. ~Changed
          BY <1>3, <3>3, <5>1 DEF Loads, Changed
        <5> QED BY <3>1, <5>2
      <4> QED BY <1>1, <1>6, <2>1, <4>2, <4>3 DEF Intended
    <3> QED BY <3>2, <3>3
  <2> QED BY <1>7, <2>2, <2>3 DEF Check
<1>8. ASSUME ShutdownUnload PROVE Goal
  <2>1. PICK x \in todo : Bootstrap("unload", {x} \cap enabled) /\ turn' = {x}
    BY <1>8 DEF ShutdownUnload
  <2>2. /\ open' = open /\ pluginList' = pluginList /\ enabled' = enabled
        /\ pluginSent' = pluginSent /\ pc = "disable"
    BY <1>8, SocketsKept DEF ShutdownUnload
  <2>3. turn = {} /\ shutdown
    BY <2>2 DEF LoopInv
  <2>4. pluginSent /\ IsDisplayConnected /\ displaySocketInstance = p /\ p \in open
    BY <1>1, <1>3, <2>2, <2>3
  <2>5. Intended = enabled /\ Intended' = enabled \ {x}
    BY <2>1, <2>2, <2>3, <2>4 DEF Intended
  <2>6. x \in Plugins /\ {x} \cap enabled \in SUBSET Plugins /\ enabled \in SUBSET Plugins
    BY <1>0, <2>1 DEF MainType
  <2>7. CASE x \in enabled
    <3>1. Bootstrap("unload", {x})
      <4>1. {x} \cap enabled = {x}
        BY <2>7
      <4> QED BY <2>1, <4>1
    <3>2. Leads(SetToSeq(Orders("unload", {x})), enabled, enabled \ {x})
      BY <2>6, <2>7, LeadsOrder
    <3>3. Leads(toPage[p], pluginList[p], enabled) /\ {x} \in SUBSET Plugins
      BY <1>3, <2>4, <2>5, <2>6
    <3>4. Leads(toPage'[p], pluginList[p], enabled \ {x})
      BY <3>1, <3>2, <3>3, <2>4, QueueExtended
    <3> QED BY <3>4, <2>2, <2>5
  <2>8. CASE x \notin enabled
    <3>1. {x} \cap enabled = {} /\ enabled \ {x} = enabled
      BY <2>8
    <3>2. toPage'[p] = toPage[p]
      BY <2>1, <2>6, <3>1, QueueSame
    <3> QED BY <1>6, <2>2, <2>4, <2>5, <3>1, <3>2
  <2> QED BY <2>7, <2>8
<1>9. ASSUME Drain PROVE Goal
  <2>1. UNCHANGED <<open, pluginList, toPage, enabled, turn, pluginSent>>
    BY <1>9, SocketsKept DEF Drain, net
  <2> QED BY <1>1, <1>6, <2>1 DEF Intended
<1>10. ASSUME EndService PROVE Goal
  <2>1. UNCHANGED <<open, pluginList, toPage, pluginSent>> /\ turn' = {}
        /\ enabled' = enabled \ turn
    BY <1>10, SocketsKept DEF EndService, net
  <2> QED BY <1>1, <1>6, <2>1 DEF Intended
<1>11. ASSUME Stop PROVE Goal
  <2>1. UNCHANGED <<open, pluginList, toPage, enabled, turn, pluginSent>>
    BY <1>11, SocketsKept DEF Stop, net
  <2> QED BY <1>1, <1>6, <2>1 DEF Intended
<1>12. ASSUME NEW x \in Plugins, EnablePlugin(x) \/ DisablePlugin(x)
       PROVE  Goal
  <2>1. /\ open' = open /\ pluginList' = pluginList
        /\ pluginSent' = pluginSent /\ turn' = turn /\ p \in open
    BY <1>1, <1>12, SocketsKept DEF EnablePlugin, DisablePlugin, loop
  <2>2. When(~Settled, "race") \subseteq happened'
    BY <1>12 DEF EnablePlugin, DisablePlugin, Call, Under
  <2>3. ~shutdown /\ pluginSent
    BY <1>2, <2>1, <2>2 DEF When, Settled
  <2>4. turn = {} /\ IsDisplayConnected /\ displaySocketInstance = p
    BY <1>3, <2>1, <2>3 DEF LoopInv
  <2>5. Intended = enabled /\ Intended' = enabled'
    BY <2>1, <2>3, <2>4 DEF Intended
  <2>6. /\ Leads(toPage[p], pluginList[p], enabled) /\ {x} \in SUBSET Plugins
        /\ enabled \in SUBSET Plugins
    BY <1>0, <1>3, <2>1, <2>5 DEF MainType
  <2>7. CASE EnablePlugin(x)
    <3>1. When(x \in enabled, "enable twice") \subseteq happened'
      BY <2>7 DEF EnablePlugin, Call, Under
    <3>2. x \notin enabled
      BY <1>2, <3>1 DEF When
    <3>3. Bootstrap("load", {x}) /\ enabled' = enabled \cup {x}
      BY <2>7 DEF EnablePlugin
    <3>4. Leads(SetToSeq(Orders("load", {x})), enabled, enabled \cup {x})
      BY <2>6, <3>2, LeadsOrder
    <3>5. Leads(toPage'[p], pluginList[p], enabled \cup {x})
      BY <2>4, <2>6, <3>3, <3>4, QueueExtended
    <3> QED BY <2>1, <2>5, <3>3, <3>5
  <2>8. CASE DisablePlugin(x) /\ x \in enabled
    <3>1. Bootstrap("unload", {x}) /\ enabled' = enabled \ {x}
      <4>1. {x} \cap enabled = {x}
        BY <2>8
      <4> QED BY <2>8, <4>1 DEF DisablePlugin
    <3>2. Leads(SetToSeq(Orders("unload", {x})), enabled, enabled \ {x})
      BY <2>6, <2>8, LeadsOrder
    <3>3. Leads(toPage'[p], pluginList[p], enabled \ {x})
      BY <2>4, <2>6, <3>1, <3>2, QueueExtended
    <3> QED BY <2>1, <2>5, <3>1, <3>3
  <2>9. CASE DisablePlugin(x) /\ x \notin enabled
    <3>1. Bootstrap("unload", {}) /\ enabled' = enabled
      <4>1. {x} \cap enabled = {} /\ enabled \ {x} = enabled
        BY <2>9
      <4> QED BY <2>9, <4>1 DEF DisablePlugin
    <3>2. toPage'[p] = toPage[p]
      BY <3>1, QueueSame
    <3> QED BY <1>6, <2>1, <2>5, <3>1, <3>2
  <2> QED BY <1>12, <2>7, <2>8, <2>9
<1>13. ASSUME NEW q \in Pages, Established(q)
       PROVE  Goal
  <2>1. When(open # {}, "overlap") \subseteq happened'
    BY <1>13 DEF Established, Under
  <2>2. open = {}
    BY <1>2, <2>1 DEF When
  <2>3. /\ open' = open \cup {q} /\ q \in unused /\ toPage' = toPage
        /\ pluginList' = pluginList
        /\ pluginSent' = pluginSent
    BY <1>13 DEF Established, loop
  <2>4. p = q /\ toPage'[p] = <<>> /\ pluginList'[p] = {}
    BY <1>1, <2>2, <2>3 DEF UnusedInv
  <2>5. ~pluginSent
    BY <1>3, <1>4, <2>2
  <2>6. Intended' = {}
    BY <2>3, <2>5 DEF Intended
  <2> QED BY <2>4, <2>6, LeadsNowhere
<1>14. ASSUME NEW q \in Pages, Receive(q)
       PROVE  Goal
  <2>1. UNCHANGED <<open, pluginList, toPage, enabled, turn, pluginSent>>
    BY <1>14 DEF Receive, loop
  <2> QED BY <1>1, <1>6, <2>1 DEF Intended
<1>15. ASSUME NEW q \in Pages, Closed(q)
       PROVE  Goal
  BY <1>3, <1>15 DEF Closed
<1>16. ASSUME NEW q \in Pages, PageActs(q)
       PROVE  Goal
  <2>1. /\ UNCHANGED <<open, enabled, turn, pluginSent>> /\ q \in alive
        /\ toPage[q] # <<>> /\ toPage' = [toPage EXCEPT ![q] = Tail(toPage[q])]
        /\ pluginList' = [pluginList EXCEPT ![q] =
             IF Head(toPage[q]).cmd = "load" THEN pluginList[q] \cup {Head(toPage[q]).pName}
             ELSE pluginList[q] \ {Head(toPage[q]).pName}]
    BY <1>16, SocketsKept DEF PageActs, loop
  <2>2. Intended' = Intended
    BY <2>1 DEF Intended
  <2>3. CASE p # q
    <3>1. toPage'[p] = toPage[p] /\ pluginList'[p] = pluginList[p]
      BY <1>0, <2>1, <2>3 DEF PageType
    <3> QED BY <1>1, <1>6, <2>1, <2>2, <3>1
  <2>4. CASE p = q
    <3>1. toPage[p] \in Seq(Messages) /\ Leads(toPage[p], pluginList[p], Intended)
      BY <1>0, <1>1, <1>3, <2>1 DEF PageType
    <3>2. PICK T \in SUBSET Plugins :
            Effective(Head(toPage[p]), pluginList[p], T) /\ Leads(Tail(toPage[p]), T, Intended)
      BY <3>1, <2>1, <2>4, LeadsFirst
    <3>3. toPage'[p] = Tail(toPage[p])
      BY <1>0, <2>1, <2>4 DEF PageType
    <3>4. pluginList'[p] = T
      BY <1>0, <2>1, <2>4, <3>2 DEF PageType, Effective
    <3> QED BY <2>2, <3>2, <3>3, <3>4
  <2> QED BY <2>3, <2>4
<1>17. ASSUME /\ enabled' = enabled /\ turn' = turn /\ pluginSent' = pluginSent
              /\ toPage' = toPage /\ pluginList' = pluginList /\ open' = open
       PROVE  Goal
  BY <1>1, <1>6, <1>17 DEF Intended
<1> HIDE DEF Goal
<1>18. Goal
  BY <1>2, <1>7, <1>8, <1>9, <1>10, <1>11, <1>12, <1>13, <1>14, <1>15, <1>16, <1>17, StepCases
<1> QED BY <1>18 DEF Goal

(* The plugins loaded, and those the daemon counts. *)
LEMMA CountStep ==
  ASSUME TypeOK, OneInv, CalmInv, UnusedInv, QueueInv, CountInv, [Next]_vars
  PROVE  CountInv'
<1>0. SocketType /\ PageType
  BY TypeParts
<1> DEFINE C(p, msg) == CountIn(toDaemon[p], msg)
<1>1. SUFFICES ASSUME Calm', NEW p \in Pages, p \in open'
               PROVE  loadedPlugins' + CountIn(toDaemon'[p], "loaded")
                        - CountIn(toDaemon'[p], "unloaded") = Cardinality(pluginList'[p])
  <2>1. SocketType'
    BY SocketTypeStep
  <2>2. open' \subseteq Pages
    BY <2>1 DEF SocketType
  <2>3. Calm' => \A p \in open' : loadedPlugins' + CountIn(toDaemon'[p], "loaded")
                        - CountIn(toDaemon'[p], "unloaded") = Cardinality(pluginList'[p])
    BY <1>1, <2>2
  <2> QED BY <2>3 DEF CountInv, Reported, CountIn
<1>2. Calm /\ happened' = {} /\ \A q \in Pages : ~Leave(q)
  BY <1>1, CalmBefore
<1>3. /\ alive = open /\ (open = {} => loadedPlugins = 0)
      /\ \A q \in open : Leads(toPage[q], pluginList[q], Intended)
      /\ \A q, r \in open : q = r
  BY <1>2 DEF CalmInv, QueueInv, OneInv, Calm
<1>4. p \in open => loadedPlugins + CountIn(toDaemon[p], "loaded")
                      - CountIn(toDaemon[p], "unloaded") = Cardinality(pluginList[p])
  BY <1>2 DEF CountInv, Reported, CountIn
<1>5. loadedPlugins \in Int /\ toDaemon[p] \in Seq({"ready", "loaded", "unloaded"})
      /\ pluginList[p] \in SUBSET Plugins
  BY <1>0 DEF SocketType, PageType
<1>6. /\ CountIn(toDaemon[p], "loaded") \in Nat /\ CountIn(toDaemon[p], "unloaded") \in Nat
      /\ \A m \in {"ready", "loaded", "unloaded"}, msg \in {"loaded", "unloaded"} :
           CountIn(Append(toDaemon[p], m), msg)
             = CountIn(toDaemon[p], msg) + (IF m = msg THEN 1 ELSE 0)
  BY <1>5, CountAppend
<1> DEFINE Goal == loadedPlugins' + CountIn(toDaemon'[p], "loaded")
                     - CountIn(toDaemon'[p], "unloaded") = Cardinality(pluginList'[p])
<1>7. ASSUME p \in open, loadedPlugins' = loadedPlugins, toDaemon'[p] = toDaemon[p],
             pluginList'[p] = pluginList[p]
      PROVE  Goal
  BY <1>4, <1>7
<1>8. ASSUME \/ Check \/ ShutdownUnload \/ Drain \/ EndService \/ Stop
             \/ \E x \in Plugins : EnablePlugin(x) \/ DisablePlugin(x)
      PROVE  Goal
  <2>1. loadedPlugins' = loadedPlugins /\ open' = open
    BY <1>8, SocketsKept
  <2>2. toDaemon' = toDaemon /\ pluginList' = pluginList
    BY <1>8 DEF Check, ShutdownUnload, Drain, EndService, Stop, EnablePlugin, DisablePlugin, net
  <2> QED BY <1>1, <1>7, <2>1, <2>2
<1>9. ASSUME NEW q \in Pages, Established(q)
      PROVE  Goal
  <2>1. When(open # {}, "overlap") \subseteq happened'
    BY <1>9 DEF Established, Under
  <2>2. open = {}
    BY <1>2, <2>1 DEF When
  <2>3. /\ open' = open \cup {q} /\ q \in unused /\ loadedPlugins' = loadedPlugins
        /\ pluginList' = pluginList
        /\ toDaemon' = [toDaemon EXCEPT ![q] = <<"ready">>]
    BY <1>9 DEF Established
  <2>4. p = q /\ pluginList'[p] = {} /\ loadedPlugins' = 0
    BY <1>1, <1>3, <2>2, <2>3 DEF UnusedInv
  <2>5. toDaemon'[p] = <<"ready">>
    BY <1>0, <2>3, <2>4 DEF PageType
  <2>6. CountIn(<<"ready">>, "loaded") = 0 /\ CountIn(<<"ready">>, "unloaded") = 0
    <3>1. \A msg \in {"loaded", "unloaded"} :
            {i \in DOMAIN <<"ready">> : <<"ready">>[i] = msg} = {}
      OBVIOUS
    <3> QED BY <3>1, FS_EmptySet DEF CountIn
  <2> QED BY <2>4, <2>5, <2>6, FS_EmptySet
<1>10. ASSUME NEW q \in Pages, Receive(q)
       PROVE  Goal
  <2>1. /\ open' = open /\ pluginList' = pluginList /\ q \in open /\ toDaemon[q] # <<>>
        /\ loadedPlugins' = loadedPlugins + Counted(Head(toDaemon[q]))
        /\ toDaemon' = [toDaemon EXCEPT ![q] = Tail(toDaemon[q])]
    BY <1>10 DEF Receive
  <2>2. p = q
    BY <1>1, <1>3, <2>1
  <2>3. toDaemon'[p] = Tail(toDaemon[p])
    BY <1>0, <2>1, <2>2 DEF PageType
  <2>4. \A msg \in {"loaded", "unloaded"} :
          /\ CountIn(Tail(toDaemon[p]), msg) \in Nat
          /\ CountIn(toDaemon[p], msg) = CountIn(Tail(toDaemon[p]), msg)
               + (IF Head(toDaemon[p]) = msg THEN 1 ELSE 0)
    BY <1>5, <2>1, <2>2, CountTail
  <2>5. PICK m : m = Head(toDaemon[p])
    OBVIOUS
  <2>6. PICK a, b : a = CountIn(Tail(toDaemon[p]), "loaded")
                    /\ b = CountIn(Tail(toDaemon[p]), "unloaded")
    OBVIOUS
  <2>7. /\ a \in Nat /\ b \in Nat
        /\ CountIn(toDaemon[p], "loaded") = a + (IF m = "loaded" THEN 1 ELSE 0)
        /\ CountIn(toDaemon[p], "unloaded") = b + (IF m = "unloaded" THEN 1 ELSE 0)
    BY <2>4, <2>5, <2>6
  <2>8. Counted(m) = IF m = "loaded" THEN 1 ELSE IF m = "unloaded" THEN -1 ELSE 0
    BY DEF Counted
  <2>9. loadedPlugins' + a - b = Cardinality(pluginList[p])
    <3>1. /\ loadedPlugins' = loadedPlugins + Counted(m)
          /\ loadedPlugins + CountIn(toDaemon[p], "loaded")
               - CountIn(toDaemon[p], "unloaded") = Cardinality(pluginList[p])
      BY <1>1, <1>4, <2>1, <2>2, <2>5
    <3>2. CASE m = "loaded"
      BY <1>5, <2>7, <2>8, <3>1, <3>2
    <3>3. CASE m = "unloaded"
      BY <1>5, <2>7, <2>8, <3>1, <3>3
    <3>4. CASE m \notin {"loaded", "unloaded"}
      BY <1>5, <2>7, <2>8, <3>1, <3>4
    <3> QED BY <3>2, <3>3, <3>4
  <2> QED BY <2>1, <2>3, <2>6, <2>9
<1>11. ASSUME NEW q \in Pages, Closed(q)
       PROVE  Goal
  BY <1>3, <1>11 DEF Closed
<1>12. ASSUME NEW q \in Pages, PageActs(q)
       PROVE  Goal
  <2>1. /\ loadedPlugins' = loadedPlugins /\ open' = open
        /\ q \in alive /\ toPage[q] # <<>>
        /\ pluginList' = [pluginList EXCEPT ![q] =
             IF Head(toPage[q]).cmd = "load" THEN pluginList[q] \cup {Head(toPage[q]).pName}
             ELSE pluginList[q] \ {Head(toPage[q]).pName}]
        /\ toDaemon' = [toDaemon EXCEPT ![q] = Append(toDaemon[q],
             IF Head(toPage[q]).cmd = "load" THEN "loaded" ELSE "unloaded")]
    BY <1>12, SocketsKept DEF PageActs
  <2>2. p = q
    BY <1>1, <1>3, <2>1
  <2>3. toPage[p] \in Seq(Messages) /\ Leads(toPage[p], pluginList[p], Intended)
    BY <1>0, <1>1, <1>3, <2>1 DEF PageType
  <2>4. PICK T \in SUBSET Plugins : Effective(Head(toPage[p]), pluginList[p], T)
    BY <2>1, <2>2, <2>3, LeadsFirst
  <2>5. PICK cmd, x : cmd = Head(toPage[p]).cmd /\ x = Head(toPage[p]).pName
    OBVIOUS
  <2>6. /\ toDaemon'[p] = Append(toDaemon[p], IF cmd = "load" THEN "loaded" ELSE "unloaded")
        /\ pluginList'[p] = IF cmd = "load" THEN pluginList[p] \cup {x} ELSE pluginList[p] \ {x}
    BY <1>0, <2>1, <2>2, <2>5 DEF PageType
  <2>7. cmd = "load" <=> x \notin pluginList[p]
    BY <2>4, <2>5 DEF Effective
  <2>8. IsFiniteSet(pluginList[p])
    BY <1>5, PluginsAssumption, FS_Subset
  <2>9. Cardinality(pluginList[p]) \in Nat
    BY <2>8, FS_CardinalityType
  <2>10. CASE cmd = "load"
    <3>1. Cardinality(pluginList'[p]) = Cardinality(pluginList[p]) + 1
      BY <2>6, <2>7, <2>8, <2>10, FS_AddElement
    <3>2. toDaemon'[p] = Append(toDaemon[p], "loaded")
      BY <2>6, <2>10
    <3>3. /\ CountIn(toDaemon'[p], "loaded") = CountIn(toDaemon[p], "loaded") + 1
          /\ CountIn(toDaemon'[p], "unloaded") = CountIn(toDaemon[p], "unloaded")
      BY <1>6, <3>2
    <3> QED BY <1>1, <1>4, <1>5, <1>6, <2>1, <2>9, <3>1, <3>3
  <2>11. CASE cmd # "load"
    <3>0. pluginList'[p] = pluginList[p] \ {x}
      BY <2>6, <2>11
    <3>1. Cardinality(pluginList'[p]) = Cardinality(pluginList[p]) - 1
      <4>1. x \in pluginList[p]
        BY <2>7, <2>11
      <4>2. Cardinality(pluginList[p] \ {x}) = Cardinality(pluginList[p]) - 1
        BY <2>8, <4>1, FS_RemoveElement
      <4> QED BY <3>0, <4>2
    <3>2. toDaemon'[p] = Append(toDaemon[p], "unloaded")
      BY <2>6, <2>11
    <3>3. /\ CountIn(toDaemon'[p], "loaded") = CountIn(toDaemon[p], "loaded")
          /\ CountIn(toDaemon'[p], "unloaded") = CountIn(toDaemon[p], "unloaded") + 1
      BY <1>6, <3>2
    <3> QED BY <1>1, <1>4, <1>5, <1>6, <2>1, <2>9, <3>1, <3>3
  <2> QED BY <2>10, <2>11
<1>13. ASSUME /\ loadedPlugins' = loadedPlugins /\ toDaemon' = toDaemon
              /\ pluginList' = pluginList /\ open' = open
       PROVE  Goal
  BY <1>1, <1>7, <1>13
<1> HIDE DEF Goal
<1>14. Goal
  BY <1>2, <1>8, <1>9, <1>10, <1>11, <1>12, <1>13, StepCases
<1> QED BY <1>14 DEF Goal

-----------------------------------------------------------------------------
(* The invariant. *)

(* It holds when the daemon starts. *)
LEMMA InitDisplay == Init => DisplayIInv
<1> SUFFICES ASSUME Init PROVE DisplayIInv
  OBVIOUS
<1>1. MainType
  <2>1. MaxLeaves \in Nat /\ MaxCalls \in Nat
    BY BoundsAssumption
  <2>2. 0 \in 0 .. MaxLeaves /\ 0 \in 0 .. MaxCalls
    BY <2>1
  <2>3. /\ enabled \subseteq Plugins /\ todo = {} /\ turn = {}
        /\ happened = {} /\ leaves = 0 /\ calls = 0
    BY DEF Init
  <2>4. /\ oldWebStatus = FALSE /\ pluginSent = FALSE /\ shutdown = FALSE
        /\ pc = "check"
    BY DEF Init
  <2> QED BY <2>2, <2>3, <2>4 DEF MainType
<1>2. SocketType
  <2>1. /\ displaySocketInstance = NoPage /\ loadedPlugins = 0
        /\ displayConnected = FALSE /\ sawClose = FALSE /\ crashed = FALSE
    BY DEF Init
  <2>2. open = {} /\ readyReceived = {} /\ unused = Pages /\ alive = {}
    BY DEF Init
  <2>3. displaySocketInstance \in open \cup {NoPage} /\ loadedPlugins \in Int
    BY <2>1
  <2>4. /\ displayConnected \in BOOLEAN /\ sawClose \in BOOLEAN
        /\ crashed \in BOOLEAN
    BY <2>1
  <2>5. /\ readyReceived \subseteq open /\ open \subseteq Pages
        /\ alive \subseteq open /\ unused \subseteq Pages \ open
    BY <2>2
  <2> QED BY <2>3, <2>4, <2>5 DEF SocketType
<1>3. PageType
  <2>1. <<>> \in Seq(Messages) /\ <<>> \in Seq({"ready", "loaded", "unloaded"})
    OBVIOUS
  <2> QED BY <2>1 DEF Init, PageType
<1>4. LoopInv /\ OneInv /\ CalmInv /\ QueueInv /\ CountInv
  BY DEF Init, LoopInv, OneInv, CalmInv, QueueInv, CountInv
<1>5. UnusedInv
  BY DEF Init, UnusedInv
<1> QED BY <1>1, <1>2, <1>3, <1>4, <1>5, TypeParts DEF DisplayIInv

(* Every step keeps it. *)
LEMMA StepDisplay == DisplayIInv /\ [Next]_vars => DisplayIInv'
<1> SUFFICES ASSUME DisplayIInv, [Next]_vars PROVE DisplayIInv'
  OBVIOUS
<1>1. TypeOK /\ LoopInv /\ OneInv /\ CalmInv /\ UnusedInv /\ QueueInv /\ CountInv
  BY DEF DisplayIInv
<1>2. TypeOK' /\ LoopInv' /\ OneInv' /\ CalmInv' /\ UnusedInv'
  BY <1>1, TypeStep, LoopStep, OneStep, CalmStep, UnusedStep
<1>3. QueueInv' /\ CountInv'
  BY <1>1, QueueStep, CountStep
<1> QED BY <1>2, <1>3 DEF DisplayIInv

(* The invariant holds always. *)
THEOREM DisplayIInvAlways == Spec => []DisplayIInv
BY InitDisplay, StepDisplay, PTL DEF Spec

(* Display_IsDisplayConnected says that there is a display whenever a page *)
(* that is open said "ready", and no CLOSED callback dereferences NULL,    *)
(* while pages come one after the other: for any number of pages, plugins  *)
(* and calls.                                                              *)
THEOREM DisplaySeenAlways == Spec => []DisplaySeen
<1>1. DisplayIInv => DisplaySeen
  <2> SUFFICES ASSUME DisplayIInv PROVE DisplaySeen
    OBVIOUS
  <2>1. TypeOK /\ OneInv /\ SocketType
    BY TypeParts DEF DisplayIInv
  <2>2. ASSUME "overlap" \notin happened, readyReceived # {}
        PROVE  displayConnected /\ displaySocketInstance # NoPage
    BY <2>1, <2>2, PagesAssumption DEF OneInv, SocketType
  <2> QED BY <2>1, <2>2
       DEF DisplaySeen, SeesEachDisplay, SeesDisplay, IsDisplayConnected, OneInv
<1> QED BY <1>1, DisplayIInvAlways, PTL

(* The count that the shutdown waits for is the number of plugins in the   *)
(* page, but for the reports on their way, while the page stays and        *)
(* nothing unusual happened: each command on its way has an effect.        *)
THEOREM CountAgreesAlways == Spec => []CountAgrees
<1>1. DisplayIInv => CountAgrees
  BY DEF DisplayIInv, CountInv, CountAgrees, Calm
<1> QED BY <1>1, DisplayIInvAlways, PTL
=============================================================================
