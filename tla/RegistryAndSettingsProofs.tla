---------------------- MODULE RegistryAndSettingsProofs ----------------------
(* Theorems about what the daemon finds when it starts, for any plugins,   *)
(* any settings and any sequence of calls: first about PluginRegistry, the *)
(* plugins themselves, then about PluginSettings, the file of one of them. *)
EXTENDS PluginRegistry, PluginSettings, FiniteSetTheorems, SequenceTheorems, TLAPS

Sides == {"left", "right"}
Paths == Seq(Sides)

(* A tree: finitely many paths, each with all that lead to it. *)
Shaped(t) ==
  /\ DOMAIN t \subseteq Paths /\ IsFiniteSet(DOMAIN t)
  /\ \A p \in DOMAIN t, i \in Nat : i <= Len(p) => SubSeq(p, 1, i) \in DOMAIN t

(* What is below a node is on the side where the comparison leads. *)
Ordered(t) ==
  \A p, q \in DOMAIN t, d \in Sides :
    IsPrefix(Append(p, d), q) => d = Side(t[q], t[p])

TreeInv == Shaped(tree) /\ Ordered(tree)

(* Only removed plugins are not listed. *)
ListInv == loaded \ removed \subseteq Listed

(* Until a reload renames another's, a protocol has its plugin's name, or  *)
(* the freed one of a removed plugin.                                      *)
ProtocolInv ==
  ~misnamed =>
    /\ \A i \in DOMAIN protocols :
         protocols[i].name \in {protocols[i].user, FreedName}
    /\ \A x \in loaded \ removed :
         \E i \in DOMAIN protocols : protocols[i].name = x

RegistryIInv ==
  /\ TypeOK /\ TreeInv /\ ListInv /\ ListedOnce
  /\ ProtocolInv /\ DefinedUnlessMishap

-----------------------------------------------------------------------------
(* Least elements. *)

(* A set of natural numbers that is not empty has a least element. *)
LEMMA LeastNat ==
  ASSUME NEW D, D \subseteq Nat, D # {}
  PROVE  \E n \in D : \A m \in D : n <= m
<1> DEFINE T == {0 .. n : n \in D}
<1>1. T \subseteq FiniteSubsetsOf(Nat)
  <2> SUFFICES ASSUME NEW n \in D PROVE 0 .. n \in FiniteSubsetsOf(Nat)
    OBVIOUS
  <2>1. n \in Nat /\ 0 .. n \in SUBSET Nat
    OBVIOUS
  <2>2. IsFiniteSet(0 .. n)
    BY <2>1, FS_Interval
  <2> QED BY <2>1, <2>2 DEF FiniteSubsetsOf
<1>2. T # {}
  OBVIOUS
<1>3. IsWellFoundedOn(StrictSubsetOrdering(Nat), FiniteSubsetsOf(Nat))
  BY FS_StrictSubsetOrderingWellFounded
<1> HIDE DEF T
<1>4. PICK x \in T : \A y \in T : <<y, x>> \notin StrictSubsetOrdering(Nat)
  BY <1>1, <1>2, <1>3, WFMin
<1>5. PICK n \in D : x = 0 .. n
  BY <1>4 DEF T
<1>6. ASSUME NEW m \in D, ~(n <= m) PROVE FALSE
  <2>1. m \in Nat /\ n \in Nat /\ 0 .. m \in T
    BY DEF T
  <2>2. 0 .. m \subseteq 0 .. n /\ 0 .. m # 0 .. n
    <3>1. n \in 0 .. n /\ n \notin 0 .. m
      BY <1>6, <2>1
    <3> QED BY <1>6, <2>1, <3>1
  <2>3. <<0 .. m, 0 .. n>> \in StrictSubsetOrdering(Nat)
    BY <2>1, <2>2 DEF StrictSubsetOrdering
  <2> QED BY <1>4, <1>5, <2>1, <2>3
<1> QED BY <1>6

(* A family of finite sets that is not empty has a least member. *)
LEMMA LeastSet ==
  ASSUME NEW S, IsFiniteSet(S), NEW T, T \subseteq SUBSET S, T # {}
  PROVE  \E A \in T : \A B \in T : B \subseteq A => B = A
<1>1. T \subseteq FiniteSubsetsOf(S)
  BY FS_Subset DEF FiniteSubsetsOf
<1>2. IsWellFoundedOn(StrictSubsetOrdering(S), FiniteSubsetsOf(S))
  BY FS_StrictSubsetOrderingWellFounded
<1>3. PICK A \in T : \A B \in T : <<B, A>> \notin StrictSubsetOrdering(S)
  BY <1>1, <1>2, WFMin
<1>4. ASSUME NEW B \in T, B \subseteq A, B # A PROVE FALSE
  <2>1. <<B, A>> \in StrictSubsetOrdering(S)
    BY <1>4 DEF StrictSubsetOrdering
  <2> QED BY <1>3, <2>1
<1> QED BY <1>4

-----------------------------------------------------------------------------
(* Paths. *)

(* What a prefix is, element by element. *)
LEMMA PrefixMeans ==
  ASSUME NEW p \in Paths, NEW q \in Paths
  PROVE  IsPrefix(p, q) <=>
           Len(p) <= Len(q) /\ \A i \in 1 .. Len(p) : q[i] = p[i]
<1>1. Len(p) \in Nat /\ Len(q) \in Nat /\ SubSeq(p, 1, Len(p)) = p
  BY SubSeqFull DEF Paths
<1>2. ASSUME Len(p) <= Len(q)
      PROVE  /\ SubSeq(q, 1, Len(p)) \in Paths /\ Len(SubSeq(q, 1, Len(p))) = Len(p)
             /\ \A i \in 1 .. Len(p) : SubSeq(q, 1, Len(p))[i] = q[i]
  BY <1>1, <1>2 DEF Paths
<1>3. ASSUME Len(p) <= Len(q), \A i \in 1 .. Len(p) : q[i] = p[i]
      PROVE  SubSeq(q, 1, Len(p)) = p
  BY <1>1, <1>2, <1>3, SeqEqual DEF Paths
<1> QED BY <1>1, <1>2, <1>3 DEF IsPrefix

(* The first steps of a path. *)
LEMMA FirstSteps ==
  ASSUME NEW q \in Paths, NEW i \in Nat, i <= Len(q)
  PROVE  /\ SubSeq(q, 1, i) \in Paths /\ Len(SubSeq(q, 1, i)) = i
         /\ \A j \in 1 .. i : SubSeq(q, 1, i)[j] = q[j]
BY DEF Paths

(* A prefix is the first steps. *)
LEMMA PrefixIsFirst ==
  ASSUME NEW p \in Paths, NEW q \in Paths, IsPrefix(p, q)
  PROVE  /\ Len(p) \in Nat /\ Len(p) <= Len(q) /\ SubSeq(q, 1, Len(p)) = p
BY SubSeqFull DEF IsPrefix, Paths

(* What it is to be below a child. *)
LEMMA BelowMeans ==
  ASSUME NEW p \in Paths, NEW d \in Sides, NEW q \in Paths
  PROVE  IsPrefix(Append(p, d), q) <=>
           /\ Len(p) < Len(q) /\ q[Len(p) + 1] = d
           /\ \A i \in 1 .. Len(p) : q[i] = p[i]
<1>1. /\ Append(p, d) \in Paths /\ Len(Append(p, d)) = Len(p) + 1
      /\ Append(p, d)[Len(p) + 1] = d
      /\ \A i \in 1 .. Len(p) : Append(p, d)[i] = p[i]
  BY DEF Paths
<1>2. Len(p) \in Nat /\ Len(q) \in Nat
  BY DEF Paths
<1>3. (\A i \in 1 .. Len(p) + 1 : q[i] = Append(p, d)[i])
        <=> q[Len(p) + 1] = d /\ \A i \in 1 .. Len(p) : q[i] = p[i]
  BY <1>1, <1>2
<1>4. IsPrefix(Append(p, d), q) <=>
        /\ Len(p) + 1 <= Len(q)
        /\ \A i \in 1 .. Len(p) + 1 : q[i] = Append(p, d)[i]
  BY <1>1, PrefixMeans
<1>5. Len(p) + 1 <= Len(q) <=> Len(p) < Len(q)
  BY <1>2
<1> HIDE DEF Paths
<1> QED BY <1>3, <1>4, <1>5

(* Where the node that is at q once p is lifted was before: d was the only *)
(* child of p.                                                             *)
Down(p, d, q) == Append(p, d) \o SubSeq(q, Len(p) + 1, Len(q))
Origin(p, d, q) == IF IsPrefix(p, q) THEN Down(p, d, q) ELSE q

(* The same, element by element. *)
LEMMA DownMeans ==
  ASSUME NEW p \in Paths, NEW d \in Sides, NEW q \in Paths, IsPrefix(p, q)
  PROVE  /\ Down(p, d, q) \in Paths /\ Len(Down(p, d, q)) = Len(q) + 1
         /\ Down(p, d, q)[Len(p) + 1] = d
         /\ \A i \in 1 .. Len(p) : Down(p, d, q)[i] = p[i] /\ q[i] = p[i]
         /\ \A i \in Len(p) + 1 .. Len(q) : Down(p, d, q)[i + 1] = q[i]
         /\ IsPrefix(Append(p, d), Down(p, d, q))
<1> DEFINE a == Append(p, d)
           r == SubSeq(q, Len(p) + 1, Len(q))
           o == a \o r
<1>1. /\ Len(p) \in Nat /\ Len(q) \in Nat /\ Len(p) <= Len(q)
      /\ \A i \in 1 .. Len(p) : q[i] = p[i]
  BY PrefixMeans DEF Paths
<1>2. /\ a \in Paths /\ Len(a) = Len(p) + 1 /\ a[Len(p) + 1] = d
      /\ \A i \in 1 .. Len(p) : a[i] = p[i]
  BY DEF Paths
<1>3. /\ r \in Paths /\ Len(r) = Len(q) - Len(p)
      /\ \A i \in 1 .. Len(q) - Len(p) : r[i] = q[Len(p) + i]
  BY <1>1 DEF Paths
<1>4. /\ o \in Paths /\ Len(o) = Len(a) + Len(r)
      /\ \A i \in 1 .. Len(a) + Len(r) :
           o[i] = IF i <= Len(a) THEN a[i] ELSE r[i - Len(a)]
  BY <1>2, <1>3, ConcatProperties DEF Paths
<1> HIDE DEF a, r, o
<1>5. Len(o) = Len(q) + 1 /\ o[Len(p) + 1] = d
  BY <1>1, <1>2, <1>3, <1>4
<1>6. \A i \in 1 .. Len(p) : o[i] = p[i]
  BY <1>1, <1>2, <1>3, <1>4
<1>7. \A i \in Len(p) + 1 .. Len(q) : o[i + 1] = q[i]
  <2> SUFFICES ASSUME NEW i \in Len(p) + 1 .. Len(q) PROVE o[i + 1] = q[i]
    OBVIOUS
  <2>1. o[i + 1] = r[i + 1 - Len(a)]
    BY <1>1, <1>2, <1>3, <1>4
  <2>2. i + 1 - Len(a) = i - Len(p) /\ i - Len(p) \in 1 .. Len(q) - Len(p)
    BY <1>1, <1>2
  <2>3. r[i - Len(p)] = q[Len(p) + (i - Len(p))]
    BY <1>3, <2>2
  <2>4. Len(p) + (i - Len(p)) = i
    BY <1>1
  <2> QED BY <2>1, <2>2, <2>3, <2>4
<1>8. IsPrefix(Append(p, d), o)
  BY <1>1, <1>4, <1>5, <1>6, BelowMeans
<1>9. Down(p, d, q) = o
  BY DEF Down, o, a, r
<1> QED BY <1>1, <1>4, <1>5, <1>6, <1>7, <1>8, <1>9

(* Different paths come from different places. *)
LEMMA OriginApart ==
  ASSUME NEW p \in Paths, NEW d \in Sides, NEW q \in Paths, NEW r \in Paths,
         Origin(p, d, q) = Origin(p, d, r)
  PROVE  q = r
<1>1. CASE IsPrefix(p, q) /\ IsPrefix(p, r)
  <2>1. Down(p, d, q) = Down(p, d, r)
    BY <1>1 DEF Origin
  <2>2. /\ Len(p) \in Nat /\ Len(q) \in Nat /\ Len(r) \in Nat
        /\ Len(q) + 1 = Len(r) + 1
        /\ \A i \in 1 .. Len(p) : q[i] = p[i] /\ r[i] = p[i]
        /\ \A i \in Len(p) + 1 .. Len(q) : Down(p, d, q)[i + 1] = q[i]
        /\ \A i \in Len(p) + 1 .. Len(r) : Down(p, d, r)[i + 1] = r[i]
    <3>1. Len(p) \in Nat /\ Len(q) \in Nat /\ Len(r) \in Nat
      BY DEF Paths
    <3>2. Len(Down(p, d, q)) = Len(q) + 1 /\ Len(Down(p, d, r)) = Len(r) + 1
      BY <1>1, DownMeans
    <3> QED BY <1>1, <2>1, <3>1, <3>2, DownMeans
  <2>3. Len(q) = Len(r)
    BY <2>2
  <2>4. \A i \in 1 .. Len(q) : q[i] = r[i]
    BY <2>1, <2>2, <2>3
  <2> QED BY <2>3, <2>4, SeqEqual DEF Paths
<1>2. CASE IsPrefix(p, q) /\ ~IsPrefix(p, r)
  <2>1. Down(p, d, q) = r
    BY <1>2 DEF Origin
  <2>2. IsPrefix(Append(p, d), r)
    BY <1>2, <2>1, DownMeans
  <2>3. IsPrefix(p, r)
    BY <2>2, BelowMeans, PrefixMeans DEF Paths
  <2> QED BY <1>2, <2>3
<1>3. CASE ~IsPrefix(p, q) /\ IsPrefix(p, r)
  <2>1. Down(p, d, r) = q
    BY <1>3 DEF Origin
  <2>2. IsPrefix(Append(p, d), q)
    BY <1>3, <2>1, DownMeans
  <2>3. IsPrefix(p, q)
    BY <2>2, BelowMeans, PrefixMeans DEF Paths
  <2> QED BY <1>3, <2>3
<1>4. CASE ~IsPrefix(p, q) /\ ~IsPrefix(p, r)
  BY <1>4 DEF Origin
<1> QED BY <1>1, <1>2, <1>3, <1>4

(* The first steps of a path come from first steps. *)
LEMMA OriginOfFirst ==
  ASSUME NEW p \in Paths, NEW d \in Sides, NEW q \in Paths,
         NEW i \in Nat, i <= Len(q)
  PROVE  \E j \in Nat : /\ j <= Len(Origin(p, d, q))
                        /\ Origin(p, d, SubSeq(q, 1, i)) = SubSeq(Origin(p, d, q), 1, j)
<1>0. PICK s : s = SubSeq(q, 1, i)
  OBVIOUS
<1>1. /\ s \in Paths /\ Len(s) = i /\ \A k \in 1 .. i : s[k] = q[k]
      /\ Len(p) \in Nat /\ Len(q) \in Nat
  BY <1>0, FirstSteps DEF Paths
<1>2. IsPrefix(p, s) <=> IsPrefix(p, q) /\ Len(p) <= i
  <2>1. IsPrefix(p, s) <=> Len(p) <= i /\ \A k \in 1 .. Len(p) : s[k] = p[k]
    BY <1>1, PrefixMeans
  <2>2. IsPrefix(p, q) <=> Len(p) <= Len(q) /\ \A k \in 1 .. Len(p) : q[k] = p[k]
    BY PrefixMeans
  <2>3. Len(p) <= i => \A k \in 1 .. Len(p) : s[k] = q[k]
    BY <1>1
  <2>4. Len(p) <= i => Len(p) <= Len(q)
    BY <1>1
  <2> QED BY <2>1, <2>2, <2>3, <2>4
<1>3. CASE ~IsPrefix(p, q)
  <2>1. Origin(p, d, q) = q /\ Origin(p, d, s) = s
    BY <1>2, <1>3 DEF Origin
  <2> QED BY <1>0, <2>1
<1>4. CASE IsPrefix(p, q) /\ i < Len(p)
  <2>1. Origin(p, d, q) = Down(p, d, q) /\ Origin(p, d, s) = s
    BY <1>1, <1>2, <1>4 DEF Origin
  <2> PICK o : o = Down(p, d, q)
    OBVIOUS
  <2>2. /\ o \in Paths /\ Len(o) = Len(q) + 1
        /\ \A k \in 1 .. Len(p) : o[k] = p[k] /\ q[k] = p[k]
    BY <1>4, DownMeans
  <2>3. /\ i <= Len(o) /\ SubSeq(o, 1, i) \in Paths /\ Len(SubSeq(o, 1, i)) = i
        /\ \A k \in 1 .. i : SubSeq(o, 1, i)[k] = o[k]
    BY <1>1, <2>2, FirstSteps
  <2>4. \A k \in 1 .. i : SubSeq(o, 1, i)[k] = s[k]
    BY <1>1, <1>4, <2>2, <2>3
  <2>5. SubSeq(o, 1, i) = s
    BY <1>1, <2>3, <2>4, SeqEqual DEF Paths
  <2> QED BY <1>0, <2>1, <2>3, <2>5
<1>5. CASE IsPrefix(p, q) /\ Len(p) <= i
  <2>1. Origin(p, d, q) = Down(p, d, q) /\ Origin(p, d, s) = Down(p, d, s)
    BY <1>2, <1>5 DEF Origin
  <2> PICK o, t : o = Down(p, d, q) /\ t = Down(p, d, s)
    OBVIOUS
  <2>2. /\ o \in Paths /\ Len(o) = Len(q) + 1 /\ o[Len(p) + 1] = d
        /\ \A k \in 1 .. Len(p) : o[k] = p[k]
        /\ \A k \in Len(p) + 1 .. Len(q) : o[k + 1] = q[k]
    BY <1>5, DownMeans
  <2>3. /\ t \in Paths /\ Len(t) = i + 1 /\ t[Len(p) + 1] = d
        /\ \A k \in 1 .. Len(p) : t[k] = p[k]
        /\ \A k \in Len(p) + 1 .. i : t[k + 1] = s[k]
    <3>1. IsPrefix(p, s) /\ s \in Paths
      BY <1>1, <1>2, <1>5
    <3>2. /\ t \in Paths /\ Len(t) = Len(s) + 1 /\ t[Len(p) + 1] = d
          /\ \A k \in 1 .. Len(p) : t[k] = p[k]
          /\ \A k \in Len(p) + 1 .. Len(s) : t[k + 1] = s[k]
      BY <3>1, DownMeans
    <3> QED BY <1>1, <3>2
  <2>4. /\ i + 1 \in Nat /\ i + 1 <= Len(o)
        /\ SubSeq(o, 1, i + 1) \in Paths /\ Len(SubSeq(o, 1, i + 1)) = i + 1
        /\ \A k \in 1 .. i + 1 : SubSeq(o, 1, i + 1)[k] = o[k]
    <3>1. i + 1 \in Nat /\ i + 1 <= Len(o)
      BY <1>1, <2>2
    <3> QED BY <2>2, <3>1, FirstSteps
  <2>5. ASSUME NEW k \in 1 .. i + 1 PROVE o[k] = t[k]
    <3>1. CASE k <= Len(p)
      BY <1>1, <2>2, <2>3, <3>1
    <3>2. CASE k = Len(p) + 1
      BY <2>2, <2>3, <3>2
    <3>3. CASE k > Len(p) + 1
      <4>1. k - 1 \in Len(p) + 1 .. i /\ (k - 1) + 1 = k /\ k - 1 \in 1 .. i
        BY <1>1, <3>3
      <4>2. k - 1 \in Len(p) + 1 .. Len(q)
        BY <1>1, <4>1
      <4>3. o[k] = q[k - 1] /\ t[k] = s[k - 1] /\ s[k - 1] = q[k - 1]
        <5>1. o[(k - 1) + 1] = q[k - 1]
          BY <2>2, <4>2
        <5>2. t[(k - 1) + 1] = s[k - 1] /\ s[k - 1] = q[k - 1]
          BY <1>1, <2>3, <4>1
        <5> QED BY <4>1, <5>1, <5>2
      <4> QED BY <4>3
    <3> QED BY <1>1, <3>1, <3>2, <3>3
  <2>6. SubSeq(o, 1, i + 1) = t
    BY <2>3, <2>4, <2>5, SeqEqual DEF Paths
  <2> QED BY <1>0, <2>1, <2>4, <2>6
<1> QED BY <1>1, <1>3, <1>4, <1>5

(* What is below a child comes from below the same child of its origin. *)
LEMMA OriginBelow ==
  ASSUME NEW p \in Paths, NEW d \in Sides, NEW a \in Paths, NEW b \in Paths,
         NEW e \in Sides, IsPrefix(Append(a, e), b)
  PROVE  /\ Origin(p, d, a) \in Paths /\ Origin(p, d, b) \in Paths
         /\ IsPrefix(Append(Origin(p, d, a), e), Origin(p, d, b))
<1>1. /\ Len(a) < Len(b) /\ b[Len(a) + 1] = e /\ \A i \in 1 .. Len(a) : b[i] = a[i]
      /\ Len(a) \in Nat /\ Len(b) \in Nat /\ Len(p) \in Nat
  BY BelowMeans DEF Paths
<1>2. IsPrefix(p, a) <=> IsPrefix(p, b) /\ Len(p) <= Len(a)
  BY <1>1, PrefixMeans
<1>3. CASE ~IsPrefix(p, b)
  BY <1>2, <1>3 DEF Origin
<1>4. CASE IsPrefix(p, b) /\ Len(a) < Len(p)
  <2>1. Origin(p, d, b) = Down(p, d, b) /\ Origin(p, d, a) = a
    BY <1>1, <1>2, <1>4 DEF Origin
  <2> PICK o : o = Down(p, d, b)
    OBVIOUS
  <2>2. /\ o \in Paths /\ Len(o) = Len(b) + 1
        /\ \A k \in 1 .. Len(p) : o[k] = p[k] /\ b[k] = p[k]
    BY <1>4, DownMeans
  <2>3. o[Len(a) + 1] = b[Len(a) + 1] /\ \A k \in 1 .. Len(a) : o[k] = b[k]
    BY <1>1, <1>4, <2>2
  <2>4. IsPrefix(Append(a, e), o)
    BY <1>1, <2>2, <2>3, BelowMeans
  <2> QED BY <2>1, <2>2, <2>4
<1>5. CASE IsPrefix(p, b) /\ Len(p) <= Len(a)
  <2>1. Origin(p, d, b) = Down(p, d, b) /\ Origin(p, d, a) = Down(p, d, a)
    BY <1>2, <1>5 DEF Origin
  <2> PICK o, t : o = Down(p, d, b) /\ t = Down(p, d, a)
    OBVIOUS
  <2>2. /\ o \in Paths /\ Len(o) = Len(b) + 1 /\ o[Len(p) + 1] = d
        /\ \A k \in 1 .. Len(p) : o[k] = p[k]
        /\ \A k \in Len(p) + 1 .. Len(b) : o[k + 1] = b[k]
    BY <1>5, DownMeans
  <2>3. /\ t \in Paths /\ Len(t) = Len(a) + 1 /\ t[Len(p) + 1] = d
        /\ \A k \in 1 .. Len(p) : t[k] = p[k]
        /\ \A k \in Len(p) + 1 .. Len(a) : t[k + 1] = a[k]
    BY <1>2, <1>5, DownMeans
  <2>4. ASSUME NEW k \in 1 .. Len(a) + 1 PROVE o[k] = t[k]
    <3>1. CASE k <= Len(p)
      BY <1>1, <2>2, <2>3, <3>1
    <3>2. CASE k = Len(p) + 1
      BY <2>2, <2>3, <3>2
    <3>3. CASE k > Len(p) + 1
      <4>1. /\ k - 1 \in Len(p) + 1 .. Len(a) /\ (k - 1) + 1 = k
            /\ k - 1 \in 1 .. Len(a) /\ k - 1 \in Len(p) + 1 .. Len(b)
        BY <1>1, <3>3
      <4>2. /\ o[(k - 1) + 1] = b[k - 1] /\ t[(k - 1) + 1] = a[k - 1]
            /\ b[k - 1] = a[k - 1]
        BY <1>1, <2>2, <2>3, <4>1
      <4> QED BY <4>1, <4>2
    <3> QED BY <1>1, <3>1, <3>2, <3>3
  <2>5. o[Len(t) + 1] = e
    <3>1. Len(a) + 1 \in Len(p) + 1 .. Len(b) /\ Len(t) + 1 = (Len(a) + 1) + 1
      BY <1>1, <1>5, <2>3
    <3> QED BY <1>1, <2>2, <3>1
  <2>6. IsPrefix(Append(t, e), o)
    <3>1. Len(t) < Len(o) /\ \A k \in 1 .. Len(t) : o[k] = t[k]
      BY <1>1, <2>2, <2>3, <2>4
    <3> QED BY <2>2, <2>3, <2>5, <3>1, BelowMeans
  <2> QED BY <2>1, <2>2, <2>3, <2>6
<1> QED BY <1>1, <1>3, <1>4, <1>5

(* Where a node below the child goes. *)
Up(p, r) == p \o SubSeq(r, Len(p) + 2, Len(r))

(* It comes from where it was. *)
LEMMA UpDown ==
  ASSUME NEW p \in Paths, NEW d \in Sides, NEW r \in Paths,
         IsPrefix(Append(p, d), r)
  PROVE  /\ Up(p, r) \in Paths /\ IsPrefix(p, Up(p, r))
         /\ Down(p, d, Up(p, r)) = r
<1> DEFINE u == SubSeq(r, Len(p) + 2, Len(r))
           q == p \o u
<1>1. /\ Len(p) \in Nat /\ Len(r) \in Nat /\ Len(p) < Len(r)
      /\ r[Len(p) + 1] = d /\ \A i \in 1 .. Len(p) : r[i] = p[i]
  BY BelowMeans DEF Paths
<1>2. /\ u \in Paths /\ Len(u) = Len(r) - Len(p) - 1
      /\ \A i \in 1 .. Len(r) - Len(p) - 1 : u[i] = r[Len(p) + 1 + i]
  BY <1>1 DEF Paths
<1>3. /\ q \in Paths /\ Len(q) = Len(p) + Len(u)
      /\ \A i \in 1 .. Len(p) + Len(u) :
           q[i] = IF i <= Len(p) THEN p[i] ELSE u[i - Len(p)]
  BY <1>2, ConcatProperties DEF Paths
<1> HIDE DEF u, q
<1>4. Len(q) = Len(r) - 1 /\ \A i \in 1 .. Len(p) : q[i] = p[i]
  BY <1>1, <1>2, <1>3
<1>5. \A i \in Len(p) + 1 .. Len(q) : q[i] = r[i + 1]
  <2> SUFFICES ASSUME NEW i \in Len(p) + 1 .. Len(q) PROVE q[i] = r[i + 1]
    OBVIOUS
  <2>1. q[i] = u[i - Len(p)] /\ i - Len(p) \in 1 .. Len(r) - Len(p) - 1
    BY <1>1, <1>2, <1>3
  <2>2. Len(p) + 1 + (i - Len(p)) = i + 1
    BY <1>1
  <2>3. u[i - Len(p)] = r[Len(p) + 1 + (i - Len(p))]
    BY <1>2, <2>1
  <2> QED BY <2>1, <2>2, <2>3
<1>6. IsPrefix(p, q)
  BY <1>1, <1>3, <1>4, PrefixMeans
<1> PICK o : o = Down(p, d, q)
  OBVIOUS
<1>7. /\ o \in Paths /\ Len(o) = Len(q) + 1 /\ o[Len(p) + 1] = d
      /\ \A i \in 1 .. Len(p) : o[i] = p[i]
      /\ \A i \in Len(p) + 1 .. Len(q) : o[i + 1] = q[i]
  BY <1>3, <1>6, DownMeans
<1>8. ASSUME NEW k \in 1 .. Len(r) PROVE o[k] = r[k]
  <2>1. CASE k <= Len(p)
    BY <1>1, <1>7, <2>1
  <2>2. CASE k = Len(p) + 1
    BY <1>1, <1>7, <2>2
  <2>3. CASE k > Len(p) + 1
    <3>1. k - 1 \in Len(p) + 1 .. Len(q) /\ (k - 1) + 1 = k
      BY <1>1, <1>4, <2>3
    <3>2. o[(k - 1) + 1] = q[k - 1] /\ q[k - 1] = r[(k - 1) + 1]
      BY <1>5, <1>7, <3>1
    <3> QED BY <3>1, <3>2
  <2> QED BY <1>1, <2>1, <2>2, <2>3
<1>9. o = r
  <2>1. Len(o) = Len(r)
    BY <1>1, <1>4, <1>7
  <2> QED BY <1>7, <1>8, <2>1, SeqEqual DEF Paths
<1>10. Up(p, r) = q
  BY DEF Up, q, u
<1> QED BY <1>3, <1>6, <1>9, <1>10

(* A longer path goes on below a child. *)
LEMMA NextStep ==
  ASSUME NEW p \in Paths, NEW r \in Paths, IsPrefix(p, r), r # p
  PROVE  /\ Len(p) \in Nat /\ Len(r) \in Nat /\ Len(p) < Len(r)
         /\ r[Len(p) + 1] \in Sides
         /\ IsPrefix(Append(p, r[Len(p) + 1]), r)
         /\ SubSeq(r, 1, Len(p) + 1) = Append(p, r[Len(p) + 1])
<1>1. /\ Len(p) \in Nat /\ Len(r) \in Nat /\ Len(p) <= Len(r)
      /\ \A i \in 1 .. Len(p) : r[i] = p[i]
  BY PrefixMeans DEF Paths
<1>2. Len(p) # Len(r)
  BY <1>1, SeqEqual DEF Paths
<1>3. Len(p) < Len(r) /\ r[Len(p) + 1] \in Sides
  BY <1>1, <1>2 DEF Paths
<1> PICK d \in Sides : d = r[Len(p) + 1]
  BY <1>3
<1>4. IsPrefix(Append(p, d), r)
  BY <1>1, <1>3, BelowMeans
<1>5. Append(p, d) \in Paths /\ Len(Append(p, d)) = Len(p) + 1
  BY DEF Paths
<1>6. SubSeq(r, 1, Len(p) + 1) = Append(p, d)
  BY <1>4, <1>5, PrefixIsFirst
<1> QED BY <1>1, <1>3, <1>4, <1>6

(* A node's path leads over nodes only. *)
LEMMA PrefixIsNode ==
  ASSUME NEW t, Shaped(t), NEW q \in DOMAIN t, NEW p \in Paths, IsPrefix(p, q)
  PROVE  p \in DOMAIN t
<1>1. q \in Paths /\ Len(p) \in Nat /\ Len(p) <= Len(q) /\ SubSeq(q, 1, Len(p)) = p
  BY PrefixIsFirst DEF Shaped
<1> QED BY <1>1 DEF Shaped

(* What is left when the node at p is destroyed. *)
LEMMA LiftedMeans ==
  ASSUME Shaped(tree), NEW p \in Nodes, NEW d \in Sides
  PROVE  /\ DOMAIN Lifted(p, d) = {q \in Paths : Origin(p, d, q) \in Nodes}
         /\ \A q \in DOMAIN Lifted(p, d) : Lifted(p, d)[q] = tree[Origin(p, d, q)]
<1> DEFINE from == Append(p, d)
           moved == {p \o SubSeq(q, Len(from) + 1, Len(q)) : q \in Below(from)}
           left == (Nodes \ Below(p)) \cup moved
<1>1. Nodes \subseteq Paths /\ p \in Paths
  BY DEF Shaped, Nodes
<1>2. Len(from) + 1 = Len(p) + 2
  BY <1>1 DEF Paths
<1>3. Lifted(p, d) =
        [q \in left |->
           IF q \in moved THEN tree[from \o SubSeq(q, Len(p) + 1, Len(q))] ELSE tree[q]]
  BY DEF Lifted
<1>4. moved = {Up(p, q) : q \in Below(from)}
  BY <1>2 DEF Up
<1>5. moved = {q \in Paths : IsPrefix(p, q) /\ Down(p, d, q) \in Nodes}
  <2>1. ASSUME NEW r \in Below(from)
        PROVE  /\ Up(p, r) \in Paths /\ IsPrefix(p, Up(p, r))
               /\ Down(p, d, Up(p, r)) \in Nodes
    <3>1. r \in Nodes /\ r \in Paths /\ IsPrefix(Append(p, d), r)
      BY <1>1 DEF Below
    <3> QED BY <1>1, <3>1, UpDown
  <2>2. ASSUME NEW q \in Paths, IsPrefix(p, q), Down(p, d, q) \in Nodes
        PROVE  q \in moved
    <3> PICK r : r = Down(p, d, q)
      OBVIOUS
    <3>1. r \in Nodes /\ r \in Paths /\ IsPrefix(Append(p, d), r)
      BY <1>1, <2>2, DownMeans
    <3>2. Up(p, r) \in Paths /\ IsPrefix(p, Up(p, r)) /\ Down(p, d, Up(p, r)) = r
      BY <1>1, <3>1, UpDown
    <3>3. Origin(p, d, Up(p, r)) = Origin(p, d, q)
      BY <2>2, <3>2 DEF Origin
    <3>4. Up(p, r) = q
      BY <1>1, <3>2, <3>3, OriginApart
    <3>5. r \in Below(from)
      BY <3>1 DEF Below
    <3> QED BY <1>4, <3>4, <3>5
  <2> HIDE DEF moved
  <2> QED BY <1>4, <2>1, <2>2
<1> HIDE DEF moved
<1>6. \A q \in Nodes \ Below(p) : q \in Paths /\ ~IsPrefix(p, q) /\ Origin(p, d, q) = q
  BY <1>1 DEF Below, Origin
<1>7. \A q \in moved : IsPrefix(p, q) /\ Origin(p, d, q) = Down(p, d, q)
  BY <1>5 DEF Origin
<1>8. left = {q \in Paths : Origin(p, d, q) \in Nodes}
  <2>1. ASSUME NEW q \in left PROVE q \in Paths /\ Origin(p, d, q) \in Nodes
    BY <1>5, <1>6, <1>7
  <2>2. ASSUME NEW q \in Paths, Origin(p, d, q) \in Nodes PROVE q \in left
    <3>1. CASE IsPrefix(p, q)
      BY <1>5, <2>2, <3>1 DEF Origin
    <3>2. CASE ~IsPrefix(p, q)
      BY <2>2, <3>2 DEF Origin, Below
    <3> QED BY <3>1, <3>2
  <2> HIDE DEF left
  <2> QED BY <2>1, <2>2
<1>9. ASSUME NEW q \in left
      PROVE  Lifted(p, d)[q] = tree[Origin(p, d, q)]
  <2>1. CASE q \in moved
    BY <1>3, <1>7, <2>1 DEF Down
  <2>2. CASE q \notin moved
    BY <1>3, <1>6, <2>2
  <2> QED BY <2>1, <2>2
<1>10. DOMAIN Lifted(p, d) = left
  BY <1>3
<1> HIDE DEF left
<1> QED BY <1>8, <1>9, <1>10

(* The origins of what is left are all nodes but the one destroyed, each   *)
(* once.                                                                   *)
LEMMA LiftedOrigins ==
  ASSUME Shaped(tree), NEW p \in Nodes, NEW d \in Sides, NEW e \in Sides, d # e,
         Child(p, e) = {}
  PROVE  /\ \A q \in DOMAIN Lifted(p, d) :
              Origin(p, d, q) \in Nodes /\ Origin(p, d, q) # p
         /\ \A q, r \in DOMAIN Lifted(p, d) :
              Origin(p, d, q) = Origin(p, d, r) => q = r
         /\ \A r \in Nodes : r # p =>
              \E q \in DOMAIN Lifted(p, d) : Origin(p, d, q) = r
<1> PICK L : L = DOMAIN Lifted(p, d)
  OBVIOUS
<1>1. Nodes \subseteq Paths /\ p \in Paths
  BY DEF Shaped, Nodes
<1>2. L = {q \in Paths : Origin(p, d, q) \in Nodes}
  BY LiftedMeans
<1>3. ASSUME NEW q \in L PROVE Origin(p, d, q) # p
  <2>1. q \in Paths /\ IsPrefix(p, p) /\ Len(p) \in Nat
    BY <1>1, <1>2, PrefixMeans DEF Paths
  <2>2. CASE IsPrefix(p, q)
    <3>1. Len(Down(p, d, q)) = Len(q) + 1 /\ Len(p) <= Len(q) /\ Len(q) \in Nat
      BY <1>1, <2>1, <2>2, DownMeans, PrefixMeans DEF Paths
    <3>2. Len(Down(p, d, q)) # Len(p)
      BY <2>1, <3>1
    <3> QED BY <2>2, <3>2 DEF Origin
  <2>3. CASE ~IsPrefix(p, q)
    BY <2>1, <2>3 DEF Origin
  <2> QED BY <2>2, <2>3
<1>4. ASSUME NEW q \in L, NEW r \in L, Origin(p, d, q) = Origin(p, d, r)
      PROVE  q = r
  BY <1>1, <1>2, <1>4, OriginApart
<1>5. ASSUME NEW r \in Nodes, r # p PROVE \E q \in L : Origin(p, d, q) = r
  <2>1. CASE ~IsPrefix(p, r)
    BY <1>1, <1>2, <2>1 DEF Origin
  <2>2. CASE IsPrefix(p, r)
    <3>1. /\ r[Len(p) + 1] \in Sides /\ IsPrefix(Append(p, r[Len(p) + 1]), r)
      BY <1>1, <1>5, <2>2, NextStep
    <3>2. r[Len(p) + 1] # e
      <4>1. SUFFICES ASSUME r[Len(p) + 1] = e PROVE FALSE
        OBVIOUS
      <4>2. Append(p, e) \in Paths
        BY <1>1 DEF Paths
      <4>3. IsPrefix(Append(p, e), r)
        BY <3>1, <4>1
      <4>4. Append(p, e) \in Nodes
        BY <4>2, <4>3, PrefixIsNode DEF Nodes
      <4> QED BY <4>4 DEF Child
    <3>3. r[Len(p) + 1] = d
      BY <3>1, <3>2 DEF Sides
    <3>4. IsPrefix(Append(p, d), r)
      BY <3>1, <3>3
    <3>5. Up(p, r) \in Paths /\ IsPrefix(p, Up(p, r)) /\ Down(p, d, Up(p, r)) = r
      BY <1>1, <3>4, UpDown
    <3> QED BY <1>2, <3>5 DEF Origin
  <2> QED BY <2>1, <2>2
<1> QED BY <1>2, <1>3, <1>4, <1>5

(* What is left is a tree again, in order. *)
LEMMA LiftedSound ==
  ASSUME Shaped(tree), Ordered(tree), NEW p \in Nodes, NEW d \in Sides
  PROVE  Shaped(Lifted(p, d)) /\ Ordered(Lifted(p, d))
<1>0. PICK t : t = Lifted(p, d)
  OBVIOUS
<1>1. Nodes \subseteq Paths /\ p \in Paths /\ IsFiniteSet(Nodes)
  BY DEF Shaped, Nodes
<1>2. /\ DOMAIN t = {q \in Paths : Origin(p, d, q) \in Nodes}
      /\ \A q \in DOMAIN t : t[q] = tree[Origin(p, d, q)]
  BY <1>0, LiftedMeans
<1>3. IsFiniteSet(DOMAIN t)
  <2> DEFINE f == [q \in DOMAIN t |-> Origin(p, d, q)]
  <2>1. f \in [DOMAIN t -> Nodes]
    BY <1>2
  <2>2. \A q, r \in DOMAIN t : f[q] = f[r] => q = r
    BY <1>1, <1>2, OriginApart
  <2>3. f \in Injection(DOMAIN t, Nodes)
    BY <2>1, <2>2 DEF Injection, IsInjective
  <2> QED BY <1>1, <2>3, FS_Injection
<1>4. ASSUME NEW q \in DOMAIN t, NEW i \in Nat, i <= Len(q)
      PROVE  SubSeq(q, 1, i) \in DOMAIN t
  <2>1. q \in Paths /\ Origin(p, d, q) \in Nodes /\ SubSeq(q, 1, i) \in Paths
    BY <1>2, <1>4, FirstSteps
  <2>2. PICK j \in Nat :
          /\ j <= Len(Origin(p, d, q))
          /\ Origin(p, d, SubSeq(q, 1, i)) = SubSeq(Origin(p, d, q), 1, j)
    BY <1>1, <1>4, <2>1, OriginOfFirst
  <2>3. SubSeq(Origin(p, d, q), 1, j) \in Nodes
    BY <2>1, <2>2 DEF Shaped, Nodes
  <2> QED BY <1>2, <2>1, <2>2, <2>3
<1>5. Shaped(t)
  BY <1>2, <1>3, <1>4 DEF Shaped
<1>6. ASSUME NEW a \in DOMAIN t, NEW b \in DOMAIN t, NEW e \in Sides,
             IsPrefix(Append(a, e), b)
      PROVE  e = Side(t[b], t[a])
  <2>1. a \in Paths /\ b \in Paths
    BY <1>2
  <2>2. IsPrefix(Append(Origin(p, d, a), e), Origin(p, d, b))
    BY <1>1, <1>6, <2>1, OriginBelow
  <2>3. e = Side(tree[Origin(p, d, b)], tree[Origin(p, d, a)])
    BY <1>2, <2>2 DEF Ordered, Nodes
  <2> QED BY <1>2, <2>3
<1>7. Ordered(t)
  BY <1>6 DEF Ordered
<1> QED BY <1>0, <1>5, <1>7

(* Fewer nodes are below a child. *)
LEMMA BelowShrinks ==
  ASSUME Nodes \subseteq Paths, NEW s \in Nodes, NEW d \in Sides,
         NEW c \in Nodes, c = Append(s, d)
  PROVE  Below(c) \subseteq Below(s) /\ Below(c) # Below(s)
<1>1. /\ s \in Paths /\ c \in Paths /\ Len(s) \in Nat /\ Len(c) = Len(s) + 1
      /\ \A i \in 1 .. Len(s) : c[i] = s[i]
  BY DEF Paths
<1>2. ASSUME NEW q \in Nodes, IsPrefix(c, q) PROVE IsPrefix(s, q)
  <2>1. q \in Paths /\ Len(q) \in Nat
    BY DEF Paths
  <2>2. Len(c) <= Len(q) /\ \A i \in 1 .. Len(c) : q[i] = c[i]
    BY <1>1, <1>2, <2>1, PrefixMeans
  <2>3. Len(s) <= Len(q) /\ \A i \in 1 .. Len(s) : q[i] = s[i]
    BY <1>1, <2>1, <2>2
  <2> QED BY <1>1, <2>1, <2>3, PrefixMeans
<1>3. IsPrefix(s, s)
  BY <1>1, PrefixMeans
<1>4. ~IsPrefix(c, s)
  <2>1. IsPrefix(c, s) => Len(c) <= Len(s)
    BY DEF IsPrefix
  <2> QED BY <1>1, <2>1
<1> QED BY <1>2, <1>3, <1>4 DEF Below

(* Some node of the left spine has no left child: one with the fewest      *)
(* nodes below it.                                                         *)
LEMMA SuccessorIs ==
  ASSUME Shaped(tree), NEW p \in Nodes, Child(p, "right") # {}
  PROVE  Successor(p) \in LeftSpine(p) /\ Child(Successor(p), "left") = {}
<1>1. /\ Nodes \subseteq Paths /\ p \in Paths /\ IsFiniteSet(Nodes)
      /\ "left" \in Sides /\ "right" \in Sides
  BY DEF Shaped, Nodes, Sides
<1> DEFINE T == {Below(q) : q \in LeftSpine(p)}
<1>2. T \subseteq SUBSET Nodes
  BY DEF Below
<1>3. Append(p, "right") \in LeftSpine(p)
  <2>1. /\ Append(p, "right") \in Nodes /\ Append(p, "right") \in Paths
        /\ Len(Append(p, "right")) = Len(p) + 1 /\ Len(p) \in Nat
    <3>1. Append(p, "right") \in Nodes
      BY DEF Child
    <3> QED BY <1>1, <3>1 DEF Paths
  <2>2. IsPrefix(Append(p, "right"), Append(p, "right"))
    BY <2>1, PrefixMeans
  <2>3. \A i \in Len(p) + 2 .. Len(p) + 1 : FALSE
    BY <2>1
  <2> QED BY <2>1, <2>2, <2>3 DEF LeftSpine, Below
<1>4. T # {}
  BY <1>3
<1> HIDE DEF T
<1>5. PICK A \in T : \A B \in T : B \subseteq A => B = A
  BY <1>1, <1>2, <1>4, LeastSet
<1>6. PICK s \in LeftSpine(p) : A = Below(s)
  BY <1>5 DEF T
<1>7. Child(s, "left") = {}
  <2>1. SUFFICES ASSUME Child(s, "left") # {} PROVE FALSE
    OBVIOUS
  <2>0. PICK c : c = Append(s, "left")
    OBVIOUS
  <2>2. /\ s \in Paths /\ s \in Nodes /\ Len(s) \in Nat
        /\ IsPrefix(Append(p, "right"), s)
        /\ \A i \in Len(p) + 2 .. Len(s) : s[i] = "left"
    BY <1>1 DEF LeftSpine, Below, Paths
  <2>3. /\ c \in Nodes /\ c \in Paths /\ Len(c) = Len(s) + 1
        /\ c[Len(s) + 1] = "left" /\ \A i \in 1 .. Len(s) : c[i] = s[i]
    <3>1. c \in Nodes
      BY <2>0, <2>1 DEF Child
    <3> QED BY <1>1, <2>0, <2>2, <3>1 DEF Paths
  <2>4. c \in LeftSpine(p)
    <3>1. /\ Len(p) \in Nat /\ Len(p) < Len(s) /\ s[Len(p) + 1] = "right"
          /\ \A i \in 1 .. Len(p) : s[i] = p[i]
      BY <1>1, <2>2, BelowMeans DEF Paths
    <3>2. /\ Len(p) < Len(c) /\ c[Len(p) + 1] = "right"
          /\ \A i \in 1 .. Len(p) : c[i] = p[i]
      BY <2>2, <2>3, <3>1
    <3>3. IsPrefix(Append(p, "right"), c)
      BY <1>1, <2>3, <3>2, BelowMeans
    <3>4. \A i \in Len(p) + 2 .. Len(c) : c[i] = "left"
      BY <2>2, <2>3, <3>1
    <3> QED BY <2>3, <3>3, <3>4 DEF LeftSpine, Below
  <2>5. Below(c) \subseteq Below(s) /\ Below(c) # Below(s)
    BY <1>1, <2>0, <2>2, <2>3, BelowShrinks
  <2>7. Below(c) \in T
    BY <2>4 DEF T
  <2> QED BY <1>5, <1>6, <2>5, <2>7
<1> QED BY <1>7 DEF Successor

(* The leftmost node of the right subtree is the least of it. *)
LEMMA SuccessorLeast ==
  ASSUME Shaped(tree), Ordered(tree), tree \in [Nodes -> Int], NEW p \in Nodes,
         NEW s \in LeftSpine(p), Child(s, "left") = {},
         NEW q \in Nodes, IsPrefix(Append(p, "right"), q)
  PROVE  tree[s] <= tree[q]
<1>1. /\ Nodes \subseteq Paths /\ p \in Paths
      /\ "left" \in Sides /\ "right" \in Sides
  BY DEF Shaped, Nodes, Sides
<1>2. /\ s \in Nodes /\ s \in Paths /\ IsPrefix(Append(p, "right"), s)
      /\ \A i \in Len(p) + 2 .. Len(s) : s[i] = "left"
      /\ q \in Paths /\ Len(p) \in Nat /\ Len(s) \in Nat /\ Len(q) \in Nat
  BY <1>1 DEF LeftSpine, Below, Paths
<1>3. /\ Len(p) < Len(s) /\ s[Len(p) + 1] = "right"
      /\ \A i \in 1 .. Len(p) : s[i] = p[i]
      /\ Len(p) < Len(q) /\ q[Len(p) + 1] = "right"
      /\ \A i \in 1 .. Len(p) : q[i] = p[i]
  BY <1>1, <1>2, BelowMeans
<1>4. tree[s] \in Int /\ tree[q] \in Int
  BY <1>2
<1>5. CASE IsPrefix(s, q)
  <2>1. CASE q = s
    BY <1>4, <2>1
  <2>2. CASE q # s
    <3>1. /\ Len(s) < Len(q) /\ q[Len(s) + 1] \in Sides
          /\ IsPrefix(Append(s, q[Len(s) + 1]), q)
          /\ SubSeq(q, 1, Len(s) + 1) = Append(s, q[Len(s) + 1])
      BY <1>2, <1>5, <2>2, NextStep
    <3>2. Append(s, q[Len(s) + 1]) \in Nodes
      <4>1. Len(s) + 1 \in Nat /\ Len(s) + 1 <= Len(q)
        BY <1>2, <3>1
      <4> QED BY <3>1, <4>1 DEF Shaped, Nodes
    <3>3. q[Len(s) + 1] # "left"
      BY <3>2 DEF Child
    <3>4. q[Len(s) + 1] = Side(tree[q], tree[s])
      BY <1>2, <3>1 DEF Ordered, Nodes
    <3> QED BY <1>4, <3>3, <3>4 DEF Side
  <2> QED BY <2>1, <2>2
<1>6. CASE ~IsPrefix(s, q)
  <2> DEFINE D == {i \in Nat : i \in 1 .. Len(s) /\ (i > Len(q) \/ q[i] # s[i])}
  <2>1. D \subseteq Nat /\ D # {}
    <3>1. ~(Len(s) <= Len(q) /\ \A i \in 1 .. Len(s) : q[i] = s[i])
      BY <1>2, <1>6, PrefixMeans
    <3>2. CASE Len(s) <= Len(q)
      <4>1. PICK i \in 1 .. Len(s) : q[i] # s[i]
        BY <3>1, <3>2
      <4> QED BY <1>2, <4>1
    <3>3. CASE ~(Len(s) <= Len(q))
      <4>1. Len(s) \in 1 .. Len(s) /\ Len(s) > Len(q)
        BY <1>2, <3>3
      <4> QED BY <1>2, <4>1
    <3> QED BY <3>2, <3>3
  <2> HIDE DEF D
  <2>2. PICK i \in D : \A m \in D : i <= m
    BY <2>1, LeastNat
  <2>3. i \in Nat /\ i \in 1 .. Len(s) /\ (i > Len(q) \/ q[i] # s[i])
    BY <2>2 DEF D
  <2>4. \A j \in 1 .. i - 1 : j <= Len(q) /\ q[j] = s[j]
    <3> SUFFICES ASSUME NEW j \in 1 .. i - 1 PROVE j <= Len(q) /\ q[j] = s[j]
      OBVIOUS
    <3>1. j \notin D /\ j \in Nat /\ j \in 1 .. Len(s)
      BY <1>2, <2>2, <2>3
    <3> QED BY <1>2, <3>1 DEF D
  <2>5. i >= Len(p) + 2 /\ s[i] = "left"
    <3>1. ~(i <= Len(p))
      BY <1>2, <1>3, <2>3
    <3>2. i # Len(p) + 1
      BY <1>2, <1>3, <2>3
    <3>3. i >= Len(p) + 2
      BY <1>2, <2>3, <3>1, <3>2
    <3> QED BY <1>2, <2>3, <3>3
  <2>0. PICK c : c = SubSeq(s, 1, i - 1)
    OBVIOUS
  <2>6. /\ i - 1 \in Nat /\ i - 1 <= Len(s)
        /\ c \in Nodes /\ c \in Paths /\ Len(c) = i - 1
        /\ \A j \in 1 .. i - 1 : c[j] = s[j]
    <3>1. i - 1 \in Nat /\ i - 1 <= Len(s)
      BY <1>2, <2>3
    <3>2. c \in Nodes
      BY <1>2, <2>0, <3>1 DEF Shaped, Nodes
    <3> QED BY <1>2, <2>0, <3>1, <3>2, FirstSteps
  <2>7. IsPrefix(Append(c, "left"), s)
    <3>1. Len(c) < Len(s) /\ s[Len(c) + 1] = "left"
      BY <1>2, <2>3, <2>5, <2>6
    <3> QED BY <1>1, <1>2, <2>6, <3>1, BelowMeans
  <2>8. "left" = Side(tree[s], tree[c])
    BY <1>1, <1>2, <2>6, <2>7 DEF Ordered, Nodes
  <2>9. tree[c] \in Int /\ tree[s] < tree[c]
    BY <2>6, <2>8 DEF Side
  <2>10. IsPrefix(c, q)
    <3>1. Len(c) <= Len(q) /\ \A j \in 1 .. Len(c) : q[j] = c[j]
      <4>1. i - 1 \in 1 .. i - 1
        BY <1>2, <2>3, <2>5
      <4>2. i - 1 <= Len(q)
        BY <2>4, <4>1
      <4> QED BY <2>4, <2>6, <4>2
    <3> QED BY <1>2, <2>6, <3>1, PrefixMeans
  <2>11. CASE q = c
    BY <1>4, <2>9, <2>11
  <2>12. CASE q # c
    <3>1. /\ Len(c) < Len(q) /\ q[Len(c) + 1] \in Sides
          /\ IsPrefix(Append(c, q[Len(c) + 1]), q)
      BY <1>2, <2>6, <2>10, <2>12, NextStep
    <3>2. q[Len(c) + 1] = Side(tree[q], tree[c])
      BY <2>6, <3>1 DEF Ordered, Nodes
    <3>3. q[Len(c) + 1] # "left"
      <4>1. Len(c) + 1 = i /\ ~(i > Len(q))
        BY <1>2, <2>3, <2>6, <3>1
      <4> QED BY <2>3, <2>5, <4>1
    <3> QED BY <1>4, <2>9, <3>2, <3>3 DEF Side
  <2> QED BY <2>11, <2>12
<1> QED BY <1>5, <1>6

(* The tree stays in order when a node takes over its successor's plugin. *)
LEMMA ReplacedSound ==
  ASSUME Shaped(tree), Ordered(tree), tree \in [Nodes -> Int], NEW p \in Nodes,
         Child(p, "right") # {}
  PROVE  LET t == [tree EXCEPT ![p] = tree[Successor(p)]] IN
           Shaped(t) /\ Ordered(t)
<1> PICK s : s = Successor(p)
  OBVIOUS
<1>0. PICK t : t = [tree EXCEPT ![p] = tree[s]]
  OBVIOUS
<1>1. s \in LeftSpine(p) /\ Child(s, "left") = {}
  BY SuccessorIs
<1>2. /\ Nodes \subseteq Paths /\ p \in Paths /\ s \in Nodes
      /\ "left" \in Sides /\ "right" \in Sides
      /\ IsPrefix(Append(p, "right"), s)
  BY <1>1 DEF Shaped, Nodes, Sides, LeftSpine, Below
<1>3. DOMAIN t = Nodes /\ t[p] = tree[s] /\ \A q \in Nodes : q # p => t[q] = tree[q]
  BY <1>0 DEF Nodes
<1>4. Shaped(t)
  BY <1>3 DEF Shaped, Nodes
<1>5. ASSUME NEW a \in Nodes, NEW b \in Nodes, NEW e \in Sides,
             IsPrefix(Append(a, e), b)
      PROVE  e = Side(t[b], t[a])
  <2>1. e = Side(tree[b], tree[a])
    BY <1>5 DEF Ordered, Nodes
  <2>2. a \in Paths /\ b \in Paths /\ Len(a) \in Nat /\ Len(b) \in Nat /\ Len(p) \in Nat
    BY <1>2 DEF Paths
  <2>3. /\ Len(a) < Len(b) /\ b[Len(a) + 1] = e /\ \A i \in 1 .. Len(a) : b[i] = a[i]
    BY <1>5, <2>2, BelowMeans
  <2>4. /\ tree[a] \in Int /\ tree[b] \in Int /\ tree[s] \in Int /\ tree[p] \in Int
    BY <1>2
  <2>5. CASE a = p
    <3>1. b # p /\ t[b] = tree[b] /\ t[a] = tree[s]
      BY <1>3, <2>3, <2>5, <2>2
    <3>2. CASE e = "right"
      <4>1. tree[s] <= tree[b]
        BY <1>1, <1>5, <2>5, <3>2, SuccessorLeast
      <4> QED BY <2>4, <3>1, <3>2, <4>1 DEF Side
    <3>3. CASE e = "left"
      <4>1. "right" = Side(tree[s], tree[p])
        BY <1>2 DEF Ordered, Nodes
      <4>2. ~(tree[s] < tree[p]) /\ tree[b] < tree[p]
        BY <2>1, <2>5, <3>3, <4>1 DEF Side
      <4> QED BY <2>4, <3>1, <3>3, <4>2 DEF Side
    <3> QED BY <3>2, <3>3 DEF Sides
  <2>6. CASE a # p /\ b = p
    <3>1. t[b] = tree[s] /\ t[a] = tree[a]
      BY <1>3, <2>6
    <3>2. /\ s \in Paths /\ Len(s) \in Nat /\ Len(p) < Len(s)
          /\ \A i \in 1 .. Len(p) : s[i] = p[i]
      <4>1. s \in Paths
        BY <1>2
      <4> QED BY <1>2, <4>1, BelowMeans DEF Paths
    <3>3. Len(a) < Len(s) /\ s[Len(a) + 1] = e /\ \A i \in 1 .. Len(a) : s[i] = a[i]
      BY <2>2, <2>3, <2>6, <3>2
    <3>4. IsPrefix(Append(a, e), s)
      BY <2>2, <3>2, <3>3, BelowMeans
    <3>5. e = Side(tree[s], tree[a])
      BY <1>2, <3>4 DEF Ordered, Nodes
    <3> QED BY <3>1, <3>5
  <2>7. CASE a # p /\ b # p
    BY <1>3, <2>1, <2>7
  <2> QED BY <2>5, <2>6, <2>7
<1>6. Ordered(t)
  BY <1>3, <1>5 DEF Ordered
<1> QED BY <1>0, <1>4, <1>6

(* A search ends at a free place if it does not find what it looks for. *)
LEMMA PlaceIs ==
  ASSUME Shaped(tree), NEW x, x \notin Listed
  PROVE  /\ Place(x) \notin Nodes /\ Passes(x, Place(x)) /\ Place(x) \in Paths
         /\ Place(x) = <<>> \/ \E q \in Nodes, d \in Sides : Place(x) = Append(q, d)
<1> DEFINE C == {<<>>} \cup {Append(q, d) : q \in Nodes, d \in {"left", "right"}}
<1>1. Nodes \subseteq Paths /\ IsFiniteSet(Nodes) /\ <<>> \in Paths
  <2>1. <<>> \in Seq(Sides)
    OBVIOUS
  <2> QED BY <2>1 DEF Shaped, Nodes, Paths
<1>2. Place(x) = CHOOSE p \in C : p \notin Nodes /\ Passes(x, p)
  BY DEF Place
<1>3. \A p \in C : p \in Paths /\ (p = <<>> \/ \E q \in Nodes, d \in Sides : p = Append(q, d))
  <2>1. ASSUME NEW q \in Nodes, NEW d \in Sides PROVE Append(q, d) \in Paths
    BY <1>1 DEF Paths
  <2>2. ASSUME NEW p \in C
        PROVE  p \in Paths /\ (p = <<>> \/ \E q \in Nodes, d \in Sides : p = Append(q, d))
    <3>1. CASE p = <<>>
      BY <1>1, <3>1
    <3>2. CASE p # <<>>
      <4>1. PICK q \in Nodes, d \in Sides : p = Append(q, d)
        BY <2>2, <3>2 DEF Sides
      <4> QED BY <2>1, <4>1
    <3> QED BY <3>1, <3>2
  <2> HIDE DEF C
  <2> QED BY <2>2
<1>4. Passes(x, <<>>)
  BY DEF Passes
<1>5. \E p \in C : p \notin Nodes /\ Passes(x, p)
  <2>1. CASE <<>> \notin Nodes
    BY <1>4, <2>1
  <2>2. CASE <<>> \in Nodes
    <3> DEFINE T == {Below(q) : q \in Route(x)}
    <3>1. T \subseteq SUBSET Nodes /\ T # {}
      BY <1>4, <2>2 DEF Below, Route
    <3> HIDE DEF T
    <3>2. PICK A \in T : \A B \in T : B \subseteq A => B = A
      BY <1>1, <3>1, LeastSet
    <3>3. PICK q \in Route(x) : A = Below(q)
      BY <3>2 DEF T
    <3>4. q \in Nodes /\ Passes(x, q) /\ tree[q] # x /\ q \in Paths /\ Len(q) \in Nat
      BY <1>1, <3>3 DEF Route, Listed, Paths
    <3>0. PICK d \in Sides : d = Side(x, tree[q])
      BY DEF Side, Sides
    <3>5. PICK c : c = Append(q, d)
      OBVIOUS
    <3>6. /\ c \in Paths /\ Len(c) = Len(q) + 1 /\ c[Len(q) + 1] = d
          /\ \A i \in 1 .. Len(q) : c[i] = q[i]
      BY <3>4, <3>5 DEF Paths
    <3>7. Passes(x, c)
      <4> SUFFICES ASSUME NEW i \in 1 .. Len(c)
                   PROVE  LET r == SubSeq(c, 1, i - 1) IN
                            r \in Nodes /\ tree[r] # x /\ c[i] = Side(x, tree[r])
        BY DEF Passes
      <4>1. /\ i - 1 \in Nat /\ i - 1 <= Len(q) /\ i - 1 <= Len(c)
        BY <3>4, <3>6
      <4>2. SubSeq(c, 1, i - 1) = SubSeq(q, 1, i - 1)
        <5>1. /\ SubSeq(c, 1, i - 1) \in Paths /\ Len(SubSeq(c, 1, i - 1)) = i - 1
              /\ \A j \in 1 .. i - 1 : SubSeq(c, 1, i - 1)[j] = c[j]
          BY <3>6, <4>1, FirstSteps
        <5>2. /\ SubSeq(q, 1, i - 1) \in Paths /\ Len(SubSeq(q, 1, i - 1)) = i - 1
              /\ \A j \in 1 .. i - 1 : SubSeq(q, 1, i - 1)[j] = q[j]
          BY <3>4, <4>1, FirstSteps
        <5>3. \A j \in 1 .. i - 1 : c[j] = q[j]
          BY <3>4, <3>6, <4>1
        <5> QED BY <5>1, <5>2, <5>3, SeqEqual DEF Paths
      <4>3. CASE i = Len(c)
        <5>1. i - 1 = Len(q) /\ SubSeq(q, 1, i - 1) = q /\ i = Len(q) + 1
          BY <3>4, <3>6, <4>3, SubSeqFull DEF Paths
        <5> QED BY <3>0, <3>4, <3>6, <4>2, <5>1
      <4>4. CASE i # Len(c)
        <5>1. i \in 1 .. Len(q)
          BY <3>4, <3>6, <4>4
        <5>2. LET r == SubSeq(q, 1, i - 1) IN
                r \in Nodes /\ tree[r] # x /\ q[i] = Side(x, tree[r])
          BY <3>4, <5>1 DEF Passes
        <5> QED BY <3>6, <4>2, <5>1, <5>2
      <4> QED BY <4>3, <4>4
    <3>8. c \notin Nodes
      <4> SUFFICES ASSUME c \in Nodes PROVE FALSE
        OBVIOUS
      <4>1. Below(c) \subseteq Below(q) /\ Below(c) # Below(q)
        BY <1>1, <3>4, <3>5, BelowShrinks
      <4>2. Below(c) \in T
        BY <3>7 DEF T, Route
      <4> QED BY <3>2, <3>3, <4>1, <4>2
    <3>9. c \in {Append(u, e) : u \in Nodes, e \in {"left", "right"}}
      BY <3>4, <3>5 DEF Sides
    <3> QED BY <3>7, <3>8, <3>9
  <2> QED BY <2>1, <2>2
<1> HIDE DEF C
<1> QED BY <1>2, <1>3, <1>5

(* The tree stays in order when a plugin is put there. *)
LEMMA PlacedSound ==
  ASSUME Shaped(tree), Ordered(tree), NEW x, x \notin Listed
  PROVE  LET p == Place(x)
             t == [q \in Nodes \cup {p} |-> IF q = p THEN x ELSE tree[q]] IN
           Shaped(t) /\ Ordered(t)
<1> PICK p : p = Place(x)
  OBVIOUS
<1>0. PICK t : t = [q \in Nodes \cup {p} |-> IF q = p THEN x ELSE tree[q]]
  OBVIOUS
<1>1. /\ p \notin Nodes /\ Passes(x, p) /\ p \in Paths /\ Len(p) \in Nat
      /\ p = <<>> \/ \E q \in Nodes, d \in Sides : p = Append(q, d)
  BY PlaceIs DEF Paths
<1>2. Nodes \subseteq Paths /\ IsFiniteSet(Nodes)
  BY DEF Shaped, Nodes
<1>3. DOMAIN t = Nodes \cup {p} /\ t[p] = x /\ \A q \in Nodes : t[q] = tree[q]
  BY <1>0, <1>1
<1>4. Shaped(t)
  <2>1. IsFiniteSet(DOMAIN t) /\ DOMAIN t \subseteq Paths
    BY <1>1, <1>2, <1>3, FS_AddElement
  <2>2. ASSUME NEW i \in Nat, i <= Len(p) PROVE SubSeq(p, 1, i) \in DOMAIN t
    <3>1. CASE i = Len(p)
      BY <1>1, <1>3, <3>1, SubSeqFull DEF Paths
    <3>2. CASE i < Len(p)
      <4>1. i + 1 \in 1 .. Len(p) /\ (i + 1) - 1 = i
        BY <1>1, <3>2
      <4>2. SubSeq(p, 1, (i + 1) - 1) \in Nodes
        BY <1>1, <4>1 DEF Passes
      <4> QED BY <1>3, <4>1, <4>2
    <3> QED BY <1>1, <2>2, <3>1, <3>2
  <2>3. ASSUME NEW q \in Nodes, NEW i \in Nat, i <= Len(q)
        PROVE  SubSeq(q, 1, i) \in DOMAIN t
    BY <1>3, <2>3 DEF Shaped, Nodes
  <2> QED BY <1>3, <2>1, <2>2, <2>3 DEF Shaped
<1>5. ASSUME NEW a \in Nodes \cup {p}, NEW b \in Nodes \cup {p}, NEW e \in Sides,
             IsPrefix(Append(a, e), b)
      PROVE  e = Side(t[b], t[a])
  <2>1. /\ a \in Paths /\ b \in Paths /\ Len(a) \in Nat /\ Len(b) \in Nat
    BY <1>1, <1>2 DEF Paths
  <2>2. /\ Len(a) < Len(b) /\ b[Len(a) + 1] = e /\ \A i \in 1 .. Len(a) : b[i] = a[i]
    BY <1>5, <2>1, BelowMeans
  <2>3. IsPrefix(a, b)
    BY <2>1, <2>2, PrefixMeans
  <2>4. CASE b \in Nodes
    <3>1. a \in Nodes
      BY <2>1, <2>3, <2>4, PrefixIsNode DEF Nodes
    <3> QED BY <1>3, <1>5, <2>4, <3>1 DEF Ordered, Nodes
  <2>5. CASE b = p
    <3>1. Len(a) + 1 \in 1 .. Len(p) /\ (Len(a) + 1) - 1 = Len(a)
      BY <2>1, <2>2, <2>5
    <3>2. SubSeq(p, 1, Len(a)) = a
      BY <1>1, <2>1, <2>3, <2>5, PrefixIsFirst
    <3>3. a \in Nodes /\ p[Len(a) + 1] = Side(x, tree[a])
      BY <1>1, <3>1, <3>2 DEF Passes
    <3> QED BY <1>3, <2>2, <2>5, <3>3
  <2> QED BY <2>4, <2>5
<1>6. Ordered(t)
  BY <1>3, <1>5 DEF Ordered
<1> QED BY <1>0, <1>4, <1>6

(* A search finds what is in the tree. *)
LEMMA SearchFinds ==
  ASSUME Shaped(tree), Ordered(tree), NEW x \in Listed
  PROVE  Find(x) # {}
<1>1. PICK q \in Nodes : tree[q] = x
  BY DEF Listed
<1>2. Nodes \subseteq Paths /\ q \in Paths /\ Len(q) \in Nat
  BY DEF Shaped, Nodes, Paths
<1> DEFINE D == {i \in Nat : i <= Len(q) /\ tree[SubSeq(q, 1, i)] = x}
<1>3. D \subseteq Nat /\ Len(q) \in D
  <2>1. SubSeq(q, 1, Len(q)) = q
    BY <1>2, SubSeqFull DEF Paths
  <2>2. tree[SubSeq(q, 1, Len(q))] = x /\ Len(q) <= Len(q)
    <3>1. Len(q) <= Len(q)
      BY <1>2
    <3> HIDE DEF D
    <3> QED BY <1>1, <2>1, <3>1, Zenon
  <2> QED BY <1>2, <2>2
<1> HIDE DEF D
<1>4. PICK i \in D : \A j \in D : i <= j
  BY <1>3, LeastNat
<1>5. PICK r : r = SubSeq(q, 1, i)
  OBVIOUS
<1>6. /\ i \in Nat /\ i <= Len(q) /\ tree[r] = x
      /\ r \in Paths /\ Len(r) = i /\ \A j \in 1 .. i : r[j] = q[j]
  BY <1>2, <1>4, <1>5, FirstSteps DEF D
<1>7. r \in Nodes
  BY <1>5, <1>6 DEF Shaped, Nodes
<1>8. ASSUME NEW j \in 1 .. Len(r)
      PROVE  LET u == SubSeq(r, 1, j - 1) IN
               u \in Nodes /\ tree[u] # x /\ r[j] = Side(x, tree[u])
  <2> PICK u : u = SubSeq(r, 1, j - 1)
    OBVIOUS
  <2>1. j - 1 \in Nat /\ j - 1 <= Len(r) /\ j - 1 <= Len(q) /\ j - 1 < i
    BY <1>2, <1>6
  <2>2. u \in Nodes
    BY <1>7, <2>1 DEF Shaped, Nodes
  <2>3. u \in Paths /\ Len(u) = j - 1 /\ \A k \in 1 .. j - 1 : u[k] = r[k]
    BY <1>6, <2>1, FirstSteps
  <2>4. u = SubSeq(q, 1, j - 1)
    <3>1. /\ SubSeq(q, 1, j - 1) \in Paths /\ Len(SubSeq(q, 1, j - 1)) = j - 1
          /\ \A k \in 1 .. j - 1 : SubSeq(q, 1, j - 1)[k] = q[k]
      BY <1>2, <2>1, FirstSteps
    <3>2. \A k \in 1 .. j - 1 : r[k] = q[k]
      BY <1>6, <2>1
    <3> QED BY <2>3, <3>1, <3>2, SeqEqual DEF Paths
  <2>5. tree[u] # x
    <3>1. j - 1 \notin D
      BY <1>4, <1>6, <2>1
    <3> QED BY <2>1, <2>4, <3>1 DEF D
  <2>6. r[j] \in Sides
    BY <1>6 DEF Paths
  <2>7. IsPrefix(Append(u, r[j]), r)
    <3>1. Len(u) < Len(r) /\ Len(u) + 1 = j /\ \A k \in 1 .. Len(u) : r[k] = u[k]
      BY <1>6, <2>1, <2>3
    <3> QED BY <1>6, <2>3, <2>6, <3>1, BelowMeans
  <2>8. r[j] = Side(tree[r], tree[u])
    BY <1>7, <2>2, <2>6, <2>7 DEF Ordered, Nodes
  <2> QED BY <1>6, <2>2, <2>5, <2>8
<1>9. Passes(x, r)
  BY <1>8 DEF Passes
<1> QED BY <1>6, <1>7, <1>9 DEF Find, Route

-----------------------------------------------------------------------------
(* Steps. *)

(* rmplug takes the plugin x out at p, and reads nothing that was freed. *)
Removes(x, p) ==
  /\ x \in loaded /\ x \in Plugins /\ p \in Nodes /\ tree[p] = x /\ running
  /\ tree' = Spliced(p)
  /\ freed' = freed \cup Destroyed(p)
  /\ protocols' = [i \in DOMAIN protocols |->
       IF Destroyed(p) = {} THEN protocols[i] ELSE Forgets(x, protocols[i])]
  /\ splits' = splits \cup IF Split(p) THEN {x} ELSE {}
  /\ removed' = removed \cup {x}
  /\ loaded' = loaded /\ running' = running /\ misnamed' = misnamed
  /\ undefined' = undefined /\ reloads' = reloads

(* reload gives the protocol found the name x. *)
Renames(x, found) ==
  /\ x \in loaded /\ x \in Plugins /\ found \in DOMAIN protocols
  /\ reloads < MaxReloads
  /\ protocols' = [i \in DOMAIN protocols |->
       IF i = found THEN Renamed(protocols[i], x) ELSE Forgets(x, protocols[i])]
  /\ misnamed' = (misnamed \/ protocols[found].name # x)
  /\ reloads' = reloads + 1
  /\ UNCHANGED <<tree, freed, loaded, running, removed, splits, undefined>>

(* reboot forgets everything. *)
Forgotten ==
  /\ ~undefined
  /\ tree' = << >> /\ freed' = {} /\ protocols' = <<>>
  /\ loaded' = {} /\ running' = FALSE
  /\ removed' = {} /\ splits' = {} /\ misnamed' = FALSE
  /\ reloads' = 0 /\ undefined' = undefined

(* A freed plugin is read only after a node with two children was removed. *)
LEMMA NoneDangles ==
  ASSUME RegistryIInv, NEW P, P \subseteq Nodes, Dangling(P)
  PROVE  splits # {}
<1>1. PICK p \in P : tree[p] \in freed
  BY DEF Dangling
<1>2. tree[p] \in Listed
  BY <1>1 DEF Listed
<1>3. splits = {} => Listed = loaded \ removed /\ freed = removed
  BY DEF RegistryIInv, ListedOnce
<1> QED BY <1>1, <1>2, <1>3

(* What a step is. *)
LEMMA StepCases ==
  ASSUME RegistryIInv, [Next]_vars
  PROVE  \/ \E x \in Plugins : LoadPlugin(x)
         \/ Start
         \/ \E x \in Plugins, p \in Nodes : Removes(x, p)
         \/ \E x \in Plugins, found \in DOMAIN protocols : Renames(x, found)
         \/ Undefined /\ (splits # {} \/ misnamed)
         \/ Forgotten
         \/ UNCHANGED vars
<1>1. ASSUME NEW x \in Plugins, RemovePlugin(x)
      PROVE  \/ \E p \in Nodes : Removes(x, p)
             \/ Undefined /\ splits # {}
  <2>1. PICK p \in Find(x) :
          IF Dangling(Route(x) \cup IF Split(p) THEN LeftSpine(p) ELSE {})
          THEN Undefined
          ELSE /\ tree' = Spliced(p)
               /\ freed' = freed \cup Destroyed(p)
               /\ protocols' = [i \in DOMAIN protocols |->
                    IF Destroyed(p) = {} THEN protocols[i]
                    ELSE Forgets(x, protocols[i])]
               /\ splits' = splits \cup IF Split(p) THEN {x} ELSE {}
               /\ removed' = removed \cup {x}
               /\ UNCHANGED <<loaded, running, misnamed, undefined, reloads>>
    BY <1>1 DEF RemovePlugin
  <2>2. p \in Nodes /\ tree[p] = x /\ x \in loaded /\ running
    BY <1>1, <2>1 DEF Find, Route, RemovePlugin, Call
  <2>3. (Route(x) \cup IF Split(p) THEN LeftSpine(p) ELSE {}) \subseteq Nodes
    BY DEF Route, LeftSpine, Below
  <2>4. CASE Dangling(Route(x) \cup IF Split(p) THEN LeftSpine(p) ELSE {})
    BY <2>1, <2>3, <2>4, NoneDangles
  <2>5. CASE ~Dangling(Route(x) \cup IF Split(p) THEN LeftSpine(p) ELSE {})
    BY <2>1, <2>2, <2>5 DEF Removes
  <2> QED BY <2>4, <2>5
<1>2. ASSUME NEW x \in Plugins, Reload(x)
      PROVE  \/ \E found \in DOMAIN protocols : Renames(x, found)
             \/ Undefined /\ (splits # {} \/ misnamed)
  <2>1. Call(x) /\ Find(x) # {} /\ reloads < MaxReloads /\ x \in loaded
    BY <1>2 DEF Reload, Call
  <2>2. CASE Dangling(Route(x))
    <3>1. Undefined
      BY <1>2, <2>2 DEF Reload
    <3>2. Route(x) \subseteq Nodes
      BY DEF Route
    <3> QED BY <2>2, <3>1, <3>2, NoneDangles
  <2>3. CASE ~Dangling(Route(x))
    <3>1. PICK found \in GetProtocol(x) :
            IF found = 0 THEN Undefined
            ELSE /\ protocols' = [i \in DOMAIN protocols |->
                      IF i = found THEN Renamed(protocols[i], x)
                      ELSE Forgets(x, protocols[i])]
                 /\ misnamed' = (misnamed \/ protocols[found].name # x)
                 /\ reloads' = reloads + 1
                 /\ UNCHANGED <<tree, freed, loaded, running, removed, splits,
                                undefined>>
      BY <1>2, <2>3 DEF Reload
    <3>2. CASE found \in DOMAIN protocols
      <4>1. found # 0
        <5>1. PICK S : protocols \in Seq(S)
          BY DEF RegistryIInv, TypeOK
        <5> QED BY <3>2, <5>1
      <4>2. Renames(x, found)
        BY <2>1, <3>1, <3>2, <4>1 DEF Renames
      <4> QED BY <3>2, <4>2
    <3>3. CASE found \notin DOMAIN protocols
      <4>1. found = 0 /\ \A i \in DOMAIN protocols : ~Matches(i, x)
        BY <3>1, <3>3 DEF GetProtocol
      <4>2. Undefined
        BY <3>1, <4>1
      <4>3. splits # {} \/ misnamed
        <5>1. SUFFICES ASSUME splits = {}, ~misnamed PROVE FALSE
          OBVIOUS
        <5>2. x \in Listed
          BY <2>1 DEF Find, Route, Listed
        <5>3. x \in loaded \ removed
          BY <5>1, <5>2 DEF RegistryIInv, ListedOnce
        <5>4. \E i \in DOMAIN protocols : protocols[i].name = x
          BY <5>1, <5>3 DEF RegistryIInv, ProtocolInv
        <5> QED BY <4>1, <5>4 DEF Matches
      <4> QED BY <4>2, <4>3
    <3> QED BY <3>2, <3>3
  <2> QED BY <2>2, <2>3
<1>3. ASSUME ForEach PROVE Undefined /\ splits # {}
  BY <1>3, NoneDangles DEF ForEach
<1>4. ASSUME Reboot PROVE Forgotten \/ (Undefined /\ splits # {})
  <2>1. CASE Dangling(Nodes) \/ ~Distinct
    <3>1. Undefined
      BY <1>4, <2>1 DEF Reboot
    <3>2. ~Distinct => splits # {}
      BY DEF RegistryIInv, ListedOnce
    <3> QED BY <2>1, <3>1, <3>2, NoneDangles
  <2>2. CASE ~(Dangling(Nodes) \/ ~Distinct)
    <3>1. /\ ~undefined
          /\ tree' = << >> /\ freed' = {} /\ protocols' = <<>>
          /\ loaded' = {} /\ running' = FALSE
          /\ removed' = {} /\ splits' = {} /\ misnamed' = FALSE
          /\ reloads' = 0 /\ undefined' = undefined
      BY <1>4, <2>2, Zenon DEF Reboot
    <3> QED BY <3>1 DEF Forgotten
  <2> QED BY <2>1, <2>2
<1> QED BY <1>1, <1>2, <1>3, <1>4 DEF Next

(* What RemovePlugin leaves of the tree: the other plugins, in order, and  *)
(* each once if a node with fewer than two children is destroyed.          *)
WellSpliced(p) ==
  /\ Shaped(Spliced(p)) /\ Ordered(Spliced(p))
  /\ \A q \in DOMAIN Spliced(p) : \E r \in Nodes : Spliced(p)[q] = tree[r]
  /\ \A r \in Nodes : tree[r] # tree[p] =>
       \E q \in DOMAIN Spliced(p) : Spliced(p)[q] = tree[r]
  /\ ~Split(p) /\ Distinct =>
       /\ \A q \in DOMAIN Spliced(p) : Spliced(p)[q] # tree[p]
       /\ \A q, r \in DOMAIN Spliced(p) :
            Spliced(p)[q] = Spliced(p)[r] => q = r

(* It is so. *)
LEMMA SplicedSound ==
  ASSUME TreeInv, tree \in [Nodes -> Int], NEW p \in Nodes
  PROVE  WellSpliced(p)
<1>0. /\ Shaped(tree) /\ Ordered(tree) /\ "left" \in Sides /\ "right" \in Sides
      /\ "left" # "right"
  BY DEF TreeInv, Sides
<1>1. ASSUME NEW o \in Nodes, NEW d \in Sides, NEW e \in Sides, d # e,
             Child(o, e) = {}, tree[o] = tree[p], Spliced(p) = Lifted(o, d),
             ~Split(p) => o = p
      PROVE  WellSpliced(p)
  <2>1. Shaped(Spliced(p)) /\ Ordered(Spliced(p))
    BY <1>0, <1>1, LiftedSound
  <2> PICK D, f : D = DOMAIN Spliced(p) /\ f = [q \in D |-> Origin(o, d, q)]
    OBVIOUS
  <2>2. /\ \A q \in D : f[q] \in Nodes /\ f[q] # o
        /\ \A q, r \in D : f[q] = f[r] => q = r
        /\ \A r \in Nodes : r # o => \E q \in D : f[q] = r
    BY <1>0, <1>1, LiftedOrigins
  <2>3. \A q \in D : Spliced(p)[q] = tree[f[q]]
    <3>1. \A q \in DOMAIN Lifted(o, d) : Lifted(o, d)[q] = tree[Origin(o, d, q)]
      BY <1>0, LiftedMeans
    <3> QED BY <1>1, <3>1
  <2>4. \A q \in D : \E r \in Nodes : Spliced(p)[q] = tree[r]
    BY <2>2, <2>3
  <2>5. \A r \in Nodes : tree[r] # tree[p] => \E q \in D : Spliced(p)[q] = tree[r]
    BY <1>1, <2>2, <2>3
  <2>6. ASSUME ~Split(p), Distinct
        PROVE  /\ \A q \in D : Spliced(p)[q] # tree[p]
               /\ \A q, r \in D : Spliced(p)[q] = Spliced(p)[r] => q = r
    BY <1>1, <2>2, <2>3, <2>6 DEF Distinct
  <2> QED BY <2>1, <2>4, <2>5, <2>6 DEF WellSpliced
<1>2. CASE Child(p, "left") = {}
  <2>1. Spliced(p) = Lifted(p, "right")
    BY <1>2 DEF Spliced
  <2> QED BY <1>0, <1>1, <1>2, <2>1
<1>3. CASE Child(p, "left") # {} /\ Child(p, "right") = {}
  <2>1. Spliced(p) = Lifted(p, "left")
    BY <1>3 DEF Spliced
  <2> QED BY <1>0, <1>1, <1>3, <2>1
<1>4. CASE Child(p, "left") # {} /\ Child(p, "right") # {}
  <2> PICK s : s = Successor(p)
    OBVIOUS
  <2>1. s \in LeftSpine(p) /\ Child(s, "left") = {}
    BY <1>0, <1>4, SuccessorIs
  <2>2. s \in Nodes /\ Split(p)
    BY <1>4, <2>1 DEF LeftSpine, Below, Split
  <2>3. CASE tree[s] = tree[p]
    <3>1. Spliced(p) = Lifted(s, "right")
      BY <1>4, <2>3 DEF Spliced
    <3> QED BY <1>0, <1>1, <2>1, <2>2, <2>3, <3>1
  <2>4. CASE tree[s] # tree[p]
    <3>1. Spliced(p) = [tree EXCEPT ![p] = tree[s]]
      BY <1>4, <2>4 DEF Spliced
    <3>2. Shaped(Spliced(p)) /\ Ordered(Spliced(p))
      BY <1>0, <1>4, <3>1, ReplacedSound
    <3>3. /\ DOMAIN Spliced(p) = Nodes /\ Spliced(p)[p] = tree[s]
          /\ \A q \in Nodes : q # p => Spliced(p)[q] = tree[q]
      BY <3>1 DEF Nodes
    <3>4. \A q \in Nodes : \E r \in Nodes : Spliced(p)[q] = tree[r]
      BY <2>2, <3>3
    <3>5. \A r \in Nodes : tree[r] # tree[p] => \E q \in Nodes : Spliced(p)[q] = tree[r]
      BY <3>3
    <3> QED BY <2>2, <3>2, <3>3, <3>4, <3>5 DEF WellSpliced
  <2> QED BY <2>3, <2>4
<1> QED BY <1>2, <1>3, <1>4

-----------------------------------------------------------------------------
(* The invariant, part by part. *)

(* The types of the variables: of the tree, the protocols, the history. *)
TreeType == tree \in [Nodes -> Plugins] /\ Listed \subseteq loaded
ProtocolType ==
  protocols \in Seq([name : Plugins \cup {FreedName}, user : Plugins])
HistoryType ==
  /\ loaded \subseteq Plugins
  /\ freed \subseteq removed /\ splits \subseteq removed /\ removed \subseteq loaded
  /\ running \in BOOLEAN /\ misnamed \in BOOLEAN /\ undefined \in BOOLEAN
  /\ reloads \in 0 .. MaxReloads

(* With a tree of the right shape, they are the type invariant. *)
LEMMA TypeParts ==
  ASSUME TreeInv
  PROVE  TypeOK <=> TreeType /\ ProtocolType /\ HistoryType
<1>1. ASSUME NEW p \in Nodes PROVE p = <<>> \/ SubSeq(p, 1, Len(p) - 1) \in Nodes
  <2>1. p \in Seq(Sides)
    BY DEF TreeInv, Shaped, Nodes, Paths
  <2>2. CASE p # <<>>
    <3>1. Len(p) - 1 \in Nat /\ Len(p) - 1 <= Len(p)
      BY <2>1, <2>2, EmptySeq
    <3> QED BY <3>1 DEF TreeInv, Shaped, Nodes
  <2> QED BY <2>2
<1> QED BY <1>1 DEF TypeOK, TreeType, ProtocolType, HistoryType

(* The tree. *)
LEMMA TreeStep ==
  ASSUME RegistryIInv, [Next]_vars
  PROVE  TreeInv' /\ TreeType' /\ ListInv'
<1>1. /\ TreeInv /\ TreeType /\ ListInv /\ HistoryType
      /\ Shaped(tree) /\ Ordered(tree)
  BY TypeParts DEF RegistryIInv, TreeInv
<1>2. /\ tree \in [Nodes -> Plugins] /\ Listed \subseteq loaded
      /\ tree \in [Nodes -> Int] /\ loaded \subseteq Plugins
      /\ removed \subseteq loaded /\ loaded \ removed \subseteq Listed
  BY <1>1, PluginsAssumption DEF TreeType, ListInv, HistoryType
<1> DEFINE Goal == TreeInv' /\ TreeType' /\ ListInv'
<1>3. ASSUME tree' = tree, loaded' = loaded, removed' = removed PROVE Goal
  BY <1>1, <1>3 DEF TreeInv, TreeType, ListInv, Listed, Nodes
<1>4. ASSUME NEW x \in Plugins, LoadPlugin(x) PROVE Goal
  <2>0. PICK p : p = Place(x)
    OBVIOUS
  <2>1. /\ x \notin loaded /\ loaded' = loaded \cup {x} /\ removed' = removed
        /\ tree' = [q \in Nodes \cup {p} |-> IF q = p THEN x ELSE tree[q]]
    BY <1>4, <2>0 DEF LoadPlugin
  <2>2. x \notin Listed
    BY <1>2, <2>1
  <2>3. Shaped(tree') /\ Ordered(tree') /\ p \notin Nodes
    BY <1>1, <2>0, <2>1, <2>2, PlacedSound, PlaceIs
  <2>4. /\ DOMAIN tree' = Nodes \cup {p} /\ tree'[p] = x
        /\ \A q \in Nodes : tree'[q] = tree[q]
    BY <2>1, <2>3
  <2>5. tree' \in [DOMAIN tree' -> Plugins]
    BY <1>2, <2>1
  <2>6. {tree'[q] : q \in DOMAIN tree'} = Listed \cup {x}
    BY <2>4 DEF Listed
  <2> QED BY <1>2, <2>1, <2>3, <2>5, <2>6
       DEF TreeInv, TreeType, ListInv, Listed, Nodes
<1>5. ASSUME NEW x \in Plugins, NEW p \in Nodes, Removes(x, p) PROVE Goal
  <2>1. /\ tree[p] = x /\ tree' = Spliced(p)
        /\ loaded' = loaded /\ removed' = removed \cup {x}
    BY <1>5 DEF Removes
  <2>2. WellSpliced(p)
    BY <1>1, <1>2, SplicedSound
  <2>3. /\ Shaped(tree') /\ Ordered(tree')
        /\ \A q \in DOMAIN tree' : \E r \in Nodes : tree'[q] = tree[r]
        /\ \A r \in Nodes : tree[r] # x => \E q \in DOMAIN tree' : tree'[q] = tree[r]
    BY <2>1, <2>2 DEF WellSpliced
  <2>4. tree' \in [DOMAIN tree' -> Plugins]
    <3>1. \A q \in DOMAIN tree' : tree'[q] \in Plugins
      BY <1>2, <2>3
    <3>2. tree' = [q \in DOMAIN tree' |-> tree'[q]]
      <4>1. Spliced(p) = [q \in DOMAIN Spliced(p) |-> Spliced(p)[q]]
        BY DEF Spliced, Lifted
      <4> QED BY <2>1, <4>1
    <3> QED BY <3>1, <3>2
  <2>5. {tree'[q] : q \in DOMAIN tree'} \subseteq Listed
    BY <2>3 DEF Listed
  <2>6. Listed \ {x} \subseteq {tree'[q] : q \in DOMAIN tree'}
    BY <2>3 DEF Listed
  <2> QED BY <1>2, <2>1, <2>3, <2>4, <2>5, <2>6
       DEF TreeInv, TreeType, ListInv, Listed, Nodes
<1>6. ASSUME Forgotten PROVE Goal
  <2>1. tree' = << >> /\ loaded' = {} /\ removed' = {}
    BY <1>6 DEF Forgotten
  <2>2. DOMAIN tree' = {} /\ tree' \in [{} -> Plugins]
    BY <2>1
  <2>3. Shaped(tree') /\ Ordered(tree')
    BY <2>2, FS_EmptySet DEF Shaped, Ordered
  <2> QED BY <2>1, <2>2, <2>3 DEF TreeInv, TreeType, ListInv, Listed, Nodes
<1> HIDE DEF Goal
<1>7. ASSUME NEW x \in Plugins, NEW found \in DOMAIN protocols, Renames(x, found)
      PROVE  Goal
  BY <1>3, <1>7 DEF Renames
<1>8. ASSUME Start \/ Undefined \/ UNCHANGED vars PROVE Goal
  BY <1>3, <1>8 DEF Start, Undefined, vars
<1>9. Goal
  BY <1>4, <1>5, <1>6, <1>7, <1>8, StepCases
<1> QED BY <1>9 DEF Goal

(* The history. *)
LEMMA HistoryStep ==
  ASSUME RegistryIInv, [Next]_vars
  PROVE  HistoryType'
<1>1. HistoryType
  BY TypeParts DEF RegistryIInv
<1>2. ASSUME NEW x \in Plugins, LoadPlugin(x) PROVE HistoryType'
  BY <1>1, <1>2 DEF HistoryType, LoadPlugin
<1>3. ASSUME NEW x \in Plugins, NEW p \in Nodes, Removes(x, p) PROVE HistoryType'
  <2>1. Destroyed(p) \subseteq {x}
    BY <1>3 DEF Removes, Destroyed
  <2> QED BY <1>1, <1>3, <2>1 DEF HistoryType, Removes
<1>4. ASSUME NEW x \in Plugins, NEW found \in DOMAIN protocols, Renames(x, found)
      PROVE  HistoryType'
  <2>1. misnamed' \in BOOLEAN
    BY <1>4 DEF Renames
  <2>2. reloads' \in 0 .. MaxReloads
    BY <1>1, <1>4, MaxReloadsAssumption DEF HistoryType, Renames
  <2>3. UNCHANGED <<freed, loaded, running, removed, splits, undefined>>
    BY <1>4 DEF Renames
  <2> QED BY <1>1, <2>1, <2>2, <2>3 DEF HistoryType
<1>5. ASSUME Undefined PROVE HistoryType'
  BY <1>1, <1>5 DEF HistoryType, Undefined
<1>6. ASSUME Forgotten PROVE HistoryType'
  <2>1. /\ freed' = {} /\ loaded' = {} /\ removed' = {} /\ splits' = {}
        /\ running' = FALSE /\ misnamed' = FALSE /\ undefined' = undefined
        /\ reloads' = 0
    BY <1>6 DEF Forgotten
  <2>2. reloads' \in 0 .. MaxReloads
    BY <2>1, MaxReloadsAssumption
  <2>3. undefined' \in BOOLEAN
    BY <1>1, <2>1 DEF HistoryType
  <2> QED BY <2>1, <2>2, <2>3 DEF HistoryType
<1>7. ASSUME Start \/ UNCHANGED vars PROVE HistoryType'
  BY <1>1, <1>7 DEF HistoryType, Start, vars
<1> QED BY <1>2, <1>3, <1>4, <1>5, <1>6, <1>7, StepCases

(* Each plugin is listed once until a node with two children is removed. *)
LEMMA ListedStep ==
  ASSUME RegistryIInv, [Next]_vars
  PROVE  ListedOnce'
<1>1. /\ TreeInv /\ TreeType /\ HistoryType /\ ListedOnce
      /\ Shaped(tree) /\ Ordered(tree) /\ tree \in [Nodes -> Int]
      /\ Listed \subseteq loaded /\ freed \subseteq removed /\ removed \subseteq loaded
  BY TypeParts, PluginsAssumption DEF RegistryIInv, TreeInv, TreeType, HistoryType
<1> DEFINE Goal == ListedOnce'
<1>2. ASSUME tree' = tree, loaded' = loaded, removed' = removed, freed' = freed,
             splits' = splits
      PROVE  Goal
  BY <1>1, <1>2 DEF ListedOnce, Listed, Distinct, Nodes
<1>3. ASSUME NEW x \in Plugins, LoadPlugin(x) PROVE Goal
  <2>0. PICK p : p = Place(x)
    OBVIOUS
  <2>1. /\ x \notin loaded /\ loaded' = loaded \cup {x}
        /\ removed' = removed /\ freed' = freed /\ splits' = splits
        /\ tree' = [q \in Nodes \cup {p} |-> IF q = p THEN x ELSE tree[q]]
    BY <1>3, <2>0 DEF LoadPlugin
  <2>2. p \notin Nodes /\ x \notin Listed
    BY <1>1, <2>0, <2>1, PlaceIs
  <2>3. /\ DOMAIN tree' = Nodes \cup {p} /\ tree'[p] = x
        /\ \A q \in Nodes : tree'[q] = tree[q]
    BY <2>1, <2>2
  <2>4. {tree'[q] : q \in DOMAIN tree'} = Listed \cup {x}
    BY <2>3 DEF Listed
  <2>5. \A q \in Nodes : tree[q] # x
    BY <2>2 DEF Listed
  <2>6. Distinct => \A q, r \in DOMAIN tree' : tree'[q] = tree'[r] => q = r
    BY <2>3, <2>5 DEF Distinct
  <2>7. Listed' = Listed \cup {x} /\ (Distinct => Distinct')
    BY <2>4, <2>6 DEF Listed, Distinct, Nodes
  <2>8. (loaded \cup {x}) \ removed = (loaded \ removed) \cup {x}
    BY <1>1, <2>1
  <2> QED BY <1>1, <2>1, <2>7, <2>8 DEF ListedOnce
<1>4. ASSUME NEW x \in Plugins, NEW p \in Nodes, Removes(x, p) PROVE Goal
  <2>1. /\ tree[p] = x /\ tree' = Spliced(p)
        /\ loaded' = loaded /\ removed' = removed \cup {x}
        /\ freed' = freed \cup Destroyed(p)
        /\ splits' = splits \cup IF Split(p) THEN {x} ELSE {}
    BY <1>4 DEF Removes
  <2>2. CASE Split(p)
    BY <2>1, <2>2 DEF ListedOnce
  <2>3. CASE ~Split(p)
    <3>1. splits' = splits /\ Destroyed(p) = {x}
      BY <2>1, <2>3 DEF Destroyed
    <3>2. WellSpliced(p)
      BY <1>1, SplicedSound
    <3>3. SUFFICES ASSUME splits = {}
                   PROVE  /\ Listed' = loaded' \ removed' /\ freed' = removed'
                          /\ Distinct'
      BY <3>1 DEF ListedOnce
    <3>4. Listed = loaded \ removed /\ freed = removed /\ Distinct
      BY <1>1, <3>3 DEF ListedOnce
    <3>5. /\ \A q \in DOMAIN tree' : \E r \in Nodes : tree'[q] = tree[r]
          /\ \A r \in Nodes : tree[r] # x => \E q \in DOMAIN tree' : tree'[q] = tree[r]
          /\ \A q \in DOMAIN tree' : tree'[q] # x
          /\ \A q, r \in DOMAIN tree' : tree'[q] = tree'[r] => q = r
      BY <2>1, <2>3, <3>2, <3>4 DEF WellSpliced
    <3>6. {tree'[q] : q \in DOMAIN tree'} = Listed \ {x}
      <4>1. \A y \in {tree'[q] : q \in DOMAIN tree'} : y \in Listed /\ y # x
        BY <3>5 DEF Listed
      <4>2. \A y \in Listed : y # x => y \in {tree'[q] : q \in DOMAIN tree'}
        BY <3>5 DEF Listed
      <4> QED BY <4>1, <4>2
    <3>7. Listed' = Listed \ {x} /\ Distinct'
      BY <3>5, <3>6 DEF Listed, Distinct, Nodes
    <3> QED BY <2>1, <3>1, <3>4, <3>7
  <2> QED BY <2>2, <2>3
<1>5. ASSUME Forgotten PROVE Goal
  <2>1. /\ tree' = << >> /\ loaded' = {} /\ removed' = {} /\ freed' = {}
        /\ DOMAIN tree' = {}
    BY <1>5 DEF Forgotten
  <2> QED BY <2>1 DEF ListedOnce, Listed, Distinct, Nodes
<1> HIDE DEF Goal
<1>6. ASSUME NEW x \in Plugins, NEW found \in DOMAIN protocols, Renames(x, found)
      PROVE  Goal
  BY <1>2, <1>6 DEF Renames
<1>7. ASSUME Start \/ Undefined \/ UNCHANGED vars PROVE Goal
  BY <1>2, <1>7 DEF Start, Undefined, vars
<1>8. Goal
  BY <1>3, <1>4, <1>5, <1>6, <1>7, StepCases
<1> QED BY <1>8 DEF Goal

(* What is undefined stays so, for the reason it was. *)
LEMMA UndefinedStep ==
  ASSUME RegistryIInv, [Next]_vars
  PROVE  DefinedUnlessMishap'
<1>1. DefinedUnlessMishap
  BY DEF RegistryIInv
<1>2. ASSUME undefined' = undefined, splits # {} => splits' # {}, misnamed => misnamed'
      PROVE  DefinedUnlessMishap'
  BY <1>1, <1>2 DEF DefinedUnlessMishap
<1>3. ASSUME NEW x \in Plugins, LoadPlugin(x) PROVE DefinedUnlessMishap'
  BY <1>2, <1>3 DEF LoadPlugin
<1>4. ASSUME NEW x \in Plugins, NEW p \in Nodes, Removes(x, p)
      PROVE  DefinedUnlessMishap'
  BY <1>2, <1>4 DEF Removes
<1>5. ASSUME NEW x \in Plugins, NEW found \in DOMAIN protocols, Renames(x, found)
      PROVE  DefinedUnlessMishap'
  BY <1>2, <1>5 DEF Renames
<1>6. ASSUME Undefined, splits # {} \/ misnamed PROVE DefinedUnlessMishap'
  BY <1>6 DEF Undefined, DefinedUnlessMishap
<1>7. ASSUME Start \/ UNCHANGED vars PROVE DefinedUnlessMishap'
  BY <1>2, <1>7 DEF Start, vars
<1>8. ASSUME Forgotten PROVE DefinedUnlessMishap'
  BY <1>8 DEF Forgotten, DefinedUnlessMishap
<1> QED BY <1>3, <1>4, <1>5, <1>6, <1>7, <1>8, StepCases

(* The protocols: rmplug forgets the names of the plugin removed only, and *)
(* a reload gives a name back to the protocol that had it.                 *)
LEMMA ProtocolStep ==
  ASSUME RegistryIInv, [Next]_vars
  PROVE  ProtocolType' /\ ProtocolInv'
<1>1. ProtocolType /\ ProtocolInv
  BY TypeParts DEF RegistryIInv
<1> PICK N, R : N = Len(protocols) /\ R = [name : Plugins \cup {FreedName}, user : Plugins]
  OBVIOUS
<1>2. /\ protocols \in Seq(R) /\ N \in Nat /\ DOMAIN protocols = 1 .. N
      /\ \A i \in 1 .. N : protocols[i] \in R
  <2>1. protocols \in Seq(R)
    BY <1>1 DEF ProtocolType
  <2> HIDE <1>1
  <2>2. Len(protocols) \in Nat /\ DOMAIN protocols = 1 .. Len(protocols)
    BY <2>1, LenProperties
  <2>3. \A i \in 1 .. Len(protocols) : protocols[i] \in R
    BY <2>1, ElementOfSeq
  <2> QED BY <2>1, <2>2, <2>3
<1> DEFINE Goal == ProtocolType' /\ ProtocolInv'
<1>3. ASSUME protocols' = protocols, misnamed' = misnamed,
             loaded' \ removed' \subseteq loaded \ removed
      PROVE  Goal
  BY <1>1, <1>3 DEF ProtocolType, ProtocolInv
<1>4. ASSUME NEW x \in Plugins, LoadPlugin(x) PROVE Goal
  <2>1. /\ protocols' = Append(protocols, [name |-> x, user |-> x])
        /\ loaded' = loaded \cup {x} /\ removed' = removed /\ misnamed' = misnamed
    BY <1>4 DEF LoadPlugin, AddProtocol
  <2>2. [name |-> x, user |-> x] \in R
    OBVIOUS
  <2>3. /\ protocols' \in Seq(R) /\ DOMAIN protocols' = 1 .. N + 1
        /\ protocols'[N + 1] = [name |-> x, user |-> x]
        /\ \A i \in 1 .. N : protocols'[i] = protocols[i]
    BY <1>2, <2>1, <2>2
  <2>4. ASSUME ~misnamed
        PROVE  /\ \A i \in DOMAIN protocols' :
                    protocols'[i].name \in {protocols'[i].user, FreedName}
               /\ \A y \in loaded' \ removed' :
                    \E i \in DOMAIN protocols' : protocols'[i].name = y
    <3>1. /\ \A i \in 1 .. N : protocols[i].name \in {protocols[i].user, FreedName}
          /\ \A y \in loaded \ removed : \E i \in 1 .. N : protocols[i].name = y
      BY <1>1, <1>2, <2>4 DEF ProtocolInv
    <3>2. N + 1 \in 1 .. N + 1 /\ \A i \in 1 .. N : i \in 1 .. N + 1
      BY <1>2
    <3>3. \A i \in 1 .. N + 1 : i \in 1 .. N \/ i = N + 1
      BY <1>2
    <3>4. protocols'[N + 1].name = x /\ protocols'[N + 1].user = x
      BY <2>3
    <3>5. \A i \in DOMAIN protocols' :
            protocols'[i].name \in {protocols'[i].user, FreedName}
      BY <2>3, <3>1, <3>3, <3>4
    <3>6. \A y \in loaded \ removed :
            \E i \in DOMAIN protocols' : protocols'[i].name = y
      BY <2>3, <3>1, <3>2
    <3>7. \E i \in DOMAIN protocols' : protocols'[i].name = x
      BY <2>3, <3>2, <3>4
    <3> QED BY <2>1, <3>5, <3>6, <3>7
  <2> QED BY <2>1, <2>3, <2>4 DEF ProtocolType, ProtocolInv
<1>5. ASSUME NEW x \in Plugins, NEW p \in Nodes, Removes(x, p) PROVE Goal
  <2>1. /\ loaded' = loaded /\ removed' = removed \cup {x} /\ misnamed' = misnamed
        /\ protocols' = [i \in DOMAIN protocols |->
             IF Destroyed(p) = {} THEN protocols[i] ELSE Forgets(x, protocols[i])]
    BY <1>5 DEF Removes
  <2>2. ASSUME NEW i \in 1 .. N
        PROVE  /\ Forgets(x, protocols[i]) \in R
               /\ Forgets(x, protocols[i]).user = protocols[i].user
               /\ Forgets(x, protocols[i]).name \in {protocols[i].name, FreedName}
               /\ protocols[i].name # x => Forgets(x, protocols[i]) = protocols[i]
    BY <1>2, <2>2 DEF Forgets
  <2>3. /\ DOMAIN protocols' = 1 .. N
        /\ \A i \in 1 .. N :
             /\ protocols'[i] \in R
             /\ protocols'[i].user = protocols[i].user
             /\ protocols'[i].name \in {protocols[i].name, FreedName}
             /\ protocols[i].name # x => protocols'[i] = protocols[i]
    BY <1>2, <2>1, <2>2
  <2>4. protocols' \in Seq(R)
    <3>1. protocols' = [i \in 1 .. N |-> protocols'[i]]
      BY <1>2, <2>1
    <3> QED BY <1>2, <2>3, <3>1
  <2>5. ASSUME ~misnamed
        PROVE  /\ \A i \in DOMAIN protocols' :
                    protocols'[i].name \in {protocols'[i].user, FreedName}
               /\ \A y \in loaded' \ removed' :
                    \E i \in DOMAIN protocols' : protocols'[i].name = y
    <3>1. /\ \A i \in 1 .. N : protocols[i].name \in {protocols[i].user, FreedName}
          /\ \A y \in loaded \ removed : \E i \in 1 .. N : protocols[i].name = y
      BY <1>1, <1>2, <2>5 DEF ProtocolInv
    <3>2. \A i \in 1 .. N : protocols'[i].name \in {protocols'[i].user, FreedName}
      BY <2>3, <3>1
    <3>3. \A y \in loaded' \ removed' : y \in loaded \ removed /\ y # x
      BY <2>1
    <3>4. \A y \in loaded' \ removed' : \E i \in 1 .. N : protocols'[i].name = y
      BY <2>3, <3>1, <3>3
    <3> QED BY <2>3, <3>2, <3>4
  <2> QED BY <2>1, <2>4, <2>5 DEF ProtocolType, ProtocolInv
<1>6. ASSUME NEW x \in Plugins, NEW found \in DOMAIN protocols, Renames(x, found)
      PROVE  Goal
  <2>1. /\ loaded' = loaded /\ removed' = removed
        /\ misnamed' = (misnamed \/ protocols[found].name # x)
        /\ protocols' = [i \in DOMAIN protocols |->
             IF i = found THEN Renamed(protocols[i], x) ELSE Forgets(x, protocols[i])]
    BY <1>6 DEF Renames
  <2>2. ASSUME NEW i \in 1 .. N
        PROVE  /\ Forgets(x, protocols[i]) \in R
               /\ Forgets(x, protocols[i]).user = protocols[i].user
               /\ Forgets(x, protocols[i]).name \in {protocols[i].name, FreedName}
               /\ protocols[i].name # x => Forgets(x, protocols[i]) = protocols[i]
               /\ Renamed(protocols[i], x) \in R
               /\ Renamed(protocols[i], x).name = x
               /\ Renamed(protocols[i], x).user = protocols[i].user
    BY <1>2, <2>2 DEF Forgets, Renamed
  <2>3. /\ DOMAIN protocols' = 1 .. N /\ found \in 1 .. N
        /\ protocols'[found] \in R /\ protocols'[found].name = x
        /\ protocols'[found].user = protocols[found].user
        /\ \A i \in 1 .. N : i # found =>
             /\ protocols'[i] \in R
             /\ protocols'[i].user = protocols[i].user
             /\ protocols'[i].name \in {protocols[i].name, FreedName}
             /\ protocols[i].name # x => protocols'[i] = protocols[i]
    BY <1>2, <2>1, <2>2
  <2>4. protocols' \in Seq(R)
    <3>1. protocols' = [i \in 1 .. N |-> protocols'[i]]
      BY <1>2, <2>1
    <3> QED BY <1>2, <2>3, <3>1
  <2>5. ASSUME ~misnamed'
        PROVE  /\ \A i \in DOMAIN protocols' :
                    protocols'[i].name \in {protocols'[i].user, FreedName}
               /\ \A y \in loaded' \ removed' :
                    \E i \in DOMAIN protocols' : protocols'[i].name = y
    <3>1. /\ \A i \in 1 .. N : protocols[i].name \in {protocols[i].user, FreedName}
          /\ \A y \in loaded \ removed : \E i \in 1 .. N : protocols[i].name = y
          /\ protocols[found].name = x
      BY <1>1, <1>2, <2>1, <2>5 DEF ProtocolInv
    <3>2. \A i \in 1 .. N : protocols'[i].name \in {protocols'[i].user, FreedName}
      BY <2>3, <3>1
    <3>3. \A y \in loaded \ removed : \E i \in 1 .. N : protocols'[i].name = y
      <4> SUFFICES ASSUME NEW y \in loaded \ removed
                   PROVE  \E i \in 1 .. N : protocols'[i].name = y
        OBVIOUS
      <4>1. CASE y = x
        BY <2>3, <4>1
      <4>2. CASE y # x
        <5>1. PICK i \in 1 .. N : protocols[i].name = y
          BY <3>1
        <5>2. i # found /\ protocols'[i] = protocols[i]
          BY <2>3, <3>1, <4>2, <5>1
        <5> QED BY <5>1, <5>2
      <4> QED BY <4>1, <4>2
    <3>4. DOMAIN protocols' = 1 .. N
      BY <2>3
    <3>5. \A i \in DOMAIN protocols' :
            protocols'[i].name \in {protocols'[i].user, FreedName}
      BY <3>2, <3>4
    <3>6. \A y \in loaded' \ removed' :
            \E i \in DOMAIN protocols' : protocols'[i].name = y
      <4>1. loaded' \ removed' = loaded \ removed
        BY <2>1
      <4> QED BY <3>3, <3>4, <4>1
    <3> QED BY <3>5, <3>6
  <2> QED BY <2>4, <2>5 DEF ProtocolType, ProtocolInv
<1>7. ASSUME Forgotten PROVE Goal
  <2>1. protocols' = <<>> /\ loaded' = {} /\ removed' = {}
    BY <1>7 DEF Forgotten
  <2>2. <<>> \in Seq(R) /\ DOMAIN protocols' = {}
    BY <2>1
  <2> QED BY <2>1, <2>2 DEF ProtocolType, ProtocolInv
<1> HIDE DEF Goal
<1>8. ASSUME Start \/ Undefined \/ UNCHANGED vars PROVE Goal
  BY <1>3, <1>8 DEF Start, Undefined, vars
<1>9. Goal
  BY <1>4, <1>5, <1>6, <1>7, <1>8, StepCases
<1> QED BY <1>9 DEF Goal

-----------------------------------------------------------------------------
(* The invariant. *)

(* It holds when the daemon starts. *)
LEMMA InitRegistry == Init => RegistryIInv
<1> SUFFICES ASSUME Init PROVE RegistryIInv
  OBVIOUS
<1>1. /\ tree = << >> /\ freed = {} /\ protocols = <<>>
      /\ loaded = {} /\ running = FALSE /\ removed = {} /\ splits = {}
      /\ misnamed = FALSE /\ undefined = FALSE /\ reloads = 0
  BY DEF Init
<1>2. DOMAIN tree = {} /\ tree \in [{} -> Plugins] /\ DOMAIN protocols = {}
  BY <1>1
<1>3. TreeInv
  BY <1>2, FS_EmptySet DEF TreeInv, Shaped, Ordered
<1>4. TreeType /\ ListInv /\ ListedOnce
  BY <1>1, <1>2 DEF TreeType, ListInv, ListedOnce, Listed, Distinct, Nodes
<1>5. ProtocolType /\ ProtocolInv
  <2>1. <<>> \in Seq([name : Plugins \cup {FreedName}, user : Plugins])
    OBVIOUS
  <2> QED BY <1>1, <1>2, <2>1 DEF ProtocolType, ProtocolInv
<1>6. HistoryType
  <2>1. reloads \in 0 .. MaxReloads
    BY <1>1, MaxReloadsAssumption
  <2> QED BY <1>1, <2>1 DEF HistoryType
<1>7. DefinedUnlessMishap
  BY <1>1 DEF DefinedUnlessMishap
<1> QED BY <1>3, <1>4, <1>5, <1>6, <1>7, TypeParts DEF RegistryIInv

(* Every step keeps it. *)
LEMMA StepRegistry == RegistryIInv /\ [Next]_vars => RegistryIInv'
<1> SUFFICES ASSUME RegistryIInv, [Next]_vars PROVE RegistryIInv'
  OBVIOUS
<1>1. TreeInv' /\ TreeType' /\ ListInv'
  BY TreeStep
<1>2. ProtocolType' /\ ProtocolInv'
  BY ProtocolStep
<1>3. HistoryType' /\ ListedOnce' /\ DefinedUnlessMishap'
  BY HistoryStep, ListedStep, UndefinedStep
<1>4. TypeOK'
  BY <1>1, <1>2, <1>3, TypeParts, PTL
<1> QED BY <1>1, <1>2, <1>3, <1>4 DEF RegistryIInv

(* The invariant holds always. *)
THEOREM RegistryIInvAlways == Spec => []RegistryIInv
BY InitRegistry, StepRegistry, PTL DEF Spec

(* PluginList and btree keep the plugins that were not removed within      *)
(* reach of a search, whatever is removed around them, and each once until *)
(* a node with two children is removed: for trees of any size and shape.   *)
THEOREM TreeIntactAlways == Spec => []TreeIntact
<1>1. RegistryIInv => TreeIntact
  <2> SUFFICES ASSUME RegistryIInv PROVE StaysFound
    BY DEF RegistryIInv, TreeIntact
  <2>1. Shaped(tree) /\ Ordered(tree) /\ loaded \ removed \subseteq Listed
    BY DEF RegistryIInv, TreeInv, ListInv
  <2> QED BY <2>1, SearchFinds DEF StaysFound
<1> QED BY <1>1, RegistryIInvAlways, PTL

(* Nothing that was freed is read, and no NULL, before a node with two     *)
(* children was removed or a reload renamed the protocol of another.       *)
THEOREM DefinedUnlessMishapAlways == Spec => []DefinedUnlessMishap
<1>1. RegistryIInv => DefinedUnlessMishap
  BY DEF RegistryIInv
<1> QED BY <1>1, RegistryIInvAlways, PTL

(* PluginSocket_getProtocol: until such a reload, a page that asks for a   *)
(* plugin by its name is served by that plugin.                            *)
THEOREM ServesOwnAlways == Spec => []ServesOwn
<1>1. RegistryIInv => ServesOwn
  <2> SUFFICES ASSUME RegistryIInv, ~misnamed, NEW x \in loaded \ removed
               PROVE  /\ \E i \in DOMAIN protocols : protocols[i].name = x
                      /\ \A i \in DOMAIN protocols :
                           protocols[i].name = x => protocols[i].user = x
    BY DEF ServesOwn
  <2>1. x # FreedName
    BY PluginsAssumption, TypeParts DEF RegistryIInv, HistoryType
  <2> QED BY <2>1 DEF RegistryIInv, ProtocolInv
<1> QED BY <1>1, RegistryIInvAlways, PTL
-----------------------------------------------------------------------------
(* PluginSettings.  What the lines of a file say.                          *)

(* A bounded set of numbers has a largest and a smallest element.          *)
LEMMA MaxIs ==
  ASSUME NEW n \in Nat, NEW T, T \subseteq 1 .. n, T # {}
  PROVE  Max(T) \in T /\ \A i \in T : i <= Max(T)
<1> DEFINE D == {n - i : i \in T}
<1>1. D \subseteq Nat /\ D # {}
  <2>1. \A i \in T : i \in Int /\ 1 <= i /\ i <= n
    OBVIOUS
  <2>2. \A i \in T : n - i \in Nat
    BY <2>1
  <2>3. QED
    BY <2>2
<1>2. PICK d \in D : \A e \in D : d <= e
  BY <1>1, LeastNat
<1>3. PICK j \in T : d = n - j
  BY <1>2
<1>4. \A i \in T : n - j <= n - i
  BY <1>2, <1>3
<1>5. \A i \in T : j >= i
  BY <1>4
<1>6. QED
  BY <1>3, <1>5 DEF Max

(* ... and a smallest element.                                             *)
LEMMA MinIs ==
  ASSUME NEW n \in Nat, NEW T, T \subseteq 1 .. n, T # {}
  PROVE  Min(T) \in T /\ \A i \in T : Min(T) <= i
<1>1. T \subseteq Nat
  OBVIOUS
<1>2. PICK i \in T : \A j \in T : i <= j
  BY <1>1, LeastNat
<1>3. QED
  BY <1>2 DEF Min

(* What the lines in I say of s: the value in the last of them.            *)
Of(lines, I, s) == {i \in I : lines[i].setting = s}
Last1(lines, I, s) ==
  IF Of(lines, I, s) = {} THEN Empty ELSE lines[Max(Of(lines, I, s))].value

(* Reading a file line by line tells of each setting its last value.       *)
LEMMA SaidMeans ==
  ASSUME NEW lines \in Files
  PROVE  Said(lines) = [s \in Settings |-> Last1(lines, DOMAIN lines, s)]
<1> DEFINE D == DOMAIN lines
           L(I) == [s \in Settings |-> Last1(lines, I, s)]
           F(g) == [I \in SUBSET D |->
                      IF I = {} THEN [s \in Settings |-> Empty]
                      ELSE [g[I \ {Max(I)}] EXCEPT ![lines[Max(I)].setting]
                                                     = lines[Max(I)].value]]
           K == [I \in SUBSET D |-> L(I)]
<1>1. Said(lines) = (CHOOSE g : g = F(g))[D]
  BY DEF Said, FoldLeft, MapThenFoldSet
<1>2. /\ Len(lines) \in Nat /\ D = 1 .. Len(lines)
      /\ \A i \in D : lines[i].setting \in Settings
  <2>1. lines \in Seq(Line)
    BY DEF Files
  <2>2. Len(lines) \in Nat /\ D = 1 .. Len(lines) /\ \A i \in D : lines[i] \in Line
    BY <2>1
  <2>3. QED
    BY <2>2 DEF Line
<1>3. ASSUME NEW I \in SUBSET D, I # {}
      PROVE  /\ Max(I) \in I
             /\ L(I) = [L(I \ {Max(I)}) EXCEPT ![lines[Max(I)].setting]
                                               = lines[Max(I)].value]
  <2> DEFINE m == Max(I)
  <2>1. m \in I /\ \A i \in I : i <= m
    BY <1>2, <1>3, MaxIs
  <2> HIDE DEF m
  <2>2. ASSUME NEW s \in Settings
        PROVE  Last1(lines, I, s) = IF s = lines[m].setting THEN lines[m].value
                                    ELSE Last1(lines, I \ {m}, s)
    <3>1. CASE s = lines[m].setting
      <4>1. Of(lines, I, s) \subseteq 1 .. Len(lines) /\ m \in Of(lines, I, s)
        BY <1>2, <2>1, <3>1 DEF Of
      <4>2. /\ Max(Of(lines, I, s)) \in Of(lines, I, s)
            /\ m <= Max(Of(lines, I, s))
        BY <1>2, <4>1, MaxIs
      <4>3. Max(Of(lines, I, s)) <= m /\ Max(Of(lines, I, s)) \in Int /\ m \in Int
        BY <1>2, <2>1, <4>2 DEF Of
      <4>4. Max(Of(lines, I, s)) = m
        BY <4>2, <4>3
      <4>5. QED
        BY <3>1, <4>1, <4>4 DEF Last1
    <3>2. CASE s # lines[m].setting
      <4>1. Of(lines, I, s) = Of(lines, I \ {m}, s)
        BY <3>2 DEF Of
      <4>2. QED
        BY <3>2, <4>1 DEF Last1
    <3>3. QED
      BY <3>1, <3>2
  <2>3. L(I) = [L(I \ {m}) EXCEPT ![lines[m].setting] = lines[m].value]
    BY <1>2, <2>1, <2>2
  <2>4. QED
    BY <2>1, <2>3 DEF m
<1>4. L({}) = [s \in Settings |-> Empty]
  BY DEF Last1, Of
<1> HIDE DEF L
<1>5. K = F(K)
  <2>1. ASSUME NEW I \in SUBSET D
        PROVE  L(I) = IF I = {} THEN [s \in Settings |-> Empty]
                      ELSE [K[I \ {Max(I)}] EXCEPT ![lines[Max(I)].setting]
                                                     = lines[Max(I)].value]
    <3>1. K[I \ {Max(I)}] = L(I \ {Max(I)})
      OBVIOUS
    <3> HIDE DEF K
    <3>2. CASE I = {}
      BY <1>4, <3>2
    <3>3. CASE I # {}
      BY <1>3, <3>1, <3>3
    <3>4. QED
      BY <3>2, <3>3
  <2>2. QED
    BY <2>1
<1>6. ASSUME NEW g, g = F(g)
      PROVE  \A I \in SUBSET D : g[I] = L(I)
  <2>0. \A I \in SUBSET D :
          g[I] = IF I = {} THEN [s \in Settings |-> Empty]
                 ELSE [g[I \ {Max(I)}] EXCEPT ![lines[Max(I)].setting]
                                                = lines[Max(I)].value]
    BY <1>6
  <2> DEFINE T == {I \in SUBSET D : g[I] # L(I)}
  <2>1. SUFFICES ASSUME T # {} PROVE FALSE
    OBVIOUS
  <2>2. IsFiniteSet(D)
    BY <1>2, FS_Interval
  <2>3. PICK I \in T : \A J \in T : J \subseteq I => J = I
    <3>1. T \subseteq SUBSET D
      OBVIOUS
    <3> HIDE DEF T, D
    <3>2. QED
      BY <2>1, <2>2, <3>1, LeastSet
  <2>4. I \in SUBSET D /\ g[I] # L(I)
    BY <2>3
  <2>5. I # {}
    BY <1>4, <2>0, <2>4
  <2>6. Max(I) \in I
    BY <1>3, <2>4, <2>5
  <2>7. I \ {Max(I)} \notin T
    BY <2>3, <2>6
  <2>8. g[I \ {Max(I)}] = L(I \ {Max(I)})
    BY <2>4, <2>7
  <2>9. QED
    BY <1>3, <2>0, <2>4, <2>5, <2>8
<1>7. (CHOOSE g : g = F(g)) = F(CHOOSE g : g = F(g))
  BY <1>5
<1>8. Said(lines) = L(D)
  BY <1>1, <1>6, <1>7
<1>9. QED
  BY <1>8 DEF L
(* The value in a line that no later line overrides.                       *)
LEMMA LastIs ==
  ASSUME NEW lines \in Files, NEW i \in DOMAIN lines,
         \A j \in DOMAIN lines : lines[j].setting = lines[i].setting => j <= i
  PROVE  Last1(lines, DOMAIN lines, lines[i].setting) = lines[i].value
<1> DEFINE T == Of(lines, DOMAIN lines, lines[i].setting)
<1>1. Len(lines) \in Nat /\ DOMAIN lines = 1 .. Len(lines)
  BY DEF Files
<1>2. T \subseteq 1 .. Len(lines) /\ i \in T /\ \A j \in T : j <= i
  BY <1>1 DEF Of
<1> HIDE DEF T
<1>3. Max(T) \in T /\ i <= Max(T) /\ Max(T) <= i
  BY <1>1, <1>2, MaxIs
<1>4. Max(T) = i
  BY <1>1, <1>2, <1>3
<1>5. QED
  BY <1>2, <1>4 DEF T, Last1

(* The lines after one of them was taken out.                              *)
LEMMA RemovedAt ==
  ASSUME NEW lines \in Files, NEW h \in DOMAIN lines
  PROVE  LET w == RemoveAt(lines, h) IN
           /\ w \in Files /\ Len(w) = Len(lines) - 1 /\ DOMAIN w = 1 .. Len(lines) - 1
           /\ \A i \in 1 .. Len(lines) - 1 :
                w[i] = IF i < h THEN lines[i] ELSE lines[i + 1]
<1> DEFINE n == Len(lines)
           a == SubSeq(lines, 1, h - 1)
           b == SubSeq(lines, h + 1, n)
<1>1. n \in Nat /\ h \in 1 .. n /\ lines \in Seq(Line)
  BY DEF Files
<1>2. a \in Seq(Line) /\ Len(a) = h - 1 /\ \A i \in 1 .. h - 1 : a[i] = lines[i]
  BY <1>1
<1>3. b \in Seq(Line) /\ Len(b) = n - h /\ \A i \in 1 .. n - h : b[i] = lines[h + i]
  BY <1>1
<1> DEFINE w == a \o b
<1> HIDE DEF a, b
<1>4. w \in Seq(Line) /\ Len(w) = n - 1 /\ DOMAIN w = 1 .. n - 1
  BY <1>1, <1>2, <1>3
<1>5. ASSUME NEW i \in 1 .. n - 1
      PROVE  w[i] = IF i < h THEN lines[i] ELSE lines[i + 1]
  <2>1. CASE i < h
    BY <1>1, <1>2, <1>3, <2>1
  <2>2. CASE ~(i < h)
    <3>1. w[i] = b[i - (h - 1)] /\ i - (h - 1) \in 1 .. n - h
      BY <1>1, <1>2, <1>3, <2>2
    <3>2. h + (i - (h - 1)) = i + 1
      BY <1>1
    <3>3. QED
      BY <1>3, <2>2, <3>1, <3>2
  <2>3. QED
    BY <2>1, <2>2
<1>6. RemoveAt(lines, h) = w
  BY DEF RemoveAt, a, b
<1>7. QED
  BY <1>4, <1>5, <1>6 DEF Files

(* Without an ambiguous name at most one line is about s, and is the one   *)
(* that is found.                                                          *)
LEMMA HitsOne ==
  ASSUME NEW lines \in Files, NEW s \in Settings, ~Ambiguous(lines, s)
  PROVE  /\ \A i \in DOMAIN lines : i \in Hits(lines, s) <=> lines[i].setting = s
         /\ Hits(lines, s) # {} =>
              /\ Min(Hits(lines, s)) \in DOMAIN lines
              /\ \A i \in DOMAIN lines :
                   lines[i].setting = s <=> i = Min(Hits(lines, s))
<1>1. \A i \in DOMAIN lines : i \in Hits(lines, s) <=> lines[i].setting = s
  BY DEF Hits, LineMatches, Ambiguous
<1>2. ASSUME Hits(lines, s) # {}
      PROVE  Min(Hits(lines, s)) \in Hits(lines, s)
  <2>1. Len(lines) \in Nat /\ Hits(lines, s) \subseteq 1 .. Len(lines)
    BY DEF Files, Hits
  <2>2. QED
    BY <1>2, <2>1, MinIs
<1>3. \A i, j \in DOMAIN lines : lines[i].setting = s /\ lines[j].setting = s => i = j
  BY DEF Ambiguous
<1>4. Hits(lines, s) \subseteq DOMAIN lines
  BY DEF Hits
<1>5. QED
  BY <1>1, <1>2, <1>3, <1>4
(* A setting that no line is about has no value.                           *)
LEMMA LastNone ==
  ASSUME NEW lines, NEW t, \A i \in DOMAIN lines : lines[i].setting # t
  PROVE  Last1(lines, DOMAIN lines, t) = Empty
BY DEF Last1, Of

(* One that some line is about has a last line.                            *)
LEMMA LastThere ==
  ASSUME NEW lines \in Files, NEW t, NEW k \in DOMAIN lines, lines[k].setting = t
  PROVE  \E i \in DOMAIN lines :
           /\ lines[i].setting = t /\ Last1(lines, DOMAIN lines, t) = lines[i].value
           /\ \A j \in DOMAIN lines : lines[j].setting = t => j <= i
<1> DEFINE T == Of(lines, DOMAIN lines, t)
<1>1. Len(lines) \in Nat /\ DOMAIN lines = 1 .. Len(lines)
  BY DEF Files
<1>2. T \subseteq 1 .. Len(lines) /\ k \in T
  BY <1>1 DEF Of
<1> HIDE DEF T
<1>3. Max(T) \in T /\ \A j \in T : j <= Max(T)
  BY <1>1, <1>2, MaxIs
<1>4. QED
  BY <1>2, <1>3 DEF T, Of, Last1

(* What is written is a file.                                              *)
LEMMA WrittenType ==
  ASSUME NEW lines \in Files, NEW s \in Settings, NEW v \in Values \cup {Empty}
  PROVE  Written(lines, s, v) \in Files
<1> DEFINE hit == Min(Hits(lines, s))
<1>1. /\ lines \in Seq(Line) /\ Len(lines) \in Nat
      /\ Hits(lines, s) \subseteq 1 .. Len(lines)
  BY DEF Files, Hits
<1>2. Hits(lines, s) # {} => hit \in DOMAIN lines
  BY <1>1, MinIs
<1> HIDE DEF hit
<1>3. CASE Hits(lines, s) = {} /\ v = Empty
  BY <1>3 DEF Written
<1>4. CASE Hits(lines, s) = {} /\ v # Empty
  <2>1. [setting |-> s, value |-> v] \in Line
    BY <1>4 DEF Line
  <2>2. Append(lines, [setting |-> s, value |-> v]) \in Seq(Line)
    BY <1>1, <2>1
  <2>3. QED
    BY <1>4, <2>2 DEF Written, Files
<1>5. CASE Hits(lines, s) # {} /\ v = Empty
  <2>1. RemoveAt(lines, hit) \in Files
    BY <1>2, <1>5, RemovedAt
  <2>2. QED
    BY <1>5, <2>1 DEF Written, hit
<1>6. CASE Hits(lines, s) # {} /\ v # Empty
  <2>1. lines[hit] \in Line
    BY <1>1, <1>2, <1>6
  <2>2. [lines[hit] EXCEPT !.value = v] \in Line
    BY <1>6, <2>1 DEF Line
  <2>3. [lines EXCEPT ![hit] = [lines[hit] EXCEPT !.value = v]] \in Seq(Line)
    BY <1>1, <1>2, <1>6, <2>2
  <2>4. Written(lines, s, v) = [lines EXCEPT ![hit].value = v]
    BY <1>6 DEF Written, hit
  <2>5. QED
    BY <2>3, <2>4 DEF Files
<1>7. QED
  BY <1>3, <1>4, <1>5, <1>6

(* In which way the lines w, with s set to v, come from the lines: nothing *)
(* is there to do, a line is added, taken out, or changed.                 *)
Nothing(lines, s, v, w) ==
  v = Empty /\ w = lines /\ \A i \in DOMAIN lines : lines[i].setting # s
Added(lines, s, v, w) ==
  /\ v # Empty /\ \A i \in DOMAIN lines : lines[i].setting # s
  /\ w = Append(lines, [setting |-> s, value |-> v])
TakenOut(lines, s, v, w) ==
  /\ v = Empty
  /\ \E h \in DOMAIN lines :
       w = RemoveAt(lines, h) /\ \A i \in DOMAIN lines : lines[i].setting = s <=> i = h
Changed(lines, s, v, w) ==
  /\ v # Empty
  /\ \E h \in DOMAIN lines :
       /\ \A i \in DOMAIN lines : lines[i].setting = s <=> i = h
       /\ w = [lines EXCEPT ![h] = [setting |-> s, value |-> v]]

(* ConfigReader_writeConfig does one of the four.                          *)
LEMMA WrittenHow ==
  ASSUME NEW lines \in Files, NEW s \in Settings, NEW v \in Values \cup {Empty},
         ~Ambiguous(lines, s)
  PROVE  LET w == Written(lines, s, v) IN
           \/ Nothing(lines, s, v, w) \/ Added(lines, s, v, w)
           \/ TakenOut(lines, s, v, w) \/ Changed(lines, s, v, w)
<1> DEFINE hit == Min(Hits(lines, s))
<1>1. /\ \A i \in DOMAIN lines : i \in Hits(lines, s) <=> lines[i].setting = s
      /\ Hits(lines, s) # {} =>
           hit \in DOMAIN lines /\ \A i \in DOMAIN lines : lines[i].setting = s <=> i = hit
  BY HitsOne
<1> HIDE DEF hit
<1>2. CASE Hits(lines, s) = {} /\ v = Empty
  BY <1>1, <1>2 DEF Written, Nothing
<1>3. CASE Hits(lines, s) = {} /\ v # Empty
  BY <1>1, <1>3 DEF Written, Added
<1>4. CASE Hits(lines, s) # {} /\ v = Empty
  <2>1. Written(lines, s, v) = RemoveAt(lines, hit)
    BY <1>4 DEF Written, hit
  <2>2. QED
    BY <1>1, <1>4, <2>1 DEF TakenOut
<1>5. CASE Hits(lines, s) # {} /\ v # Empty
  <2>1. Written(lines, s, v) = [lines EXCEPT ![hit].value = v]
    BY <1>5 DEF Written, hit
  <2>2. lines[hit] \in Line
    BY <1>1, <1>5 DEF Files
  <2>3. [lines[hit] EXCEPT !.value = v] = [setting |-> s, value |-> v]
    BY <1>1, <1>5, <2>2 DEF Line
  <2>4. QED
    BY <1>1, <1>5, <2>1, <2>3 DEF Changed
<1>6. QED
  BY <1>2, <1>3, <1>4, <1>5
(* Writing a setting changes what the file says of it, and no more.        *)
LEMMA LastWritten ==
  ASSUME NEW lines \in Files, NEW s \in Settings, NEW v \in Values \cup {Empty},
         ~Ambiguous(lines, s), NEW t \in Settings
  PROVE  LET w == Written(lines, s, v) IN
           Last1(w, DOMAIN w, t) = IF t = s THEN v ELSE Last1(lines, DOMAIN lines, t)
<1> DEFINE w == Written(lines, s, v)
           n == Len(lines)
<1>0. SUFFICES Last1(w, DOMAIN w, t) = IF t = s THEN v ELSE Last1(lines, DOMAIN lines, t)
  OBVIOUS
<1>1. w \in Files
  BY WrittenType
<1>2. \/ Nothing(lines, s, v, w) \/ Added(lines, s, v, w)
      \/ TakenOut(lines, s, v, w) \/ Changed(lines, s, v, w)
  BY WrittenHow
<1>3. lines \in Seq(Line) /\ n \in Nat /\ DOMAIN lines = 1 .. n
  BY DEF Files
<1> HIDE DEF w
<1>4. CASE Nothing(lines, s, v, w)
  BY <1>4, LastNone DEF Nothing
<1>5. CASE Added(lines, s, v, w)
  <2>1. /\ DOMAIN w = 1 .. n + 1 /\ w[n + 1] = [setting |-> s, value |-> v]
        /\ \A i \in 1 .. n : w[i] = lines[i]
    BY <1>3, <1>5 DEF Added
  <2>2. CASE t = s
    <3>1. n + 1 \in DOMAIN w /\ w[n + 1].setting = s /\ w[n + 1].value = v
      BY <1>3, <2>1
    <3>2. \A j \in DOMAIN w : j <= n + 1
      BY <1>3, <2>1
    <3>3. Last1(w, DOMAIN w, w[n + 1].setting) = w[n + 1].value
      BY <1>1, <3>1, <3>2, LastIs
    <3>4. QED
      BY <2>2, <3>1, <3>3
  <2>3. CASE t # s /\ \A i \in DOMAIN lines : lines[i].setting # t
    <3>1. \A i \in DOMAIN w : w[i].setting # t
      BY <1>3, <2>1, <2>3
    <3>2. QED
      BY <2>3, <3>1, LastNone
  <2>4. CASE t # s /\ \E i \in DOMAIN lines : lines[i].setting = t
    <3>1. PICK i \in DOMAIN lines :
            /\ lines[i].setting = t /\ Last1(lines, DOMAIN lines, t) = lines[i].value
            /\ \A j \in DOMAIN lines : lines[j].setting = t => j <= i
      BY <2>4, LastThere
    <3>2. i \in DOMAIN w /\ w[i] = lines[i]
      BY <1>3, <2>1
    <3>3. \A j \in DOMAIN w : w[j].setting = t => j <= i
      BY <1>3, <2>1, <2>4, <3>1
    <3>4. Last1(w, DOMAIN w, w[i].setting) = w[i].value
      BY <1>1, <3>1, <3>2, <3>3, LastIs
    <3>5. QED
      BY <2>4, <3>1, <3>2, <3>4
  <2>5. QED
    BY <2>2, <2>3, <2>4
<1>6. CASE TakenOut(lines, s, v, w)
  <2>1. PICK h \in DOMAIN lines :
          w = RemoveAt(lines, h) /\ \A i \in DOMAIN lines : lines[i].setting = s <=> i = h
    BY <1>6 DEF TakenOut
  <2>2. /\ DOMAIN w = 1 .. n - 1
        /\ \A i \in 1 .. n - 1 : w[i] = IF i < h THEN lines[i] ELSE lines[i + 1]
    BY <2>1, RemovedAt
  <2>3. h \in 1 .. n
    BY <1>3
  <2>4. CASE t = s
    <3>1. \A i \in DOMAIN w : w[i].setting # s
      <4>1. ASSUME NEW i \in DOMAIN w PROVE w[i].setting # s
        <5>1. CASE i < h
          <6>1. i \in DOMAIN lines /\ i # h /\ w[i] = lines[i]
            BY <1>3, <2>2, <2>3, <5>1
          <6>2. QED
            BY <2>1, <6>1
        <5>2. CASE ~(i < h)
          <6>1. i + 1 \in DOMAIN lines /\ i + 1 # h /\ w[i] = lines[i + 1]
            BY <1>3, <2>2, <2>3, <5>2
          <6>2. QED
            BY <2>1, <6>1
        <5>3. QED
          BY <5>1, <5>2
      <4>2. QED
        BY <4>1
    <3>2. v = Empty
      BY <1>6 DEF TakenOut
    <3>3. QED
      BY <2>4, <3>1, <3>2, LastNone
  <2>5. CASE t # s /\ \A i \in DOMAIN lines : lines[i].setting # t
    <3>1. \A i \in DOMAIN w : w[i].setting # t
      <4>1. \A i \in DOMAIN w : i \in DOMAIN lines /\ i + 1 \in DOMAIN lines
        BY <1>3, <2>2
      <4>2. QED
        BY <2>2, <2>5, <4>1
    <3>2. QED
      BY <2>5, <3>1, LastNone
  <2>6. CASE t # s /\ \E i \in DOMAIN lines : lines[i].setting = t
    <3>1. PICK i \in DOMAIN lines :
            /\ lines[i].setting = t /\ Last1(lines, DOMAIN lines, t) = lines[i].value
            /\ \A j \in DOMAIN lines : lines[j].setting = t => j <= i
      BY <2>6, LastThere
    <3>2. i # h
      BY <2>1, <2>6, <3>1
    <3> DEFINE k == IF i < h THEN i ELSE i - 1
    <3>3. k \in DOMAIN w /\ w[k] = lines[i]
      BY <1>3, <2>2, <2>3, <3>2
    <3>4. ASSUME NEW j \in DOMAIN w, w[j].setting = t PROVE j <= k
      <4>1. CASE j < h
        <5>1. j \in DOMAIN lines /\ lines[j].setting = t
          BY <1>3, <2>2, <2>3, <3>4, <4>1
        <5>2. j <= i
          BY <3>1, <5>1
        <5>3. QED
          BY <1>3, <2>2, <2>3, <3>2, <4>1, <5>2
      <4>2. CASE ~(j < h)
        <5>1. j + 1 \in DOMAIN lines /\ lines[j + 1].setting = t
          BY <1>3, <2>2, <2>3, <3>4, <4>2
        <5>2. j + 1 <= i
          BY <3>1, <5>1
        <5>3. QED
          BY <1>3, <2>2, <2>3, <3>2, <4>2, <5>2
      <4>3. QED
        BY <4>1, <4>2
    <3> HIDE DEF k
    <3>5. Last1(w, DOMAIN w, w[k].setting) = w[k].value
      BY <1>1, <3>1, <3>3, <3>4, LastIs
    <3>6. QED
      BY <2>6, <3>1, <3>3, <3>5
  <2>7. QED
    BY <2>4, <2>5, <2>6
<1>7. CASE Changed(lines, s, v, w)
  <2>1. PICK h \in DOMAIN lines :
          /\ \A i \in DOMAIN lines : lines[i].setting = s <=> i = h
          /\ w = [lines EXCEPT ![h] = [setting |-> s, value |-> v]]
    BY <1>7 DEF Changed
  <2>2. /\ DOMAIN w = DOMAIN lines /\ w[h] = [setting |-> s, value |-> v]
        /\ \A i \in DOMAIN lines : i # h => w[i] = lines[i]
    BY <1>3, <2>1
  <2>3. \A i \in DOMAIN lines : w[i].setting = lines[i].setting
    BY <2>1, <2>2
  <2>4. CASE t = s
    <3>1. w[h].setting = s /\ w[h].value = v
      BY <2>2
    <3>2. \A j \in DOMAIN w : w[j].setting = s => j <= h
      BY <1>3, <2>1, <2>2, <2>3
    <3>3. Last1(w, DOMAIN w, w[h].setting) = w[h].value
      BY <1>1, <2>2, <3>1, <3>2, LastIs
    <3>4. QED
      BY <2>4, <3>1, <3>3
  <2>5. CASE t # s /\ \A i \in DOMAIN lines : lines[i].setting # t
    BY <2>2, <2>3, <2>5, LastNone
  <2>6. CASE t # s /\ \E i \in DOMAIN lines : lines[i].setting = t
    <3>1. PICK i \in DOMAIN lines :
            /\ lines[i].setting = t /\ Last1(lines, DOMAIN lines, t) = lines[i].value
            /\ \A j \in DOMAIN lines : lines[j].setting = t => j <= i
      BY <2>6, LastThere
    <3>2. w[i] = lines[i] /\ i \in DOMAIN w
      BY <2>1, <2>2, <2>6, <3>1
    <3>3. Last1(w, DOMAIN w, w[i].setting) = w[i].value
      BY <1>1, <2>2, <2>3, <3>1, <3>2, LastIs
    <3>4. QED
      BY <2>6, <3>1, <3>2, <3>3
  <2>7. QED
    BY <2>4, <2>5, <2>6
<1>8. QED
  BY <1>2, <1>4, <1>5, <1>6, <1>7

(* configReader.c, ConfigReader_writeConfig: what the file says is changed *)
(* for this setting and for no other, unless its name is ambiguous.        *)
THEOREM SaidWritten ==
  ASSUME NEW lines \in Files, NEW s \in Settings, NEW v \in Values \cup {Empty},
         ~Ambiguous(lines, s)
  PROVE  Said(Written(lines, s, v)) = [Said(lines) EXCEPT ![s] = v]
<1> DEFINE w == Written(lines, s, v)
<1>1. w \in Files
  BY WrittenType
<1>2. \A t \in Settings :
        Last1(w, DOMAIN w, t) = IF t = s THEN v ELSE Last1(lines, DOMAIN lines, t)
  BY LastWritten
<1> HIDE DEF w
<1>3. /\ Said(w) = [t \in Settings |-> Last1(w, DOMAIN w, t)]
      /\ Said(lines) = [t \in Settings |-> Last1(lines, DOMAIN lines, t)]
  BY <1>1, SaidMeans
<1>4. Said(w) = [Said(lines) EXCEPT ![s] = v]
  BY <1>2, <1>3
<1>5. QED
  BY <1>4 DEF w

(* What a file says is a value, or none.                                   *)
LEMMA SaidType ==
  ASSUME NEW lines \in Files
  PROVE  Said(lines) \in Tables
<1>1. ASSUME NEW s \in Settings
      PROVE  Last1(lines, DOMAIN lines, s) \in Values \cup {Empty}
  <2>1. CASE \A i \in DOMAIN lines : lines[i].setting # s
    BY <2>1, LastNone
  <2>2. CASE \E i \in DOMAIN lines : lines[i].setting = s
    <3>1. PICK i \in DOMAIN lines : Last1(lines, DOMAIN lines, s) = lines[i].value
      BY <2>2, LastThere
    <3>2. lines[i] \in Line
      BY DEF Files
    <3>3. QED
      BY <3>1, <3>2 DEF Line
  <2>3. QED
    BY <2>1, <2>2
<1>2. Said(lines) = [s \in Settings |-> Last1(lines, DOMAIN lines, s)]
  BY SaidMeans
<1>3. QED
  BY <1>1, <1>2 DEF Tables

(* Whether the plugin starts is changed by writing start-on-load only.     *)
LEMMA StartsWritten ==
  ASSUME NEW lines \in Files, NEW s \in Settings, NEW v \in Values \cup {Empty},
         ~Ambiguous(lines, s)
  PROVE  Starts(Written(lines, s, v)) <=>
           IF s = StartOnLoad THEN v \in Truths ELSE Starts(lines)
<1> DEFINE w == Written(lines, s, v)
           n == Len(lines)
<1>0. SUFFICES Starts(w) <=> IF s = StartOnLoad THEN v \in Truths ELSE Starts(lines)
  OBVIOUS
<1>1. \/ Nothing(lines, s, v, w) \/ Added(lines, s, v, w)
      \/ TakenOut(lines, s, v, w) \/ Changed(lines, s, v, w)
  BY WrittenHow
<1>2. lines \in Seq(Line) /\ n \in Nat /\ DOMAIN lines = 1 .. n
  BY DEF Files
<1>3. Empty \notin Truths
  BY ValuesAssumption
<1> HIDE DEF w
<1>4. CASE Nothing(lines, s, v, w)
  BY <1>3, <1>4 DEF Nothing, Starts
<1>5. CASE Added(lines, s, v, w)
  <2>1. /\ DOMAIN w = 1 .. n + 1 /\ w[n + 1] = [setting |-> s, value |-> v]
        /\ \A i \in 1 .. n : w[i] = lines[i]
        /\ \A i \in DOMAIN lines : lines[i].setting # s
    BY <1>2, <1>5 DEF Added
  <2>2. \A i \in DOMAIN w : i = n + 1 \/ i \in DOMAIN lines
    BY <1>2, <2>1
  <2>3. n + 1 \in DOMAIN w /\ DOMAIN lines \subseteq DOMAIN w
    BY <1>2, <2>1
  <2>4. Starts(w) <=> (s = StartOnLoad /\ v \in Truths) \/ Starts(lines)
    BY <1>2, <2>1, <2>2, <2>3 DEF Starts
  <2>5. s = StartOnLoad => ~Starts(lines)
    BY <2>1 DEF Starts
  <2>6. QED
    BY <2>4, <2>5
<1>6. CASE TakenOut(lines, s, v, w)
  <2>1. PICK h \in DOMAIN lines :
          w = RemoveAt(lines, h) /\ \A i \in DOMAIN lines : lines[i].setting = s <=> i = h
    BY <1>6 DEF TakenOut
  <2>2. /\ DOMAIN w = 1 .. n - 1
        /\ \A i \in 1 .. n - 1 : w[i] = IF i < h THEN lines[i] ELSE lines[i + 1]
    BY <2>1, RemovedAt
  <2>3. \A i \in DOMAIN w : \E j \in DOMAIN lines : j # h /\ w[i] = lines[j]
    <3>1. ASSUME NEW i \in DOMAIN w
          PROVE  \E j \in DOMAIN lines : j # h /\ w[i] = lines[j]
      <4>1. CASE i < h
        BY <1>2, <2>2, <4>1
      <4>2. CASE ~(i < h)
        <5>1. i + 1 \in DOMAIN lines /\ i + 1 # h /\ w[i] = lines[i + 1]
          BY <1>2, <2>2, <4>2
        <5>2. QED
          BY <5>1
      <4>3. QED
        BY <4>1, <4>2
    <3>2. QED
      BY <3>1
  <2>4. \A j \in DOMAIN lines : j # h => \E i \in DOMAIN w : w[i] = lines[j]
    <3>1. ASSUME NEW j \in DOMAIN lines, j # h
          PROVE  \E i \in DOMAIN w : w[i] = lines[j]
      <4>1. CASE j < h
        BY <1>2, <2>2, <4>1
      <4>2. CASE ~(j < h)
        <5>1. j - 1 \in DOMAIN w /\ ~(j - 1 < h) /\ (j - 1) + 1 = j
          BY <1>2, <2>2, <3>1, <4>2
        <5>2. w[j - 1] = lines[j]
          BY <2>2, <5>1
        <5>3. QED
          BY <5>1, <5>2
      <4>3. QED
        BY <4>1, <4>2
    <3>2. QED
      BY <3>1
  <2>5. v \notin Truths
    BY <1>3, <1>6 DEF TakenOut
  <2>6. CASE s = StartOnLoad
    <3>1. ~Starts(w)
      BY <2>1, <2>3, <2>6 DEF Starts
    <3>2. QED
      BY <2>5, <2>6, <3>1
  <2>7. CASE s # StartOnLoad
    <3>1. \A j \in DOMAIN lines : lines[j].setting = StartOnLoad => j # h
      BY <2>1, <2>7
    <3>2. Starts(w) => Starts(lines)
      BY <2>3 DEF Starts
    <3>3. Starts(lines) => Starts(w)
      BY <2>4, <3>1 DEF Starts
    <3>4. QED
      BY <2>7, <3>2, <3>3
  <2>8. QED
    BY <2>6, <2>7
<1>7. CASE Changed(lines, s, v, w)
  <2>1. PICK h \in DOMAIN lines :
          /\ \A i \in DOMAIN lines : lines[i].setting = s <=> i = h
          /\ w = [lines EXCEPT ![h] = [setting |-> s, value |-> v]]
    BY <1>7 DEF Changed
  <2>2. /\ DOMAIN w = DOMAIN lines /\ w[h].setting = s /\ w[h].value = v
        /\ \A i \in DOMAIN lines : i # h => w[i] = lines[i]
    BY <1>2, <2>1
  <2>3. CASE s = StartOnLoad
    BY <2>1, <2>2, <2>3 DEF Starts
  <2>4. CASE s # StartOnLoad
    BY <2>1, <2>2, <2>4 DEF Starts
  <2>5. QED
    BY <2>3, <2>4
<1>8. QED
  BY <1>1, <1>4, <1>5, <1>6, <1>7
-----------------------------------------------------------------------------
(* The steps of the calls. *)
Steps == [do : {"write", "unlink", "rename", "turn_off", "turn_on", "load"},
          setting : Settings, value : Values \cup {Empty}]
Then(q, i, do) == i < Len(q) /\ q[i + 1] = Step(do, q[i].setting, q[i].value)

(* A setting is written, unlinked and renamed in this order and in a row.  *)
Sound(q) ==
  /\ q \in Seq(Steps)
  /\ \A i \in DOMAIN q :
       /\ q[i].do = "write" => Then(q, i, "unlink")
       /\ q[i].do = "unlink" => Then(q, i, "rename")
       /\ q[i].do = "unlink" /\ i > 1 => q[i - 1].do = "write"
       /\ q[i].do = "rename" /\ i > 1 => q[i - 1].do = "unlink"

(* Only a daemon that is up has something to do, and one call is about one *)
(* setting.                                                                *)
About(q, s) == \A i \in DOMAIN q : q[i].setting = s
PlanInv ==
  /\ Sound(todo) /\ (todo # <<>> => up)
  /\ \E s \in Settings : About(todo, s)

(* What the steps q will make of start-on-load: nothing, or what the last  *)
(* of them that sets it does.                                              *)
Sets(q, i) == q[i].do = "rename" /\ q[i].setting = StartOnLoad
SetsNot(q) == \A i \in DOMAIN q : ~Sets(q, i)
Brings(q, starts) ==
  \A i \in DOMAIN q : Sets(q, i) /\ (\A j \in DOMAIN q : Sets(q, j) => j <= i)
    => (starts <=> q[i].value \in Truths)

(* The old file is missing only until the new one is renamed, or if the    *)
(* daemon was killed just then; and the new one says what it should.       *)
FileInv ==
  /\ conf = Missing => IF up THEN todo # <<>> /\ todo[1].do = "rename"
                       ELSE "lost" \in mishaps
  /\ todo # <<>> /\ todo[1].do \in {"unlink", "rename"} =>
       /\ newConf \in Files
       /\ Unless({"ambiguous"}) =>
            /\ Said(newConf) \in allowed
            /\ Said(newConf)[todo[1].setting] = todo[1].value
  /\ conf # Missing /\ Unless({"no_content"}) => HasContent(conf)

(* The steps left will make of start-on-load what is wanted; if they do    *)
(* not touch it, the file says so already, unless it cannot be loaded.     *)
StartInv ==
  Unless({"ambiguous", "lost", "half_reloaded"}) =>
    /\ Brings(todo, wanted)
    /\ SetsNot(todo) /\ conf # Missing /\ (~up => Loads) => (wanted <=> Starts(conf))
    /\ todo # <<>> /\ todo[1].do \in {"unlink", "rename"} =>
         IF todo[1].setting = StartOnLoad THEN Starts(newConf) <=> todo[1].value \in Truths
         ELSE wanted <=> Starts(newConf)

SettingsIInv == FilesSound /\ PlanInv /\ FileInv /\ StartInv

-----------------------------------------------------------------------------
(* What is left after the first step.                                      *)
LEMMA TailIs ==
  ASSUME NEW q \in Seq(Steps), q # <<>>
  PROVE  /\ Tail(q) \in Seq(Steps) /\ q[1] \in Steps /\ Len(q) \in Nat /\ Len(q) >= 1
         /\ DOMAIN q = 1 .. Len(q) /\ DOMAIN Tail(q) = 1 .. Len(q) - 1
         /\ Len(Tail(q)) = Len(q) - 1
         /\ \A i \in 1 .. Len(q) - 1 : Tail(q)[i] = q[i + 1] /\ i + 1 \in DOMAIN q
OBVIOUS

(* What is left is about the same setting; if that is not start-on-load,   *)
(* nothing is made of start-on-load.                                       *)
LEMMA TailAbout ==
  ASSUME NEW q \in Seq(Steps), q # <<>>, NEW s, About(q, s)
  PROVE  About(Tail(q), s) /\ q[1].setting = s /\ (s # StartOnLoad => SetsNot(q))
BY TailIs DEF About, SetsNot, Sets

(* What is left is in order, and what the next step is.                    *)
LEMMA TailSound ==
  ASSUME NEW q, Sound(q), q # <<>>
  PROVE  /\ Sound(Tail(q))
         /\ q[1].do = "write" => Tail(q) # <<>> /\ Tail(q)[1] = Step("unlink", q[1].setting, q[1].value)
         /\ q[1].do = "unlink" => Tail(q) # <<>> /\ Tail(q)[1] = Step("rename", q[1].setting, q[1].value)
         /\ q[1].do # "write" => Tail(q) = <<>> \/ Tail(q)[1].do # "unlink"
         /\ q[1].do # "unlink" => Tail(q) = <<>> \/ Tail(q)[1].do # "rename"
<1> DEFINE t == Tail(q)
           n == Len(q)
<1>1. /\ t \in Seq(Steps) /\ q[1] \in Steps /\ n \in Nat /\ n >= 1
      /\ DOMAIN q = 1 .. n /\ DOMAIN t = 1 .. n - 1 /\ Len(t) = n - 1
      /\ \A i \in 1 .. n - 1 : t[i] = q[i + 1] /\ i + 1 \in DOMAIN q
  BY TailIs DEF Sound
<1> HIDE DEF t
<1>2. ASSUME NEW i \in DOMAIN t, NEW do, Then(q, i + 1, do) PROVE Then(t, i, do)
  <2>1. i + 1 < n /\ q[(i + 1) + 1] = Step(do, q[i + 1].setting, q[i + 1].value)
    BY <1>2 DEF Then
  <2>2. i < n - 1 /\ i + 1 \in 1 .. n - 1
    BY <1>1, <2>1
  <2>3. t[i + 1] = q[(i + 1) + 1] /\ t[i] = q[i + 1]
    BY <1>1, <2>2
  <2>4. QED
    BY <1>1, <2>1, <2>2, <2>3 DEF Then
<1>3. ASSUME NEW i \in DOMAIN t
      PROVE  /\ t[i].do = "write" => Then(t, i, "unlink")
             /\ t[i].do = "unlink" => Then(t, i, "rename")
             /\ t[i].do = "unlink" /\ i > 1 => t[i - 1].do = "write"
             /\ t[i].do = "rename" /\ i > 1 => t[i - 1].do = "unlink"
  <2>1. /\ q[i + 1].do = "write" => Then(q, i + 1, "unlink")
        /\ q[i + 1].do = "unlink" => Then(q, i + 1, "rename")
        /\ q[i + 1].do = "unlink" /\ i + 1 > 1 => q[(i + 1) - 1].do = "write"
        /\ q[i + 1].do = "rename" /\ i + 1 > 1 => q[(i + 1) - 1].do = "unlink"
    BY <1>1 DEF Sound
  <2>2. t[i] = q[i + 1] /\ i \in Int
    BY <1>1
  <2>3. i > 1 => t[i - 1] = q[(i + 1) - 1]
    <3>1. i > 1 => i - 1 \in 1 .. n - 1 /\ (i - 1) + 1 = (i + 1) - 1
      BY <1>1
    <3>2. QED
      BY <1>1, <3>1
  <2>4. i > 1 => i + 1 > 1
    BY <2>2
  <2>5. QED
    BY <1>2, <2>1, <2>2, <2>3, <2>4
<1>4. Sound(t)
  BY <1>1, <1>3 DEF Sound
<1>5. /\ q[1].do = "write" => 1 < n /\ q[1 + 1] = Step("unlink", q[1].setting, q[1].value)
      /\ q[1].do = "unlink" => 1 < n /\ q[1 + 1] = Step("rename", q[1].setting, q[1].value)
  BY <1>1 DEF Sound, Then
<1>6. 1 < n => t # <<>> /\ t[1] = q[1 + 1]
  BY <1>1
<1>7. t # <<>> => /\ 1 < n /\ t[1] = q[2]
                  /\ t[1].do = "unlink" => q[1].do = "write"
                  /\ t[1].do = "rename" => q[1].do = "unlink"
  <2>1. t # <<>> => 1 < n
    BY <1>1
  <2>2. 1 < n => 2 \in DOMAIN q /\ 2 > 1 /\ 2 - 1 = 1 /\ t[1] = q[2]
    BY <1>1
  <2>3. 1 < n => /\ q[2].do = "unlink" => q[1].do = "write"
                 /\ q[2].do = "rename" => q[1].do = "unlink"
    <3>1. 1 < n => /\ q[2].do = "unlink" /\ 2 > 1 => q[2 - 1].do = "write"
                   /\ q[2].do = "rename" /\ 2 > 1 => q[2 - 1].do = "unlink"
      BY <2>2 DEF Sound
    <3>2. QED
      BY <2>2, <3>1
  <2>4. QED
    BY <2>1, <2>2, <2>3
<1>8. QED
  BY <1>4, <1>5, <1>6, <1>7 DEF t

(* What the steps make of start-on-load, once the first of them is done.   *)
LEMMA TailSets ==
  ASSUME NEW q \in Seq(Steps), q # <<>>
  PROVE  /\ \A starts \in BOOLEAN : Brings(q, starts) => Brings(Tail(q), starts)
         /\ SetsNot(q) <=> ~Sets(q, 1) /\ SetsNot(Tail(q))
         /\ \A starts \in BOOLEAN : Brings(q, starts) /\ Sets(q, 1) /\ SetsNot(Tail(q))
              => (starts <=> q[1].value \in Truths)
<1> DEFINE t == Tail(q)
           n == Len(q)
<1>1. /\ n \in Nat /\ n >= 1 /\ DOMAIN q = 1 .. n /\ DOMAIN t = 1 .. n - 1
      /\ \A i \in 1 .. n - 1 : t[i] = q[i + 1] /\ i + 1 \in DOMAIN q
  BY TailIs
<1> HIDE DEF t
<1>2. \A i \in DOMAIN t : Sets(t, i) <=> Sets(q, i + 1)
  BY <1>1 DEF Sets
<1>3. \A j \in DOMAIN q : j = 1 \/ (j - 1 \in DOMAIN t /\ (j - 1) + 1 = j)
  BY <1>1
<1>4. \A j \in DOMAIN q : j = 1 \/ (j - 1 \in DOMAIN t /\ (Sets(q, j) <=> Sets(t, j - 1)))
  BY <1>2, <1>3
<1>5. SetsNot(q) <=> ~Sets(q, 1) /\ SetsNot(t)
  <2>1. 1 \in DOMAIN q /\ \A i \in DOMAIN t : i + 1 \in DOMAIN q
    BY <1>1
  <2>2. QED
    BY <1>2, <1>4, <2>1 DEF SetsNot
<1>6. ASSUME NEW starts \in BOOLEAN, Brings(q, starts) PROVE Brings(t, starts)
  <2>1. SUFFICES ASSUME NEW i \in DOMAIN t, Sets(t, i),
                        \A j \in DOMAIN t : Sets(t, j) => j <= i
                 PROVE  starts <=> t[i].value \in Truths
    BY DEF Brings
  <2>2. i + 1 \in DOMAIN q /\ Sets(q, i + 1) /\ t[i] = q[i + 1]
    BY <1>1, <1>2, <2>1
  <2>3. \A j \in DOMAIN q : Sets(q, j) => j <= i + 1
    <3>1. ASSUME NEW j \in DOMAIN q, Sets(q, j) PROVE j <= i + 1
      <4>1. CASE j = 1
        BY <1>1, <4>1
      <4>2. CASE j # 1
        <5>1. j - 1 \in DOMAIN t /\ Sets(t, j - 1)
          BY <1>4, <3>1, <4>2
        <5>2. j - 1 <= i
          BY <2>1, <5>1
        <5>3. QED
          BY <1>1, <5>2
      <4>3. QED
        BY <4>1, <4>2
    <3>2. QED
      BY <3>1
  <2>4. QED
    BY <1>6, <2>2, <2>3 DEF Brings
<1>7. ASSUME NEW starts \in BOOLEAN, Brings(q, starts), Sets(q, 1), SetsNot(t)
      PROVE  starts <=> q[1].value \in Truths
  <2>1. 1 \in DOMAIN q
    BY <1>1
  <2>2. \A j \in DOMAIN q : Sets(q, j) => j <= 1
    BY <1>1, <1>4, <1>7 DEF SetsNot
  <2>3. QED
    BY <1>7, <2>1, <2>2 DEF Brings
<1>8. QED
  BY <1>5, <1>6, <1>7 DEF t
(* One call after another.                                                 *)
LEMMA JoinIs ==
  ASSUME NEW p \in Seq(Steps), NEW q \in Seq(Steps)
  PROVE  /\ p \o q \in Seq(Steps) /\ Len(p) \in Nat /\ Len(q) \in Nat
         /\ Len(p \o q) = Len(p) + Len(q) /\ DOMAIN (p \o q) = 1 .. Len(p) + Len(q)
         /\ DOMAIN p = 1 .. Len(p) /\ DOMAIN q = 1 .. Len(q)
         /\ \A i \in DOMAIN p : (p \o q)[i] = p[i]
         /\ \A i \in DOMAIN q : (p \o q)[Len(p) + i] = q[i]
OBVIOUS

(* A call begins with no half-done writing.                                *)
Fresh(q) == q # <<>> => q[1].do \notin {"unlink", "rename"}

(* A call followed by one that begins afresh is in order.                  *)
LEMMA JoinSound ==
  ASSUME NEW p, NEW q, Sound(p), Sound(q), Fresh(q)
  PROVE  Sound(p \o q)
<1> DEFINE r == p \o q
           m == Len(p)
           n == Len(q)
<1>1. /\ r \in Seq(Steps) /\ m \in Nat /\ n \in Nat
      /\ Len(r) = m + n /\ DOMAIN r = 1 .. m + n
      /\ DOMAIN p = 1 .. m /\ DOMAIN q = 1 .. n
      /\ \A i \in DOMAIN p : r[i] = p[i]
      /\ \A i \in DOMAIN q : r[m + i] = q[i]
  BY JoinIs DEF Sound
<1> HIDE DEF r
<1>2. ASSUME NEW i \in 1 .. m
      PROVE  /\ r[i].do = "write" => Then(r, i, "unlink")
             /\ r[i].do = "unlink" => Then(r, i, "rename")
             /\ r[i].do = "unlink" /\ i > 1 => r[i - 1].do = "write"
             /\ r[i].do = "rename" /\ i > 1 => r[i - 1].do = "unlink"
  <2>1. /\ p[i].do = "write" => Then(p, i, "unlink")
        /\ p[i].do = "unlink" => Then(p, i, "rename")
        /\ p[i].do = "unlink" /\ i > 1 => p[i - 1].do = "write"
        /\ p[i].do = "rename" /\ i > 1 => p[i - 1].do = "unlink"
    BY <1>1 DEF Sound
  <2>2. r[i] = p[i] /\ (i > 1 => i - 1 \in 1 .. m)
    BY <1>1
  <2>3. ASSUME NEW do, Then(p, i, do) PROVE Then(r, i, do)
    <3>1. i < m /\ i + 1 \in 1 .. m
      BY <1>1, <2>3 DEF Then
    <3>2. r[i + 1] = p[i + 1] /\ i < Len(r)
      BY <1>1, <3>1
    <3>3. QED
      BY <2>2, <2>3, <3>2 DEF Then
  <2>4. i > 1 => r[i - 1] = p[i - 1]
    BY <1>1, <2>2
  <2>5. QED
    BY <2>1, <2>2, <2>3, <2>4
<1>3. ASSUME NEW k \in 1 .. n
      PROVE  LET i == m + k IN
             /\ r[i].do = "write" => Then(r, i, "unlink")
             /\ r[i].do = "unlink" => Then(r, i, "rename")
             /\ r[i].do = "unlink" /\ i > 1 => r[i - 1].do = "write"
             /\ r[i].do = "rename" /\ i > 1 => r[i - 1].do = "unlink"
  <2> DEFINE i == m + k
  <2>1. /\ q[k].do = "write" => Then(q, k, "unlink")
        /\ q[k].do = "unlink" => Then(q, k, "rename")
        /\ q[k].do = "unlink" /\ k > 1 => q[k - 1].do = "write"
        /\ q[k].do = "rename" /\ k > 1 => q[k - 1].do = "unlink"
    BY <1>1 DEF Sound
  <2>2. r[i] = q[k]
    BY <1>1
  <2>3. ASSUME NEW do, Then(q, k, do) PROVE Then(r, i, do)
    <3>1. k < n /\ k + 1 \in 1 .. n /\ q[k + 1] = Step(do, q[k].setting, q[k].value)
      BY <1>1, <2>3 DEF Then
    <3>2. r[m + (k + 1)] = q[k + 1] /\ m + (k + 1) = i + 1 /\ i < Len(r)
      BY <1>1, <3>1
    <3>3. QED
      BY <2>2, <3>1, <3>2 DEF Then
  <2>4. k > 1 => r[i - 1] = q[k - 1]
    <3>1. k > 1 => k - 1 \in 1 .. n /\ m + (k - 1) = i - 1
      BY <1>1
    <3>2. QED
      BY <1>1, <3>1
  <2>5. k = 1 => q[k].do \notin {"unlink", "rename"}
    BY <1>1 DEF Fresh
  <2>6. k = 1 \/ k > 1
    BY <1>1
  <2> HIDE DEF i
  <2>7. /\ r[i].do = "write" => Then(r, i, "unlink")
        /\ r[i].do = "unlink" => Then(r, i, "rename")
        /\ r[i].do = "unlink" /\ i > 1 => r[i - 1].do = "write"
        /\ r[i].do = "rename" /\ i > 1 => r[i - 1].do = "unlink"
    BY <2>1, <2>2, <2>3, <2>4, <2>5, <2>6
  <2>8. QED
    BY <2>7 DEF i
<1>4. \A i \in DOMAIN r : i \in 1 .. m \/ (i - m \in 1 .. n /\ i = m + (i - m))
  BY <1>1
<1>5. ASSUME NEW i \in DOMAIN r
      PROVE  /\ r[i].do = "write" => Then(r, i, "unlink")
             /\ r[i].do = "unlink" => Then(r, i, "rename")
             /\ r[i].do = "unlink" /\ i > 1 => r[i - 1].do = "write"
             /\ r[i].do = "rename" /\ i > 1 => r[i - 1].do = "unlink"
  <2>1. CASE i \in 1 .. m
    BY <1>2, <2>1
  <2>2. CASE i \notin 1 .. m
    <3>1. PICK k \in 1 .. n : i = m + k
      BY <1>4, <2>2
    <3>2. QED
      BY <1>3, <3>1
  <2>3. QED
    BY <2>1, <2>2
<1>6. Sound(r)
  BY <1>1, <1>5 DEF Sound
<1>7. QED
  BY <1>6 DEF r

(* The last of two calls that sets start-on-load decides.                  *)
LEMMA JoinSets ==
  ASSUME NEW p \in Seq(Steps), NEW q \in Seq(Steps), NEW starts \in BOOLEAN
  PROVE  /\ SetsNot(p) /\ SetsNot(q) => SetsNot(p \o q)
         /\ ~SetsNot(p) \/ ~SetsNot(q) => ~SetsNot(p \o q)
         /\ SetsNot(q) /\ Brings(p, starts) => Brings(p \o q, starts)
         /\ ~SetsNot(q) /\ Brings(q, starts) => Brings(p \o q, starts)
<1> DEFINE r == p \o q
           m == Len(p)
           n == Len(q)
<1>1. /\ r \in Seq(Steps) /\ m \in Nat /\ n \in Nat
      /\ Len(r) = m + n /\ DOMAIN r = 1 .. m + n
      /\ DOMAIN p = 1 .. m /\ DOMAIN q = 1 .. n
      /\ \A i \in DOMAIN p : r[i] = p[i]
      /\ \A i \in DOMAIN q : r[m + i] = q[i]
  BY JoinIs
<1>0. SUFFICES /\ SetsNot(p) /\ SetsNot(q) => SetsNot(r)
               /\ ~SetsNot(p) \/ ~SetsNot(q) => ~SetsNot(r)
               /\ SetsNot(q) /\ Brings(p, starts) => Brings(r, starts)
               /\ ~SetsNot(q) /\ Brings(q, starts) => Brings(r, starts)
  OBVIOUS
<1> HIDE DEF r
<1>2. \A i \in DOMAIN p : i \in DOMAIN r /\ (Sets(r, i) <=> Sets(p, i))
  BY <1>1 DEF Sets
<1>3. \A k \in DOMAIN q : m + k \in DOMAIN r /\ (Sets(r, m + k) <=> Sets(q, k))
  BY <1>1 DEF Sets
<1>4. \A i \in DOMAIN r : i \in DOMAIN p \/ \E k \in DOMAIN q : i = m + k
  <2>1. \A i \in DOMAIN r : i \in 1 .. m \/ (i - m \in 1 .. n /\ i = m + (i - m))
    BY <1>1
  <2>2. QED
    BY <1>1, <2>1
<1>5. SetsNot(p) /\ SetsNot(q) => SetsNot(r)
  BY <1>2, <1>3, <1>4 DEF SetsNot
<1>6. ~SetsNot(p) \/ ~SetsNot(q) => ~SetsNot(r)
  BY <1>2, <1>3 DEF SetsNot
<1>7. ASSUME SetsNot(q), Brings(p, starts) PROVE Brings(r, starts)
  <2>1. SUFFICES ASSUME NEW i \in DOMAIN r, Sets(r, i),
                        \A j \in DOMAIN r : Sets(r, j) => j <= i
                 PROVE  starts <=> r[i].value \in Truths
    BY DEF Brings
  <2>2. i \in DOMAIN p
    BY <1>3, <1>4, <1>7, <2>1 DEF SetsNot
  <2>3. Sets(p, i) /\ r[i] = p[i] /\ \A j \in DOMAIN p : Sets(p, j) => j <= i
    BY <1>1, <1>2, <2>1, <2>2
  <2>4. QED
    BY <1>7, <2>2, <2>3 DEF Brings
<1>8. ASSUME ~SetsNot(q), Brings(q, starts) PROVE Brings(r, starts)
  <2>1. SUFFICES ASSUME NEW i \in DOMAIN r, Sets(r, i),
                        \A j \in DOMAIN r : Sets(r, j) => j <= i
                 PROVE  starts <=> r[i].value \in Truths
    BY DEF Brings
  <2>2. PICK k \in DOMAIN q : Sets(q, k)
    BY <1>8 DEF SetsNot
  <2>3. m + k <= i
    BY <1>3, <2>1, <2>2
  <2>4. i \notin DOMAIN p
    BY <1>1, <2>2, <2>3
  <2>5. PICK l \in DOMAIN q : i = m + l
    BY <1>4, <2>1, <2>4
  <2>6. Sets(q, l) /\ r[i] = q[l]
    BY <1>1, <1>3, <2>1, <2>5
  <2>7. \A j \in DOMAIN q : Sets(q, j) => m + j <= m + l
    BY <1>3, <2>1, <2>5
  <2>8. \A j \in DOMAIN q : Sets(q, j) => j <= l
    BY <1>1, <2>7
  <2>9. QED
    BY <1>8, <2>6, <2>8 DEF Brings
<1>9. QED
  BY <1>5, <1>6, <1>7, <1>8

(* PluginConf_setValue.                                                    *)
LEMMA SaveSteps ==
  ASSUME NEW s \in Settings, NEW v \in Values \cup {Empty}
  PROVE  /\ Sound(Save(s, v)) /\ Fresh(Save(s, v)) /\ Save(s, v) # <<>>
         /\ s # StartOnLoad => SetsNot(Save(s, v))
         /\ s = StartOnLoad => ~SetsNot(Save(s, v)) /\ Brings(Save(s, v), v \in Truths)
         /\ About(Save(s, v), s)
<1> DEFINE q == Save(s, v)
<1>1. /\ q \in Seq(Steps) /\ Len(q) = 3 /\ DOMAIN q = 1 .. 3
      /\ q[1] = Step("write", s, v) /\ q[2] = Step("unlink", s, v) /\ q[3] = Step("rename", s, v)
  BY DEF Save, Step, Steps
<1>2. /\ q[1].do = "write" /\ q[2].do = "unlink" /\ q[3].do = "rename"
      /\ \A i \in 1 .. 3 : q[i].setting = s /\ q[i].value = v
  <2>1. \A i \in 1 .. 3 : i = 1 \/ i = 2 \/ i = 3
    OBVIOUS
  <2>2. QED
    BY <1>1, <2>1 DEF Step
<1> HIDE DEF q
<1>3. \A i \in DOMAIN q : i = 1 \/ i = 2 \/ i = 3
  BY <1>1
<1>4. Sound(q)
  <2>1. Then(q, 1, "unlink") /\ Then(q, 2, "rename")
    BY <1>1, <1>2 DEF Then
  <2>2. QED
    BY <1>1, <1>2, <1>3, <2>1 DEF Sound
<1>5. q # <<>> /\ Fresh(q)
  BY <1>1, <1>2 DEF Fresh
<1>6. \A i \in DOMAIN q : Sets(q, i) <=> i = 3 /\ s = StartOnLoad
  BY <1>1, <1>2, <1>3 DEF Sets
<1>7. s # StartOnLoad => SetsNot(q)
  BY <1>6 DEF SetsNot
<1>8. s = StartOnLoad => ~SetsNot(q) /\ Brings(q, v \in Truths)
  BY <1>1, <1>2, <1>6 DEF SetsNot, Brings
<1>9. About(q, s)
  BY <1>1, <1>2, <1>3 DEF About
<1>10. QED
  BY <1>4, <1>5, <1>7, <1>8, <1>9 DEF q

(* A call of one step.                                                     *)
LEMMA OneStep ==
  ASSUME NEW e \in Steps
  PROVE  <<e>> \in Seq(Steps) /\ Len(<<e>>) = 1 /\ DOMAIN <<e>> = 1 .. 1 /\ <<e>>[1] = e
OBVIOUS

(* A call that touches start-on-load without setting it, and one that sets *)
(* it in the end.                                                          *)
Quiet(q) ==
  /\ Sound(q) /\ Fresh(q) /\ q # <<>> /\ About(q, StartOnLoad) /\ SetsNot(q)
Planned(q, starts) ==
  /\ Sound(q) /\ Fresh(q) /\ q # <<>> /\ About(q, StartOnLoad)
  /\ ~SetsNot(q) /\ Brings(q, starts)

(* Two calls about the same setting.                                       *)
LEMMA JoinAbout ==
  ASSUME NEW p \in Seq(Steps), NEW q \in Seq(Steps), NEW s, About(p, s), About(q, s)
  PROVE  About(p \o q, s)
<1>1. \A i \in DOMAIN (p \o q) :
        i \in 1 .. Len(p) \/ (i - Len(p) \in 1 .. Len(q) /\ i = Len(p) + (i - Len(p)))
  BY JoinIs
<1>2. QED
  BY <1>1, JoinIs DEF About

(* A step that writes nothing.                                             *)
LEMMA OneQuiet ==
  ASSUME NEW e \in Steps, e.do \notin {"write", "unlink", "rename"}, e.setting = StartOnLoad
  PROVE  Quiet(<<e>>)
<1> DEFINE q == <<e>>
<1>1. q \in Seq(Steps) /\ Len(q) = 1 /\ DOMAIN q = 1 .. 1 /\ q[1] = e
  BY OneStep
<1> HIDE DEF q
<1>2. \A i \in DOMAIN q : i = 1
  BY <1>1
<1>3. SetsNot(q) /\ About(q, StartOnLoad)
  BY <1>1, <1>2 DEF Sets, SetsNot, About
<1>4. Sound(q)
  BY <1>1, <1>2 DEF Sound
<1>5. Fresh(q) /\ q # <<>>
  BY <1>1 DEF Fresh
<1>6. QED
  BY <1>3, <1>4, <1>5 DEF q, Quiet

(* The steps of a call between the writing of the file.                    *)
LEMMA AlsoSteps ==
  ASSUME NEW do \in {"turn_on", "turn_off", "load"}
  PROVE  Quiet(Also(do))
<1>1. /\ Step(do, StartOnLoad, Empty) \in Steps
      /\ Step(do, StartOnLoad, Empty).do \notin {"write", "unlink", "rename"}
      /\ Step(do, StartOnLoad, Empty).setting = StartOnLoad
  BY SettingsAssumption DEF Step, Steps
<1>2. QED
  BY <1>1, OneQuiet DEF Also

(* The second call decides what becomes of start-on-load ...               *)
LEMMA PlannedAfter ==
  ASSUME NEW p, NEW q, NEW starts \in BOOLEAN,
         Quiet(p) \/ \E before \in BOOLEAN : Planned(p, before), Planned(q, starts)
  PROVE  Planned(p \o q, starts)
<1>1. /\ Sound(p) /\ Fresh(p) /\ p # <<>> /\ About(p, StartOnLoad)
      /\ Sound(q) /\ Fresh(q) /\ ~SetsNot(q) /\ Brings(q, starts) /\ About(q, StartOnLoad)
  BY DEF Planned, Quiet
<1>2. Sound(p \o q) /\ p \in Seq(Steps) /\ q \in Seq(Steps)
  BY <1>1, JoinSound DEF Sound
<1>3. ~SetsNot(p \o q) /\ Brings(p \o q, starts) /\ About(p \o q, StartOnLoad)
  BY <1>1, <1>2, JoinSets, JoinAbout
<1>4. p \o q # <<>> /\ (p \o q)[1] = p[1]
  BY <1>1, <1>2
<1>5. QED
  BY <1>1, <1>2, <1>3, <1>4 DEF Planned, Fresh

(* ... unless it does not touch it.                                        *)
LEMMA PlannedBefore ==
  ASSUME NEW p, NEW q, NEW starts \in BOOLEAN, Planned(p, starts), Quiet(q)
  PROVE  Planned(p \o q, starts)
<1>1. /\ Sound(p) /\ Fresh(p) /\ p # <<>> /\ About(p, StartOnLoad)
      /\ ~SetsNot(p) /\ Brings(p, starts)
      /\ Sound(q) /\ Fresh(q) /\ SetsNot(q) /\ About(q, StartOnLoad)
  BY DEF Planned, Quiet
<1>2. Sound(p \o q) /\ p \in Seq(Steps) /\ q \in Seq(Steps)
  BY <1>1, JoinSound DEF Sound
<1>3. ~SetsNot(p \o q) /\ Brings(p \o q, starts) /\ About(p \o q, StartOnLoad)
  BY <1>1, <1>2, JoinSets, JoinAbout
<1>4. p \o q # <<>> /\ (p \o q)[1] = p[1]
  BY <1>1, <1>2
<1>5. QED
  BY <1>1, <1>2, <1>3, <1>4 DEF Planned, Fresh

(* What the calls leave to do.                                             *)
LEMMA CallSteps ==
  /\ Planned(TurnOn, TRUE) /\ Planned(TurnOff, FALSE)
  /\ IF enabled THEN Planned(ReloadSteps, TRUE) ELSE Quiet(ReloadSteps)
<1>1. /\ StartOnLoad \in Settings /\ True \in Values \cup {Empty}
      /\ False \in Values \cup {Empty} /\ False \notin Truths
      /\ True \in Truths
  BY SettingsAssumption, ValuesAssumption
<1>2. Planned(Save(StartOnLoad, True), TRUE)
  <2>1. (True \in Truths) = TRUE
    BY <1>1
  <2>2. Planned(Save(StartOnLoad, True), True \in Truths)
    BY <1>1, SaveSteps DEF Planned
  <2>3. QED
    BY <2>1, <2>2
<1>3. Planned(Save(StartOnLoad, False), FALSE)
  <2>1. (False \in Truths) = FALSE
    BY <1>1
  <2>2. Planned(Save(StartOnLoad, False), False \in Truths)
    BY <1>1, SaveSteps DEF Planned
  <2>3. QED
    BY <2>1, <2>2
<1>4. Quiet(Also("turn_on")) /\ Quiet(Also("turn_off")) /\ Quiet(Also("load"))
  BY AlsoSteps
<1>5. Planned(TurnOn, TRUE)
  BY <1>2, <1>4, PlannedAfter DEF TurnOn
<1>6. Planned(TurnOff, FALSE)
  BY <1>3, <1>4, PlannedBefore DEF TurnOff
<1>7. Planned(TurnOff \o Also("load"), FALSE)
  BY <1>4, <1>6, PlannedBefore
<1>8. Planned((TurnOff \o Also("load")) \o TurnOn, TRUE)
  BY <1>5, <1>7, PlannedAfter
<1>9. QED
  BY <1>4, <1>5, <1>6, <1>8 DEF ReloadSteps
-----------------------------------------------------------------------------
(* What has not happened now had not happened before.                      *)
LEMMA UnlessBefore ==
  ASSUME NEW e, mishaps \subseteq mishaps', Unless(e)'
  PROVE  Unless(e)
BY DEF Unless

(* What a mishap in the list tells.                                        *)
LEMMA WithTells ==
  ASSUME NEW m, NEW happens, mishaps' = With(m, happens)
  PROVE  /\ mishaps \subseteq mishaps' /\ mishaps' \subseteq mishaps \cup {m}
         /\ \A e : m \in e /\ Unless(e)' => ~happens
BY DEF With, Unless

(* The steps left after the first one, which is done.                      *)
LEMMA StepDone ==
  ASSUME SettingsIInv, todo # <<>>, todo' = Tail(todo), up' = up
  PROVE  /\ PlanInv' /\ todo[1] \in Steps /\ (\A i \in DOMAIN todo' : todo'[i] \in Steps)
         /\ Sound(todo) /\ up
<1>1. Sound(todo) /\ up /\ todo \in Seq(Steps) /\ \E s \in Settings : About(todo, s)
  BY DEF SettingsIInv, PlanInv, Sound
<1>2. Sound(todo')
  BY <1>1, TailSound
<1>3. \E s \in Settings : About(todo', s)
  BY <1>1, TailAbout
<1>4. todo[1] \in Steps /\ \A i \in DOMAIN todo' : todo'[i] \in Steps
  BY <1>1, <1>2, TailIs DEF Sound
<1>5. QED
  BY <1>1, <1>2, <1>3, <1>4 DEF PlanInv

(* The types of a step that leaves the files, or one that changes no more. *)
LEMMA Typed ==
  ASSUME SettingsIInv
  PROVE  /\ conf \in Files \cup {Missing} /\ newConf \in Files \cup {Missing}
         /\ enabled \in BOOLEAN /\ up \in BOOLEAN /\ wanted \in BOOLEAN
         /\ op \in {"none", "enable", "disable", "reload", "setopt"}
         /\ allowed \subseteq Tables /\ mishaps \subseteq Mishaps
         /\ calls \in 0 .. MaxCalls /\ crashes \in 0 .. MaxCrashes
         /\ MaxCalls \in Nat /\ MaxCrashes \in Nat
BY BoundsAssumption DEF SettingsIInv, FilesSound, SettingsTypeOK

(* A call is taken up when there is nothing left to do.                    *)
LEMMA CallKeeps ==
  ASSUME SettingsIInv, NEW name \in {"enable", "disable", "reload", "setopt"},
         NEW steps, NEW wants \in BOOLEAN, ApiCall(name, steps, wants),
         Sound(steps), Fresh(steps), NEW s \in Settings, About(steps, s),
         SetsNot(steps) => wants = wanted, ~SetsNot(steps) => Brings(steps, wants)
  PROVE  SettingsIInv'
<1>1. /\ up /\ todo = <<>> /\ calls < MaxCalls /\ calls' = calls + 1 /\ crashes' = crashes
      /\ op' = name /\ todo' = steps /\ wanted' = wants
      /\ conf' = conf /\ newConf' = newConf /\ table' = table /\ enabled' = enabled
      /\ up' = up /\ allowed' = allowed /\ mishaps' = mishaps
  BY DEF ApiCall, files, memory
<1>2. todo' # <<>> => todo'[1].do \notin {"unlink", "rename"}
  BY <1>1 DEF Fresh
<1>3. SettingsTypeOK'
  <2>1. calls' \in 0 .. MaxCalls
    BY <1>1, Typed
  <2>2. \A i \in DOMAIN todo' : todo'[i] \in Steps
    BY <1>1 DEF Sound
  <2>3. QED
    BY <1>1, <1>2, <2>1, <2>2, Typed DEF SettingsTypeOK, Steps
<1>4. SettingsKept'
  BY <1>1 DEF SettingsIInv, FilesSound, SettingsKept, Unless
<1>5. PlanInv'
  BY <1>1 DEF PlanInv
<1>6. FileInv'
  BY <1>1, <1>2 DEF SettingsIInv, FileInv, Unless
<1>7. StartInv'
  <2>1. SUFFICES ASSUME Unless({"ambiguous", "lost", "half_reloaded"})'
                 PROVE  /\ Brings(todo', wanted')
                        /\ SetsNot(todo') /\ conf' # Missing => (wanted' <=> Starts(conf'))
    BY <1>2 DEF StartInv
  <2>2. Unless({"ambiguous", "lost", "half_reloaded"})
    BY <1>1, <2>1 DEF Unless
  <2>3. SetsNot(steps) => Brings(steps, wants)
    BY DEF SetsNot, Brings
  <2>4. conf # Missing => (wanted <=> Starts(conf))
    BY <1>1, <2>2 DEF SettingsIInv, StartInv, SetsNot
  <2>5. QED
    BY <1>1, <2>3, <2>4
<1>8. QED
  BY <1>3, <1>4, <1>5, <1>6, <1>7 DEF SettingsIInv, FilesSound

(* The calls of the API, one by one.                                       *)
LEMMA EnableKeeps ==
  ASSUME SettingsIInv, Enable
  PROVE  SettingsIInv'
BY CallSteps, CallKeeps, SettingsAssumption DEF Enable, Planned

(* disable writes false last.                                              *)
LEMMA DisableKeeps ==
  ASSUME SettingsIInv, Disable
  PROVE  SettingsIInv'
BY CallSteps, CallKeeps, SettingsAssumption DEF Disable, Planned

(* reload of an enabled plugin writes true last, of another nothing.       *)
LEMMA ReloadKeeps ==
  ASSUME SettingsIInv, ReloadPlugin
  PROVE  SettingsIInv'
<1>1. (enabled \/ wanted) \in BOOLEAN /\ (enabled => (enabled \/ wanted) = TRUE)
      /\ (~enabled => (enabled \/ wanted) = wanted)
  BY Typed
<1>2. Sound(ReloadSteps) /\ Fresh(ReloadSteps) /\ About(ReloadSteps, StartOnLoad)
  BY CallSteps DEF Planned, Quiet
<1>3. /\ SetsNot(ReloadSteps) => (enabled \/ wanted) = wanted
      /\ ~SetsNot(ReloadSteps) => Brings(ReloadSteps, enabled \/ wanted)
  BY <1>1, CallSteps DEF Planned, Quiet
<1>4. QED
  BY <1>1, <1>2, <1>3, CallKeeps, SettingsAssumption DEF ReloadPlugin

(* setopt wants what it writes, if it writes start-on-load.                *)
LEMMA SetConfigKeeps ==
  ASSUME SettingsIInv, NEW s \in Settings, NEW v \in Values \cup {Empty}, SetConfig(s, v)
  PROVE  SettingsIInv'
<1> DEFINE wants == IF s = StartOnLoad THEN v \in Truths ELSE wanted
<1>1. wants \in BOOLEAN
  <2>1. (v \in Truths) \in BOOLEAN
    OBVIOUS
  <2>2. wanted \in BOOLEAN
    BY Typed
  <2>3. QED
    BY <2>1, <2>2
<1>2. ApiCall("setopt", Save(s, v), wants)
  BY DEF SetConfig
<1>3. /\ SetsNot(Save(s, v)) => wants = wanted
      /\ ~SetsNot(Save(s, v)) => Brings(Save(s, v), wants)
  BY SaveSteps
<1>4. Sound(Save(s, v)) /\ Fresh(Save(s, v)) /\ About(Save(s, v), s)
  BY SaveSteps
<1> HIDE DEF wants
<1>5. QED
  BY <1>1, <1>2, <1>3, <1>4, CallKeeps
(* A file is missing only in the middle of a call.                         *)
LEMMA FileThere ==
  ASSUME SettingsIInv, todo # <<>>, todo[1].do # "rename"
  PROVE  conf # Missing /\ conf \in Files
BY DEF SettingsIInv, FilesSound, SettingsTypeOK, PlanInv, FileInv

(* The new file is what the old one says, but for the setting.             *)
LEMMA WriteKeeps ==
  ASSUME SettingsIInv, WriteNew
  PROVE  SettingsIInv'
<1> DEFINE s == todo[1].setting
           v == todo[1].value
           w == Written(conf, s, v)
<1>1. /\ up /\ todo # <<>> /\ todo[1].do = "write" /\ todo' = Tail(todo)
      /\ conf # Missing /\ newConf' = w
      /\ allowed' = allowed \cup {[said EXCEPT ![s] = v] : said \in allowed}
      /\ mishaps' = With("ambiguous", Ambiguous(conf, s))
      /\ conf' = conf /\ table' = table /\ enabled' = enabled /\ up' = up /\ op' = op
      /\ wanted' = wanted /\ calls' = calls /\ crashes' = crashes
  BY DEF WriteNew, Do, memory, counters
<1>2. /\ PlanInv' /\ todo[1] \in Steps /\ (\A i \in DOMAIN todo' : todo'[i] \in Steps)
      /\ Sound(todo) /\ todo \in Seq(Steps)
  BY <1>1, StepDone DEF Sound
<1>3. s \in Settings /\ v \in Values \cup {Empty}
  BY <1>2 DEF Steps
<1>4. todo' # <<>> /\ todo'[1] = Step("unlink", s, v)
  BY <1>1, <1>2, TailSound
<1>5. todo'[1].do = "unlink" /\ todo'[1].setting = s /\ todo'[1].value = v
  BY <1>4 DEF Step
<1>6. conf \in Files
  BY <1>1, Typed
<1> HIDE DEF s, v
<1>7. w \in Files
  BY <1>3, <1>6, WrittenType
<1>8. /\ mishaps \subseteq mishaps' /\ mishaps' \subseteq mishaps \cup {"ambiguous"}
      /\ \A e : "ambiguous" \in e /\ Unless(e)' => ~Ambiguous(conf, s)
  BY <1>1, WithTells
<1>9. SettingsTypeOK'
  <2>1. allowed' \subseteq Tables
    <3>1. \A said \in allowed : [said EXCEPT ![s] = v] \in Tables
      BY <1>3, Typed DEF Tables
    <3>2. QED
      BY <1>1, <3>1, Typed
  <2>2. mishaps' \subseteq Mishaps
    BY <1>8, Typed DEF Mishaps
  <2>3. QED
    BY <1>1, <1>2, <1>5, <1>7, <2>1, <2>2, Typed DEF SettingsTypeOK, Steps
<1>10. SettingsKept'
  <2>1. Unless({"ambiguous"})' => Unless({"ambiguous"})
    BY <1>8, UnlessBefore
  <2>2. Unless({"ambiguous"}) => Said(conf) \in allowed
    BY <1>1 DEF SettingsIInv, FilesSound, SettingsKept
  <2>3. QED
    BY <1>1, <2>1, <2>2 DEF SettingsKept
<1>11. FileInv'
  <2>1. conf' # Missing
    BY <1>1
  <2>2. Unless({"ambiguous"})' => Said(w) \in allowed' /\ Said(w)[s] = v
    <3>1. SUFFICES ASSUME Unless({"ambiguous"})' PROVE Said(w) \in allowed' /\ Said(w)[s] = v
      OBVIOUS
    <3>2. Said(conf) \in allowed
      BY <1>1, <1>8, <3>1, UnlessBefore DEF SettingsIInv, FilesSound, SettingsKept
    <3>3. Said(w) = [Said(conf) EXCEPT ![s] = v]
      <4>1. ~Ambiguous(conf, s)
        BY <1>8, <3>1
      <4>2. QED
        BY <1>3, <1>6, <4>1, SaidWritten
    <3>4. Said(conf) \in Tables
      BY <1>6, SaidType
    <3>5. QED
      BY <1>1, <1>3, <3>2, <3>3, <3>4 DEF Tables
  <2>3. Unless({"no_content"})' => HasContent(conf')
    BY <1>1, <1>8, UnlessBefore DEF SettingsIInv, FileInv
  <2>4. QED
    BY <1>1, <1>5, <1>7, <2>1, <2>2, <2>3 DEF FileInv
<1>12. StartInv'
  <2>1. SUFFICES ASSUME Unless({"ambiguous", "lost", "half_reloaded"})'
                 PROVE  /\ Brings(todo', wanted')
                        /\ SetsNot(todo') => (wanted' <=> Starts(conf'))
                        /\ IF s = StartOnLoad THEN Starts(w) <=> v \in Truths
                           ELSE wanted' <=> Starts(w)
    BY <1>1, <1>5 DEF StartInv
  <2>2. Unless({"ambiguous", "lost", "half_reloaded"}) /\ ~Ambiguous(conf, s)
    BY <1>8, <2>1, UnlessBefore
  <2>3. Brings(todo, wanted) /\ (SetsNot(todo) => (wanted <=> Starts(conf)))
    BY <1>1, <2>2 DEF SettingsIInv, StartInv
  <2>4. ~Sets(todo, 1)
    BY <1>1 DEF Sets
  <2>5. Brings(todo', wanted) /\ (SetsNot(todo') => SetsNot(todo))
    BY <1>1, <1>2, <2>3, <2>4, TailSets, Typed
  <2>6. Starts(w) <=> IF s = StartOnLoad THEN v \in Truths ELSE Starts(conf)
    BY <1>3, <1>6, <2>2, StartsWritten
  <2>7. s # StartOnLoad => SetsNot(todo)
    <3>1. PICK t \in Settings : About(todo, t)
      BY DEF SettingsIInv, PlanInv
    <3>2. QED
      BY <1>1, <1>2, <3>1, TailAbout DEF s
  <2>8. QED
    BY <1>1, <2>3, <2>5, <2>6, <2>7
<1>13. QED
  BY <1>2, <1>9, <1>10, <1>11, <1>12 DEF SettingsIInv, FilesSound

(* The new file is there when the old one goes.                            *)
LEMMA UnlinkKeeps ==
  ASSUME SettingsIInv, UnlinkOld
  PROVE  SettingsIInv'
<1> DEFINE s == todo[1].setting
           v == todo[1].value
<1>1. /\ up /\ todo # <<>> /\ todo[1].do = "unlink" /\ todo' = Tail(todo)
      /\ conf' = Missing /\ newConf' = newConf /\ allowed' = allowed /\ mishaps' = mishaps
      /\ table' = table /\ enabled' = enabled /\ up' = up /\ op' = op
      /\ wanted' = wanted /\ calls' = calls /\ crashes' = crashes
  BY DEF UnlinkOld, Do, memory, counters
<1>2. /\ PlanInv' /\ todo[1] \in Steps /\ (\A i \in DOMAIN todo' : todo'[i] \in Steps)
      /\ Sound(todo) /\ todo \in Seq(Steps)
  BY <1>1, StepDone DEF Sound
<1>3. todo' # <<>> /\ todo'[1] = Step("rename", s, v)
  BY <1>1, <1>2, TailSound
<1>4. todo'[1].do = "rename" /\ todo'[1].setting = s /\ todo'[1].value = v
  BY <1>3 DEF Step
<1>5. /\ newConf \in Files /\ newConf # Missing
      /\ Unless({"ambiguous"}) => Said(newConf) \in allowed /\ Said(newConf)[s] = v
  BY <1>1, MissingAssumption DEF SettingsIInv, FileInv
<1> HIDE DEF s, v
<1>6. SettingsTypeOK'
  BY <1>1, <1>2, <1>5, Typed DEF SettingsTypeOK, Steps
<1>7. SettingsKept'
  BY <1>1, <1>5 DEF SettingsKept, Unless
<1>8. FileInv'
  BY <1>1, <1>3, <1>4, <1>5 DEF FileInv, Unless
<1>9. StartInv'
  <2>1. SUFFICES ASSUME Unless({"ambiguous", "lost", "half_reloaded"})'
                 PROVE  /\ Brings(todo', wanted')
                        /\ IF s = StartOnLoad THEN Starts(newConf) <=> v \in Truths
                           ELSE wanted' <=> Starts(newConf)
    BY <1>1, <1>4 DEF StartInv
  <2>2. Unless({"ambiguous", "lost", "half_reloaded"})
    BY <1>1, <2>1 DEF Unless
  <2>3. Brings(todo, wanted) /\ IF s = StartOnLoad THEN Starts(newConf) <=> v \in Truths
                                ELSE wanted <=> Starts(newConf)
    BY <1>1, <2>2 DEF SettingsIInv, StartInv, s, v
  <2>4. Brings(todo', wanted)
    BY <1>1, <1>2, <2>3, TailSets, Typed
  <2>5. QED
    BY <1>1, <2>3, <2>4
<1>10. QED
  BY <1>2, <1>6, <1>7, <1>8, <1>9 DEF SettingsIInv, FilesSound

(* The new file takes its place.                                           *)
LEMMA RenameKeeps ==
  ASSUME SettingsIInv, RenameNew
  PROVE  SettingsIInv'
<1> DEFINE s == todo[1].setting
           v == todo[1].value
<1>1. /\ up /\ todo # <<>> /\ todo[1].do = "rename" /\ todo' = Tail(todo)
      /\ newConf # Missing /\ conf' = newConf /\ newConf' = Missing
      /\ allowed' = {said \in allowed : said[s] = v}
      /\ mishaps' = With("no_content", ~HasContent(newConf))
      /\ table' = table /\ enabled' = enabled /\ up' = up /\ op' = op
      /\ wanted' = wanted /\ calls' = calls /\ crashes' = crashes
  BY DEF RenameNew, Do, memory, counters
<1>2. /\ PlanInv' /\ todo[1] \in Steps /\ (\A i \in DOMAIN todo' : todo'[i] \in Steps)
      /\ Sound(todo) /\ todo \in Seq(Steps)
  BY <1>1, StepDone DEF Sound
<1>3. todo' # <<>> => todo'[1].do \notin {"unlink", "rename"}
  BY <1>1, <1>2, TailSound
<1>4. /\ newConf \in Files
      /\ Unless({"ambiguous"}) => Said(newConf) \in allowed /\ Said(newConf)[s] = v
  BY <1>1 DEF SettingsIInv, FileInv
<1> HIDE DEF s, v
<1>5. /\ mishaps \subseteq mishaps' /\ mishaps' \subseteq mishaps \cup {"no_content"}
      /\ \A e : "no_content" \in e /\ Unless(e)' => ~~HasContent(newConf)
  BY <1>1, WithTells
<1>6. SettingsTypeOK'
  <2>1. mishaps' \subseteq Mishaps
    BY <1>5, Typed DEF Mishaps
  <2>2. allowed' \subseteq Tables
    BY <1>1, Typed
  <2>3. QED
    BY <1>1, <1>2, <1>3, <1>4, <2>1, <2>2, Typed DEF SettingsTypeOK, Steps
<1>7. SettingsKept'
  <2>1. Unless({"ambiguous"})' => Unless({"ambiguous"})
    BY <1>5, UnlessBefore
  <2>2. QED
    BY <1>1, <1>4, <2>1 DEF SettingsKept
<1>8. FileInv'
  BY <1>1, <1>3, <1>5 DEF FileInv
<1>9. StartInv'
  <2>1. SUFFICES ASSUME Unless({"ambiguous", "lost", "half_reloaded"})'
                 PROVE  /\ Brings(todo', wanted')
                        /\ SetsNot(todo') => (wanted' <=> Starts(newConf))
    BY <1>1, <1>3 DEF StartInv
  <2>2. Unless({"ambiguous", "lost", "half_reloaded"})
    BY <1>5, <2>1, UnlessBefore
  <2>3. Brings(todo, wanted) /\ IF s = StartOnLoad THEN Starts(newConf) <=> v \in Truths
                                ELSE wanted <=> Starts(newConf)
    BY <1>1, <2>2 DEF SettingsIInv, StartInv, s, v
  <2>4. /\ Brings(todo', wanted)
        /\ Sets(todo, 1) /\ SetsNot(todo') => (wanted <=> v \in Truths)
    BY <1>1, <1>2, <2>3, TailSets, Typed DEF v
  <2>5. Sets(todo, 1) <=> s = StartOnLoad
    BY <1>1 DEF Sets, s
  <2>6. QED
    BY <1>1, <2>3, <2>4, <2>5
<1>10. QED
  BY <1>2, <1>6, <1>7, <1>8, <1>9 DEF SettingsIInv, FilesSound

(* The other steps leave the files alone.                                  *)
LEMMA AloneKeeps ==
  ASSUME SettingsIInv, up, todo # <<>>, todo[1].do \notin {"write", "unlink", "rename"},
         todo' = Tail(todo), up' = up, enabled' \in BOOLEAN, op' = op,
         UNCHANGED <<files, allowed, wanted, mishaps, counters>>
  PROVE  SettingsIInv'
<1>1. /\ conf' = conf /\ newConf' = newConf /\ allowed' = allowed /\ mishaps' = mishaps
      /\ wanted' = wanted /\ calls' = calls /\ crashes' = crashes
  BY DEF files, counters
<1>2. /\ PlanInv' /\ todo[1] \in Steps /\ (\A i \in DOMAIN todo' : todo'[i] \in Steps)
      /\ Sound(todo) /\ todo \in Seq(Steps)
  BY StepDone DEF Sound
<1>3. todo' # <<>> => todo'[1].do \notin {"unlink", "rename"}
  BY <1>2, TailSound
<1>4. conf # Missing
  BY FileThere
<1>5. SettingsTypeOK'
  BY <1>1, <1>2, <1>3, Typed DEF SettingsTypeOK, Steps
<1>6. SettingsKept'
  BY <1>1 DEF SettingsIInv, FilesSound, SettingsKept, Unless
<1>7. FileInv'
  BY <1>1, <1>3, <1>4 DEF SettingsIInv, FileInv, Unless
<1>8. StartInv'
  <2>1. SUFFICES ASSUME Unless({"ambiguous", "lost", "half_reloaded"})'
                 PROVE  /\ Brings(todo', wanted')
                        /\ SetsNot(todo') => (wanted' <=> Starts(conf'))
    BY <1>3 DEF StartInv
  <2>2. Unless({"ambiguous", "lost", "half_reloaded"})
    BY <1>1, <2>1 DEF Unless
  <2>3. Brings(todo, wanted) /\ (SetsNot(todo) => (wanted <=> Starts(conf)))
    BY <1>4, <2>2 DEF SettingsIInv, StartInv
  <2>4. ~Sets(todo, 1)
    BY DEF Sets
  <2>5. Brings(todo', wanted) /\ (SetsNot(todo') => SetsNot(todo))
    BY <1>2, <2>3, <2>4, TailSets, Typed
  <2>6. QED
    BY <1>1, <2>3, <2>5
<1>9. QED
  BY <1>2, <1>5, <1>6, <1>7, <1>8 DEF SettingsIInv, FilesSound
(* Nothing is left of a call that was broken off.                          *)
LEMMA NoSteps ==
  /\ Sound(<<>>) /\ SetsNot(<<>>) /\ (\A starts : Brings(<<>>, starts))
  /\ (\E s \in Settings : About(<<>>, s)) /\ \A i \in DOMAIN <<>> : FALSE
<1>1. <<>> \in Seq(Steps) /\ \A i \in DOMAIN <<>> : FALSE
  OBVIOUS
<1>2. QED
  BY <1>1, SettingsAssumption DEF Sound, SetsNot, Brings, About

(* Plugin_Disable and Plugin_Enable leave the files alone ...              *)
LEMMA SetEnabledKeeps ==
  ASSUME SettingsIInv, NEW do \in {"turn_off", "turn_on"}, NEW value \in BOOLEAN,
         SetEnabled(do, value)
  PROVE  SettingsIInv'
<1>1. /\ up /\ todo # <<>> /\ todo[1].do = do /\ todo' = Tail(todo)
      /\ enabled' = value /\ up' = up /\ op' = op
      /\ UNCHANGED <<files, allowed, wanted, mishaps, counters>>
  BY DEF SetEnabled, Do
<1>2. QED
  BY <1>1, AloneKeeps

(* ... and so does Plugin_Reload.                                          *)
LEMMA LoadKeeps ==
  ASSUME SettingsIInv, LoadConfig
  PROVE  SettingsIInv'
<1>1. /\ up /\ todo # <<>> /\ todo[1].do = "load" /\ todo' = Tail(todo)
      /\ enabled' = Starts(conf) /\ up' = up /\ op' = op
      /\ UNCHANGED <<files, allowed, wanted, mishaps, counters>>
  BY DEF LoadConfig, Do
<1>2. enabled' \in BOOLEAN
  BY <1>1 DEF Starts
<1>3. QED
  BY <1>1, <1>2, AloneKeeps

(* A plugin without content takes the daemon down, and keeps it down.      *)
LEMMA LoadFailsKeeps ==
  ASSUME SettingsIInv, LoadFails
  PROVE  SettingsIInv'
<1>1. /\ up /\ todo # <<>> /\ todo[1].do = "load" /\ ~Loads /\ up' = FALSE /\ todo' = <<>>
      /\ conf' = conf /\ newConf' = newConf /\ enabled' = enabled /\ op' = op
      /\ allowed' = allowed /\ wanted' = wanted /\ mishaps' = mishaps
      /\ calls' = calls /\ crashes' = crashes
  BY DEF LoadFails, files, counters
<1>2. conf # Missing
  BY <1>1, FileThere
<1>3. SettingsTypeOK'
  BY <1>1, NoSteps, Typed DEF SettingsTypeOK
<1>4. SettingsKept'
  BY <1>1 DEF SettingsIInv, FilesSound, SettingsKept, Unless
<1>5. PlanInv'
  BY <1>1, NoSteps DEF PlanInv
<1>6. FileInv'
  BY <1>1, <1>2 DEF SettingsIInv, FileInv, Unless
<1>7. StartInv'
  <2>1. ~Loads'
    BY <1>1 DEF Loads
  <2>2. QED
    BY <1>1, <2>1, NoSteps DEF StartInv
<1>8. QED
  BY <1>3, <1>4, <1>5, <1>6, <1>7 DEF SettingsIInv, FilesSound

(* The daemon is killed at any step.                                       *)
LEMMA CrashKeeps ==
  ASSUME SettingsIInv, Crash
  PROVE  SettingsIInv'
<1>1. /\ up /\ crashes < MaxCrashes /\ crashes' = crashes + 1 /\ up' = FALSE /\ todo' = <<>>
      /\ wanted' = IF /\ conf # Missing /\ ~HalfReloaded
                      /\ \E i \in DOMAIN todo : todo[i].setting = StartOnLoad
                     THEN Starts(conf) ELSE wanted
      /\ mishaps' = mishaps
           \cup {m \in {"lost"} : todo # <<>> /\ todo[1].do = "rename"}
           \cup {m \in {"half_reloaded"} : HalfReloaded}
      /\ conf' = conf /\ newConf' = newConf /\ enabled' = enabled /\ op' = op
      /\ allowed' = allowed /\ calls' = calls
  BY DEF Crash, files
<1>2. mishaps \subseteq mishaps' /\ mishaps' \subseteq Mishaps
  BY <1>1, Typed DEF Mishaps
<1>3. SettingsTypeOK'
  <2>1. crashes' \in 0 .. MaxCrashes
    BY <1>1, Typed
  <2>2. wanted' \in BOOLEAN
    BY <1>1, Typed DEF Starts
  <2>3. QED
    BY <1>1, <1>2, <2>1, <2>2, NoSteps, Typed DEF SettingsTypeOK
<1>4. SettingsKept'
  <2>1. Unless({"ambiguous"})' => Unless({"ambiguous"})
    BY <1>2, UnlessBefore
  <2>2. QED
    BY <1>1, <2>1 DEF SettingsIInv, FilesSound, SettingsKept
<1>5. PlanInv'
  BY <1>1, NoSteps DEF PlanInv
<1>6. FileInv'
  <2>1. conf = Missing => "lost" \in mishaps'
    <3>1. conf = Missing => todo # <<>> /\ todo[1].do = "rename"
      BY <1>1 DEF SettingsIInv, FileInv
    <3>2. QED
      BY <1>1, <3>1
  <2>2. conf # Missing /\ Unless({"no_content"})' => HasContent(conf)
    <3>1. Unless({"no_content"})' => Unless({"no_content"})
      BY <1>2, UnlessBefore
    <3>2. QED
      BY <3>1 DEF SettingsIInv, FileInv
  <2>3. QED
    BY <1>1, <2>1, <2>2 DEF FileInv
<1>7. StartInv'
  <2>1. SUFFICES ASSUME Unless({"ambiguous", "lost", "half_reloaded"})', conf # Missing
                 PROVE  wanted' <=> Starts(conf)
    BY <1>1, NoSteps DEF StartInv
  <2>2. Unless({"ambiguous", "lost", "half_reloaded"}) /\ ~HalfReloaded
    <3>1. ~HalfReloaded
      BY <1>1, <2>1 DEF Unless
    <3>2. QED
      BY <1>2, <2>1, <3>1, UnlessBefore
  <2>3. CASE \E i \in DOMAIN todo : todo[i].setting = StartOnLoad
    BY <1>1, <2>1, <2>2, <2>3
  <2>4. CASE ~\E i \in DOMAIN todo : todo[i].setting = StartOnLoad
    <3>1. SetsNot(todo)
      BY <2>4 DEF SetsNot, Sets
    <3>2. wanted <=> Starts(conf)
      BY <1>1, <2>1, <2>2, <3>1 DEF SettingsIInv, StartInv
    <3>3. wanted' = wanted
      BY <1>1, <2>4
    <3>4. QED
      BY <3>2, <3>3
  <2>5. QED
    BY <2>3, <2>4
<1>8. QED
  BY <1>3, <1>4, <1>5, <1>6, <1>7 DEF SettingsIInv, FilesSound

(* The daemon starts from a file that it can load.                         *)
LEMMA BootStarts ==
  ASSUME SettingsIInv, Boot, Unless({"ambiguous", "lost", "half_reloaded"})
  PROVE  enabled' = wanted /\ (wanted <=> Starts(conf))
<1>1. ~up /\ Loads /\ enabled' = Starts(conf) /\ todo = <<>> /\ conf # Missing
  BY DEF Boot, SettingsIInv, PlanInv, Loads
<1>2. wanted <=> Starts(conf)
  BY <1>1, NoSteps DEF SettingsIInv, StartInv
<1>3. Starts(conf) \in BOOLEAN
  BY DEF Starts
<1>4. QED
  BY <1>1, <1>2, <1>3, Typed

(* What is read at the start is all that the file may say from then on.    *)
LEMMA BootKeeps ==
  ASSUME SettingsIInv, Boot
  PROVE  SettingsIInv'
<1>1. /\ ~up /\ Loads /\ up' = TRUE /\ op' = "none" /\ todo' = <<>>
      /\ enabled' = Starts(conf) /\ allowed' = {Said(conf)}
      /\ conf' = conf /\ newConf' = newConf /\ wanted' = wanted /\ mishaps' = mishaps
      /\ calls' = calls /\ crashes' = crashes
  BY DEF Boot, files, counters
<1>2. conf # Missing /\ conf \in Files /\ HasContent(conf)
  BY <1>1, Typed DEF Loads
<1>3. SettingsTypeOK'
  <2>1. allowed' \subseteq Tables
    BY <1>1, <1>2, SaidType
  <2>2. enabled' \in BOOLEAN
    BY <1>1 DEF Starts
  <2>3. QED
    BY <1>1, <2>1, <2>2, Typed DEF SettingsTypeOK
<1>4. SettingsKept'
  BY <1>1, <1>2 DEF SettingsKept
<1>5. PlanInv'
  BY <1>1, NoSteps DEF PlanInv
<1>6. FileInv'
  BY <1>1, <1>2 DEF FileInv
<1>7. StartInv'
  <2>1. SUFFICES ASSUME Unless({"ambiguous", "lost", "half_reloaded"})'
                 PROVE  wanted <=> Starts(conf)
    BY <1>1, NoSteps DEF StartInv
  <2>2. Unless({"ambiguous", "lost", "half_reloaded"})
    BY <1>1, <2>1 DEF Unless
  <2>3. QED
    BY <2>2, BootStarts
<1>8. QED
  BY <1>3, <1>4, <1>5, <1>6, <1>7 DEF SettingsIInv, FilesSound

(* A file as it was installed.                                             *)
LEMMA SettingsStart ==
  ASSUME SettingsInit
  PROVE  SettingsIInv
<1>1. /\ conf \in BoundedSeq(Line, MaxLines) /\ HasContent(conf) /\ newConf = Missing
      /\ enabled = Starts(conf) /\ up = TRUE /\ op = "none" /\ todo = <<>>
      /\ allowed = {Said(conf)} /\ wanted = Starts(conf)
      /\ mishaps = {} /\ calls = 0 /\ crashes = 0
  BY DEF SettingsInit
<1>2. conf \in Files
  BY <1>1 DEF BoundedSeq, SeqOf, Files
<1>3. conf # Missing
  BY <1>2, MissingAssumption
<1>4. SettingsTypeOK
  <2>1. allowed \subseteq Tables
    BY <1>1, <1>2, SaidType
  <2>2. enabled \in BOOLEAN /\ wanted \in BOOLEAN
    BY <1>1 DEF Starts
  <2>3. calls \in 0 .. MaxCalls /\ crashes \in 0 .. MaxCrashes
    BY <1>1, BoundsAssumption
  <2>4. QED
    BY <1>1, <1>2, <2>1, <2>2, <2>3 DEF SettingsTypeOK, Mishaps
<1>5. SettingsKept
  BY <1>1, <1>3 DEF SettingsKept
<1>6. PlanInv
  BY <1>1, NoSteps DEF PlanInv
<1>7. FileInv
  BY <1>1, <1>3 DEF FileInv
<1>8. StartInv
  BY <1>1, NoSteps DEF StartInv
<1>9. QED
  BY <1>4, <1>5, <1>6, <1>7, <1>8 DEF SettingsIInv, FilesSound

(* Every step keeps the invariant.                                         *)
LEMMA SettingsStep ==
  ASSUME SettingsIInv, [SettingsNext]_settingsVars
  PROVE  SettingsIInv'
<1>1. CASE Enable \/ Disable \/ ReloadPlugin
  BY <1>1, EnableKeeps, DisableKeeps, ReloadKeeps
<1>2. CASE \E s \in Settings, v \in Values \cup {Empty} : SetConfig(s, v)
  BY <1>2, SetConfigKeeps
<1>3. CASE WriteNew \/ UnlinkOld \/ RenameNew
  BY <1>3, WriteKeeps, UnlinkKeeps, RenameKeeps
<1>4. CASE SetEnabled("turn_off", FALSE) \/ SetEnabled("turn_on", TRUE)
  BY <1>4, SetEnabledKeeps
<1>5. CASE LoadConfig \/ LoadFails
  BY <1>5, LoadKeeps, LoadFailsKeeps
<1>6. CASE Crash \/ Boot
  BY <1>6, CrashKeeps, BootKeeps
<1>7. CASE UNCHANGED settingsVars
  <2>1. /\ conf' = conf /\ newConf' = newConf /\ enabled' = enabled /\ up' = up
        /\ op' = op /\ todo' = todo /\ allowed' = allowed /\ wanted' = wanted
        /\ mishaps' = mishaps /\ calls' = calls /\ crashes' = crashes
    BY <1>7 DEF settingsVars, files, memory, counters
  <2>2. SettingsTypeOK'
    BY <2>1 DEF SettingsIInv, FilesSound, SettingsTypeOK
  <2>3. SettingsKept'
    BY <2>1 DEF SettingsIInv, FilesSound, SettingsKept, Unless
  <2>4. PlanInv'
    BY <2>1 DEF SettingsIInv, PlanInv
  <2>5. FileInv'
    BY <2>1 DEF SettingsIInv, FileInv, Unless
  <2>6. StartInv'
    <3>1. Loads' <=> Loads
      BY <2>1 DEF Loads
    <3>2. QED
      BY <2>1, <3>1 DEF SettingsIInv, StartInv, Unless
  <2>7. QED
    BY <2>2, <2>3, <2>4, <2>5, <2>6 DEF SettingsIInv, FilesSound
<1>8. QED
  BY <1>1, <1>2, <1>3, <1>4, <1>5, <1>6, <1>7 DEF SettingsNext

(* The inductive invariant holds in every behaviour.                       *)
THEOREM SettingsIInvAlways == SettingsSpec => []SettingsIInv
<1>1. SettingsInit => SettingsIInv
  BY SettingsStart
<1>2. SettingsIInv /\ [SettingsNext]_settingsVars => SettingsIInv'
  BY SettingsStep
<1>3. QED
  BY <1>1, <1>2, PTL DEF SettingsSpec

(* configReader.c and the API calls: whatever was called, and wherever the *)
(* daemon was killed, every setting is as it was or as it was asked for,   *)
(* in plugin.conf or else in plugin.new.conf, unless names were ambiguous. *)
THEOREM FilesSoundAlways == SettingsSpec => []FilesSound
<1>1. SettingsIInv => FilesSound
  BY DEF SettingsIInv
<1>2. QED
  BY <1>1, SettingsIInvAlways, PTL

(* pluginConf.c, main.c: the daemon can always start again from the file,  *)
(* unless it was killed when there was none, or a call took the content.   *)
THEOREM BootsAgainAlways == SettingsSpec => []BootsAgain
<1>1. SettingsIInv => BootsAgain
  <2>1. SUFFICES ASSUME SettingsIInv, Idle \/ ~up, Unless({"lost", "no_content"})
                 PROVE  Loads
    BY DEF BootsAgain
  <2>2. "lost" \notin mishaps /\ Unless({"no_content"})
    BY <2>1 DEF Unless
  <2>3. conf # Missing
    BY <2>1, <2>2 DEF SettingsIInv, FileInv, Idle
  <2>4. QED
    BY <2>1, <2>2, <2>3 DEF SettingsIInv, FileInv, Loads
<1>2. QED
  BY <1>1, SettingsIInvAlways, PTL

(* plugin.c, pluginConf.c: a start of the daemon starts the plugins that   *)
(* the last call that says so wanted, and no other.                        *)
THEOREM BootFollowsCommandHolds == SettingsSpec => BootFollowsCommand
<1>1. ASSUME SettingsIInv, SettingsNext, ~up, up',
             Unless({"ambiguous", "lost", "half_reloaded"})
      PROVE  enabled' = wanted
  <2>1. Boot
    BY <1>1 DEF SettingsNext, Enable, Disable, ReloadPlugin, SetConfig, ApiCall, WriteNew,
                UnlinkOld, RenameNew, SetEnabled, LoadConfig, LoadFails, Crash, Do
  <2>2. QED
    BY <1>1, <2>1, BootStarts
<1>2. SettingsIInv /\ [SettingsNext]_settingsVars
        => [~up /\ up' /\ Unless({"ambiguous", "lost", "half_reloaded"})
              => enabled' = wanted]_settingsVars
  BY <1>1
<1>3. QED
  BY <1>2, SettingsIInvAlways, PTL DEF SettingsSpec, BootFollowsCommand

-----------------------------------------------------------------------------
(* The hash table.  What holds at first and is kept by each step holds     *)
(* after all of them ...                                                   *)
LEMMA UpTo ==
  ASSUME NEW n \in Nat, NEW P, 0 \in P, \A i \in 1 .. n : i - 1 \in P => i \in P
  PROVE  0 .. n \subseteq P
<1> DEFINE D == {i \in 0 .. n : i \notin P}
<1>1. SUFFICES ASSUME D # {} PROVE FALSE
  OBVIOUS
<1>2. PICK i \in D : \A j \in D : i <= j
  <2>1. D \subseteq Nat
    OBVIOUS
  <2> HIDE DEF D
  <2>2. QED
    BY <1>1, <2>1, LeastNat
<1>3. i \in 1 .. n /\ i - 1 \in 0 .. n /\ i - 1 < i
  BY <1>2
<1>4. i - 1 \in P
  BY <1>2, <1>3
<1>5. QED
  BY <1>2, <1>3, <1>4

(* ... and a value that is changed step by step has one after each.        *)
Runs(h, n, R, base, f) ==
  h \in [0 .. n -> R] /\ h[0] = base /\ \A i \in 1 .. n : h[i] = f[i][h[i - 1]]

LEMMA StepByStep ==
  ASSUME NEW R, NEW base, base \in R, NEW n \in Nat, NEW f, f \in [1 .. n -> [R -> R]]
  PROVE  \E h : Runs(h, n, R, base, f)
<1> DEFINE Run(m, h) ==
             h \in [0 .. m -> R] /\ h[0] = base /\ \A i \in 1 .. m : h[i] = f[i][h[i - 1]]
           P == {m \in 0 .. n : \E h : Run(m, h)}
<1>1. 0 \in P
  <2>1. Run(0, [i \in 0 .. 0 |-> base])
    OBVIOUS
  <2> HIDE DEF Run
  <2>2. QED
    BY <2>1
<1>2. ASSUME NEW m \in 1 .. n, m - 1 \in P PROVE m \in P
  <2>1. PICK h : Run(m - 1, h)
    BY <1>2
  <2> DEFINE e == f[m][h[m - 1]]
             g == [i \in 0 .. m |-> IF i = m THEN e ELSE h[i]]
  <2>2. m - 1 \in 0 .. m - 1 /\ h[m - 1] \in R /\ e \in R
    BY <2>1
  <2> HIDE DEF e
  <2>3. g \in [0 .. m -> R] /\ g[0] = base
    BY <2>1, <2>2
  <2>4. ASSUME NEW i \in 1 .. m PROVE g[i] = f[i][g[i - 1]]
    <3>1. i - 1 \in 0 .. m /\ i - 1 # m /\ g[i - 1] = h[i - 1]
      OBVIOUS
    <3>2. CASE i = m
      BY <3>1, <3>2 DEF e
    <3>3. CASE i # m
      <4>1. i \in 1 .. m - 1
        BY <3>3
      <4>2. QED
        BY <2>1, <3>1, <3>3, <4>1
    <3>4. QED
      BY <3>2, <3>3
  <2>5. Run(m, g)
    BY <2>3, <2>4
  <2> HIDE DEF Run, g
  <2>6. QED
    BY <2>5
<1>3. n \in P
  <2> HIDE DEF P
  <2>1. 0 .. n \subseteq P
    BY <1>1, <1>2, UpTo
  <2>2. QED
    BY <2>1
<1>4. PICK h : Run(n, h)
  BY <1>3
<1>5. QED
  BY <1>4 DEF Runs

(* hash1 takes the value modulo the size.                                  *)
HashInTable ==
  \A k \in Keys, size \in Nat \ {0}, last \in Nat : Hash(k, size, last) \in 0 .. size - 1

Entries == [key : Keys, value : Values]
Slots == Entries \cup {NoEntry}
TableSet == [size : Nat, count : Nat, entries : UNION {[0 .. n - 1 -> Slots] : n \in Nat}]

(* A table in which every entry is where it is looked for.                 *)
Well(t) ==
  /\ t \in TableSet /\ t.size >= TableSize
  /\ DOMAIN t.entries = 0 .. t.size - 1
  /\ \A p \in 0 .. t.size - 1 : t.entries[p] # NoEntry => GetEntry(t, t.entries[p].key) = p
SoundTable(t) == Well(t) /\ t.count <= t.size

(* The places that are looked at are in the table.                         *)
LEMMA PlacesIs ==
  ASSUME HashInTable, NEW size \in Nat \ {0}, NEW key \in Keys
  PROVE  /\ DOMAIN Places(size, key) = 1 .. 6
         /\ \A i \in 1 .. 6 : Places(size, key)[i] \in 0 .. size - 1
<1> DEFINE After(place, attempt) == Hash(key, size, place + 2 * attempt)
           p0 == Hash(key, size, 0)
           p1 == After(p0, 0)
           p2 == After(p1, 1)
           p3 == After(p2, 2)
           p4 == After(p3, 3)
           p5 == After(p4, 4)
<1>1. \A place \in 0 .. size - 1, attempt \in Nat : After(place, attempt) \in 0 .. size - 1
  <2>1. \A place \in 0 .. size - 1, attempt \in Nat : place + 2 * attempt \in Nat
    OBVIOUS
  <2>2. QED
    BY <2>1 DEF HashInTable
<1>2. p0 \in 0 .. size - 1
  BY DEF HashInTable
<1>3. Places(size, key) = <<p0, p1, p2, p3, p4, p5>>
  BY DEF Places
<1> HIDE DEF After, p0
<1>4. p1 \in 0 .. size - 1
  BY <1>1, <1>2
<1> HIDE DEF p1
<1>5. p2 \in 0 .. size - 1
  BY <1>1, <1>4
<1> HIDE DEF p2
<1>6. p3 \in 0 .. size - 1
  BY <1>1, <1>5
<1> HIDE DEF p3
<1>7. p4 \in 0 .. size - 1
  BY <1>1, <1>6
<1> HIDE DEF p4
<1>8. p5 \in 0 .. size - 1
  BY <1>1, <1>7
<1> HIDE DEF p5
<1>9. \A i \in 1 .. 6 : i = 1 \/ i = 2 \/ i = 3 \/ i = 4 \/ i = 5 \/ i = 6
  OBVIOUS
<1>10. DOMAIN <<p0, p1, p2, p3, p4, p5>> = 1 .. 6
  OBVIOUS
<1>11. \A i \in 1 .. 6 : <<p0, p1, p2, p3, p4, p5>>[i] \in 0 .. size - 1
  BY <1>2, <1>4, <1>5, <1>6, <1>7, <1>8, <1>9
<1>12. QED
  BY <1>3, <1>10, <1>11

(* The first of the places that fits a key.                                *)
First(t, key, i) ==
  /\ i \in 1 .. 6 /\ Fits(t, key, Places(t.size, key)[i])
  /\ \A j \in 1 .. 6 : j < i => ~Fits(t, key, Places(t.size, key)[j])

(* HashTable_getEntry finds that one, if there is one.                     *)
LEMMA GetEntryIs ==
  ASSUME HashInTable, NEW t, t.size \in Nat \ {0}, NEW key \in Keys
  PROVE  /\ \A i : First(t, key, i) => GetEntry(t, key) = Places(t.size, key)[i]
         /\ GetEntry(t, key) # NoPlace =>
              /\ GetEntry(t, key) \in 0 .. t.size - 1
              /\ \E i : First(t, key, i) /\ GetEntry(t, key) = Places(t.size, key)[i]
         /\ GetEntry(t, key) = NoPlace =>
              \A i \in 1 .. 6 : ~Fits(t, key, Places(t.size, key)[i])
<1> DEFINE places == Places(t.size, key)
           F == {i \in 1 .. 6 : Fits(t, key, places[i])}
<1>1. DOMAIN places = 1 .. 6 /\ \A i \in 1 .. 6 : places[i] \in 0 .. t.size - 1
  BY PlacesIs
<1>2. GetEntry(t, key) = IF F = {} THEN NoPlace ELSE places[Min(F)]
  BY <1>1 DEF GetEntry
<1>3. F # {} => Min(F) \in F /\ \A i \in F : Min(F) <= i
  <2>1. F \subseteq 1 .. 6 /\ 6 \in Nat
    OBVIOUS
  <2> HIDE DEF F
  <2>2. QED
    BY <2>1, MinIs
<1>4. F # {} => First(t, key, Min(F))
  <2>1. SUFFICES ASSUME F # {} PROVE First(t, key, Min(F))
    OBVIOUS
  <2> DEFINE m == Min(F)
  <2>2. m \in F /\ \A i \in F : m <= i
    BY <1>3, <2>1
  <2> HIDE DEF m
  <2>3. First(t, key, m)
    BY <2>2 DEF First
  <2>4. QED
    BY <2>3 DEF m
<1>5. \A p \in 0 .. t.size - 1 : p # NoPlace
  BY DEF NoPlace
<1>6. ASSUME NEW i, First(t, key, i) PROVE F # {} /\ i = Min(F)
  <2>1. i \in F
    BY <1>6 DEF First
  <2> DEFINE m == Min(F)
  <2>2. m \in F /\ m <= i
    BY <1>3, <2>1
  <2> HIDE DEF m
  <2>3. ~(m < i)
    BY <1>6, <2>2 DEF First
  <2>4. QED
    BY <2>1, <2>2, <2>3 DEF m
<1>7. F # {} => places[Min(F)] \in 0 .. t.size - 1
  BY <1>1, <1>3
<1> HIDE DEF F
<1>8. \A i : First(t, key, i) => GetEntry(t, key) = places[i]
  BY <1>2, <1>6
<1>9. GetEntry(t, key) = NoPlace => F = {}
  BY <1>2, <1>5, <1>7
<1>10. GetEntry(t, key) # NoPlace =>
         GetEntry(t, key) \in 0 .. t.size - 1 /\ \E i : First(t, key, i) /\ GetEntry(t, key) = places[i]
  BY <1>2, <1>4, <1>7
<1>11. QED
  BY <1>8, <1>9, <1>10 DEF F

(* What a table is made of.                                                *)
LEMMA WellParts ==
  ASSUME NEW t, Well(t)
  PROVE  /\ t.size \in Nat \ {0} /\ t.count \in Nat /\ TableSize \in Nat \ {0}
         /\ t.entries \in [0 .. t.size - 1 -> Slots]
         /\ \A p \in 0 .. t.size - 1 : t.entries[p] # NoEntry =>
              /\ t.entries[p] \in Entries /\ t.entries[p].key \in Keys
              /\ GetEntry(t, t.entries[p].key) = p
<1>1. TableSize \in Nat \ {0}
  BY TableAssumption DEF GrowSize
<1>2. t.size \in Nat \ {0} /\ t.count \in Nat
  BY <1>1 DEF Well, TableSet
<1>3. PICK n \in Nat : t.entries \in [0 .. n - 1 -> Slots]
  BY DEF Well, TableSet
<1>4. t.entries \in [0 .. t.size - 1 -> Slots]
  BY <1>3 DEF Well
<1>5. \A p \in 0 .. t.size - 1 : t.entries[p] # NoEntry =>
        t.entries[p] \in Entries /\ t.entries[p].key \in Keys
  BY <1>4 DEF Slots, Entries
<1>6. QED
  BY <1>1, <1>2, <1>4, <1>5 DEF Well

(* HashTable_find finds the one entry of the key, wherever it is.          *)
LEMMA FindIs ==
  ASSUME HashInTable, NEW t, Well(t), NEW key \in Keys
  PROVE  /\ \A p \in 0 .. t.size - 1 :
              t.entries[p] # NoEntry /\ t.entries[p].key = key => FindEntry(t, key) = t.entries[p]
         /\ FindEntry(t, key) # NoEntry =>
              \E p \in 0 .. t.size - 1 : t.entries[p] = FindEntry(t, key) /\ t.entries[p].key = key
<1>1. /\ t.size \in Nat \ {0}
      /\ \A p \in 0 .. t.size - 1 : t.entries[p] # NoEntry => GetEntry(t, t.entries[p].key) = p
  BY WellParts
<1>2. \A p \in 0 .. t.size - 1 : p # NoPlace
  BY DEF NoPlace
<1>3. \A p \in 0 .. t.size - 1 :
        t.entries[p] # NoEntry /\ t.entries[p].key = key => FindEntry(t, key) = t.entries[p]
  BY <1>1, <1>2 DEF FindEntry
<1>4. ASSUME FindEntry(t, key) # NoEntry
      PROVE  \E p \in 0 .. t.size - 1 : t.entries[p] = FindEntry(t, key) /\ t.entries[p].key = key
  <2> DEFINE p == GetEntry(t, key)
  <2>1. p # NoPlace /\ FindEntry(t, key) = t.entries[p]
    BY <1>4 DEF FindEntry
  <2>2. p \in 0 .. t.size - 1 /\ \E i : First(t, key, i) /\ p = Places(t.size, key)[i]
    BY <1>1, <2>1, GetEntryIs
  <2>3. Fits(t, key, p)
    BY <2>2 DEF First
  <2>4. t.entries[p].key = key
    BY <1>4, <2>1, <2>3 DEF Fits
  <2> HIDE DEF p
  <2>5. QED
    BY <2>1, <2>2, <2>4
<1>5. QED
  BY <1>3, <1>4

(* An empty table.                                                         *)
LEMMA NewWell ==
  ASSUME HashInTable, NEW size \in Nat, size >= TableSize
  PROVE  /\ Well(NewTable(size)) /\ NewTable(size).count = 0 /\ NewTable(size).size = size
         /\ \A key \in Keys : FindEntry(NewTable(size), key) = NoEntry
<1> DEFINE t == NewTable(size)
<1>1. /\ t.size = size /\ t.count = 0 /\ t.entries = [p \in 0 .. size - 1 |-> NoEntry]
      /\ t = [size |-> t.size, count |-> t.count, entries |-> t.entries]
  BY DEF NewTable
<1> HIDE DEF t
<1>2. t.entries \in [0 .. size - 1 -> Slots] /\ \A p \in 0 .. size - 1 : t.entries[p] = NoEntry
  BY <1>1 DEF Slots
<1>3. t \in TableSet
  BY <1>1, <1>2 DEF TableSet
<1>4. Well(t)
  BY <1>1, <1>2, <1>3 DEF Well
<1>5. \A key \in Keys : FindEntry(t, key) = NoEntry
  BY <1>1, <1>2, <1>4, FindIs
<1>6. QED
  BY <1>1, <1>4, <1>5 DEF t

(* What is put in its place is found there, and the others are still found *)
(* in theirs: a place that is taken is not free, and was not passed over   *)
(* for any other key.                                                      *)
LEMMA PutWell ==
  ASSUME HashInTable, NEW t, Well(t), NEW e \in Entries,
         GetEntry(t, e.key) # NoPlace
  PROVE  LET u == Put(t, GetEntry(t, e.key), e) IN
           /\ Well(u) /\ u.size = t.size
           /\ u.count = IF t.entries[GetEntry(t, e.key)] = NoEntry THEN t.count + 1 ELSE t.count
           /\ \A key \in Keys :
                FindEntry(u, key) = IF key = e.key THEN e ELSE FindEntry(t, key)
<1> DEFINE p == GetEntry(t, e.key)
           u == Put(t, p, e)
<1>0. SUFFICES /\ Well(u) /\ u.size = t.size
               /\ u.count = IF t.entries[p] = NoEntry THEN t.count + 1 ELSE t.count
               /\ \A key \in Keys :
                    FindEntry(u, key) = IF key = e.key THEN e ELSE FindEntry(t, key)
  OBVIOUS
<1>1. /\ t.size \in Nat \ {0} /\ t.count \in Nat /\ t.entries \in [0 .. t.size - 1 -> Slots]
      /\ \A q \in 0 .. t.size - 1 : t.entries[q] # NoEntry =>
           t.entries[q].key \in Keys /\ GetEntry(t, t.entries[q].key) = q
  BY WellParts
<1>2. e.key \in Keys /\ e # NoEntry /\ e \in Slots
  BY TableAssumption DEF Entries, Slots
<1>3. p \in 0 .. t.size - 1 /\ \E i : First(t, e.key, i) /\ p = Places(t.size, e.key)[i]
  BY <1>1, <1>2, GetEntryIs
<1>4. t \in TableSet
  BY DEF Well
<1>5. u = [t EXCEPT !.entries = [t.entries EXCEPT ![p] = e],
                    !.count = IF t.entries[p] = NoEntry THEN t.count + 1 ELSE t.count]
  BY DEF Put
<1> HIDE DEF p, u
<1>6. /\ u.size = t.size /\ u.entries = [t.entries EXCEPT ![p] = e]
      /\ u.count = IF t.entries[p] = NoEntry THEN t.count + 1 ELSE t.count
  BY <1>4, <1>5 DEF TableSet
<1>7. u.entries \in [0 .. t.size - 1 -> Slots]
  BY <1>1, <1>2, <1>3, <1>6
<1>8. \A q \in 0 .. t.size - 1 : u.entries[q] = IF q = p THEN e ELSE t.entries[q]
  BY <1>1, <1>6
<1>9. u \in TableSet
  <2>1. u.entries \in UNION {[0 .. n - 1 -> Slots] : n \in Nat}
    BY <1>1, <1>7
  <2>2. u.count \in Nat
    BY <1>1, <1>6
  <2>3. u = [size |-> u.size, count |-> u.count, entries |-> u.entries]
    BY <1>4, <1>5 DEF TableSet
  <2>4. QED
    BY <1>1, <1>6, <2>1, <2>2, <2>3 DEF TableSet
<1>10. Fits(t, e.key, p)
  BY <1>3 DEF First
<1>11. ASSUME NEW key \in Keys, NEW q \in 0 .. t.size - 1, q # p \/ key # e.key,
              ~Fits(t, key, q)
       PROVE  ~Fits(u, key, q)
  BY <1>2, <1>8, <1>11 DEF Fits
<1>12. GetEntry(u, e.key) = p
  <2>1. PICK i : First(t, e.key, i) /\ p = Places(t.size, e.key)[i]
    BY <1>3
  <2>2. \A j \in 1 .. 6 : Places(t.size, e.key)[j] \in 0 .. t.size - 1
    BY <1>1, <1>2, PlacesIs
  <2>3. Fits(u, e.key, p)
    BY <1>3, <1>8 DEF Fits
  <2>4. \A j \in 1 .. 6 : j < i => ~Fits(u, e.key, Places(t.size, e.key)[j])
    <3>1. ASSUME NEW j \in 1 .. 6, j < i PROVE ~Fits(u, e.key, Places(t.size, e.key)[j])
      <4>1. ~Fits(t, e.key, Places(t.size, e.key)[j])
        BY <2>1, <3>1 DEF First
      <4>2. Places(t.size, e.key)[j] # p
        BY <1>10, <4>1
      <4>3. QED
        BY <1>2, <1>11, <2>2, <4>1, <4>2
    <3>2. QED
      BY <3>1
  <2>5. First(u, e.key, i)
    BY <1>6, <2>1, <2>3, <2>4 DEF First
  <2>6. QED
    BY <1>1, <1>2, <1>6, <2>1, <2>5, GetEntryIs
<1>13. ASSUME NEW q \in 0 .. t.size - 1, q # p, t.entries[q] # NoEntry
       PROVE  t.entries[q].key # e.key /\ GetEntry(u, t.entries[q].key) = q
  <2> DEFINE k == t.entries[q].key
  <2>1. k \in Keys /\ GetEntry(t, k) = q
    BY <1>1, <1>13
  <2> HIDE DEF k
  <2>2. k # e.key
    BY <1>13, <2>1 DEF p
  <2>3. q # NoPlace
    BY DEF NoPlace
  <2>4. PICK i : First(t, k, i) /\ q = Places(t.size, k)[i]
    BY <1>1, <2>1, <2>3, GetEntryIs
  <2>5. \A j \in 1 .. 6 : Places(t.size, k)[j] \in 0 .. t.size - 1
    BY <1>1, <2>1, PlacesIs
  <2>6. Fits(u, k, q)
    BY <1>8, <1>13, <2>4 DEF Fits, First
  <2>7. \A j \in 1 .. 6 : j < i => ~Fits(u, k, Places(t.size, k)[j])
    BY <1>11, <2>1, <2>2, <2>4, <2>5 DEF First
  <2>8. First(u, k, i)
    BY <1>6, <2>4, <2>6, <2>7 DEF First
  <2>9. GetEntry(u, k) = q
    BY <1>1, <1>6, <2>1, <2>4, <2>8, GetEntryIs
  <2>10. QED
    BY <2>2, <2>9 DEF k
<1>14. Well(u)
  <2>1. \A q \in 0 .. u.size - 1 : u.entries[q] # NoEntry => GetEntry(u, u.entries[q].key) = q
    BY <1>6, <1>8, <1>12, <1>13
  <2>2. u.size >= TableSize
    BY <1>1, <1>6 DEF Well
  <2>3. DOMAIN u.entries = 0 .. u.size - 1
    BY <1>6, <1>7
  <2>4. QED
    BY <1>9, <2>1, <2>2, <2>3 DEF Well
<1>15. ASSUME NEW key \in Keys
       PROVE  FindEntry(u, key) = IF key = e.key THEN e ELSE FindEntry(t, key)
  <2>0. \A q \in 0 .. t.size - 1 :
          u.entries[q] # NoEntry /\ u.entries[q].key = key => FindEntry(u, key) = u.entries[q]
    <3>1. \A q \in 0 .. u.size - 1 :
            u.entries[q] # NoEntry /\ u.entries[q].key = key => FindEntry(u, key) = u.entries[q]
      BY <1>14, FindIs
    <3>2. QED
      BY <1>6, <3>1
  <2>1. CASE key = e.key
    <3>1. u.entries[p] = e
      BY <1>3, <1>8
    <3>2. QED
      BY <1>2, <1>3, <2>0, <2>1, <3>1
  <2>2. CASE key # e.key
    <3>1. ASSUME NEW q \in 0 .. t.size - 1, u.entries[q] # NoEntry, u.entries[q].key = key
          PROVE  t.entries[q] = u.entries[q]
      BY <1>8, <2>2, <3>1
    <3>2. ASSUME NEW q \in 0 .. t.size - 1, t.entries[q] # NoEntry, t.entries[q].key = key
          PROVE  u.entries[q] = t.entries[q]
      <4>1. q # p
        BY <1>10, <2>2, <3>2 DEF Fits
      <4>2. QED
        BY <1>8, <4>1
    <3>3. FindEntry(u, key) # NoEntry => FindEntry(t, key) = FindEntry(u, key)
      <4>1. SUFFICES ASSUME FindEntry(u, key) # NoEntry
                     PROVE  FindEntry(t, key) = FindEntry(u, key)
        OBVIOUS
      <4>2. PICK q \in 0 .. u.size - 1 : u.entries[q] = FindEntry(u, key) /\ u.entries[q].key = key
        BY <1>14, <4>1, FindIs
      <4>3. t.entries[q] = u.entries[q]
        BY <1>6, <3>1, <4>1, <4>2
      <4>4. QED
        BY <1>6, <4>1, <4>2, <4>3, FindIs
    <3>4. FindEntry(t, key) # NoEntry => FindEntry(u, key) = FindEntry(t, key)
      <4>1. SUFFICES ASSUME FindEntry(t, key) # NoEntry
                     PROVE  FindEntry(u, key) = FindEntry(t, key)
        OBVIOUS
      <4>2. PICK q \in 0 .. t.size - 1 : t.entries[q] = FindEntry(t, key) /\ t.entries[q].key = key
        BY <4>1, FindIs
      <4>3. u.entries[q] = t.entries[q]
        BY <3>2, <4>1, <4>2
      <4>4. QED
        BY <2>0, <4>1, <4>2, <4>3
    <3>5. QED
      BY <2>2, <3>3, <3>4
  <2>3. QED
    BY <2>1, <2>2
<1>16. QED
  BY <1>6, <1>14, <1>15

(* HashTable_copy, if it succeeds, copies everything.                      *)
LEMMA CopiedIs ==
  ASSUME HashInTable, NEW t, Well(t), NEW size \in Nat, size >= t.size,
         Copied(t, size) # NoEntry
  PROVE  /\ Well(Copied(t, size)) /\ Copied(t, size).size = size
         /\ Copied(t, size).count <= t.size
         /\ \A key \in Keys : FindEntry(Copied(t, size), key) = FindEntry(t, key)
<1> DEFINE n == t.size
           R == {u \in TableSet : Well(u) /\ u.size = size} \cup {NoEntry}
           After(u, p) == IF t.entries[p - 1] = NoEntry THEN u ELSE Copy(u, t.entries[p - 1])
           F(g) == [p \in 0 .. n |->
                      IF p = 0 THEN NewTable(size)
                      ELSE IF t.entries[p - 1] = NoEntry THEN g[p - 1]
                      ELSE Copy(g[p - 1], t.entries[p - 1])]
           c == CHOOSE g : g = F(g)
<1>1. /\ n \in Nat \ {0} /\ size >= TableSize
      /\ \A p \in 0 .. n - 1 : t.entries[p] # NoEntry =>
           t.entries[p] \in Entries /\ t.entries[p].key \in Keys
  BY WellParts DEF Well
<1>2. Copied(t, size) = c[n]
  BY DEF Copied
<1>3. NewTable(size) \in R
  BY <1>1, NewWell DEF Well
<1>4. ASSUME NEW u \in R, NEW p \in 1 .. n
      PROVE  /\ After(u, p) \in R
             /\ t.entries[p - 1] # NoEntry /\ After(u, p) # NoEntry =>
                  /\ u # NoEntry /\ After(u, p).count = u.count + 1
                  /\ \A key \in Keys : FindEntry(After(u, p), key) =
                       IF key = t.entries[p - 1].key THEN t.entries[p - 1]
                       ELSE FindEntry(u, key)
  <2> DEFINE e == t.entries[p - 1]
             q == GetEntry(u, e.key)
  <2>1. CASE e = NoEntry
    BY <2>1
  <2>2. CASE e # NoEntry
    <3>1. p - 1 \in 0 .. n - 1
      BY <1>1
    <3>2. e \in Entries
      BY <1>1, <2>2, <3>1
    <3>3. After(u, p) = IF u = NoEntry THEN NoEntry
                       ELSE IF q = NoPlace THEN NoEntry
                       ELSE IF u.entries[q] # NoEntry THEN NoEntry ELSE Put(u, q, e)
      BY <2>2 DEF Copy
    <3> HIDE DEF e
    <3>4. ASSUME u # NoEntry, q # NoPlace, u.entries[q] = NoEntry
          PROVE  /\ Well(Put(u, q, e)) /\ Put(u, q, e).size = size /\ Put(u, q, e).count = u.count + 1
                 /\ \A key \in Keys : FindEntry(Put(u, q, e), key) =
                      IF key = e.key THEN e ELSE FindEntry(u, key)
      BY <3>2, <3>4, PutWell
    <3> HIDE DEF q, After
    <3>5. After(u, p) \in R
      BY <3>3, <3>4 DEF Well
    <3>6. After(u, p) # NoEntry =>
            /\ u # NoEntry /\ After(u, p).count = u.count + 1
            /\ \A key \in Keys :
                 FindEntry(After(u, p), key) = IF key = e.key THEN e ELSE FindEntry(u, key)
      BY <3>3, <3>4
    <3>7. QED
      BY <3>5, <3>6 DEF e
  <2>3. QED
    BY <2>1, <2>2
<1> HIDE DEF R
<1>5. \E g : g = F(g)
  <2> DEFINE f == [p \in 1 .. n |-> [u \in R |-> After(u, p)]]
  <2>1. f \in [1 .. n -> [R -> R]]
    BY <1>4
  <2> HIDE DEF After
  <2>2. \A p \in 1 .. n, u \in R : f[p][u] = After(u, p)
    OBVIOUS
  <2> HIDE DEF f
  <2>3. PICK h : Runs(h, n, R, NewTable(size), f)
    BY <1>1, <1>3, <2>1, StepByStep
  <2>4. \A p \in 0 .. n : h[p] = IF p = 0 THEN NewTable(size) ELSE After(h[p - 1], p)
    <3>1. \A p \in 0 .. n : p # 0 => p \in 1 .. n /\ p - 1 \in 0 .. n
      BY <1>1
    <3>2. QED
      BY <2>2, <2>3, <3>1 DEF Runs
  <2>5. h = F(h)
    <3>1. h = [p \in 0 .. n |-> h[p]]
      BY <2>3 DEF Runs
    <3>2. QED
      BY <2>4, <3>1 DEF After
  <2>6. QED
    BY <2>5
<1>6. c = F(c)
  BY <1>5
<1>7. /\ c[0] = NewTable(size)
      /\ \A p \in 1 .. n : c[p] = After(c[p - 1], p)
  <2> HIDE DEF c
  <2>1. \A p \in 0 .. n : c[p] = IF p = 0 THEN NewTable(size) ELSE After(c[p - 1], p)
    BY <1>6
  <2>2. 0 \in 0 .. n /\ \A p \in 1 .. n : p \in 0 .. n /\ p # 0
    BY <1>1
  <2>3. QED
    BY <2>1, <2>2
<1> HIDE DEF c, After
<1> DEFINE Seen(p, key) == \E q \in 0 .. p - 1 : t.entries[q] # NoEntry /\ t.entries[q].key = key
           Inv(p) == /\ c[p] \in R
                     /\ c[p] # NoEntry =>
                          /\ c[p].count \in Nat /\ c[p].count <= p
                          /\ \A key \in Keys : FindEntry(c[p], key) =
                               IF Seen(p, key) THEN FindEntry(t, key) ELSE NoEntry
           P == {p \in 0 .. n : Inv(p)}
<1>8. 0 \in P
  <2>1. \A key : ~Seen(0, key)
    OBVIOUS
  <2>2. QED
    BY <1>1, <1>3, <1>7, <2>1, NewWell
<1>9. ASSUME NEW p \in 1 .. n, p - 1 \in P PROVE p \in P
  <2> DEFINE e == t.entries[p - 1]
  <2>1. Inv(p - 1) /\ p - 1 \in 0 .. n - 1 /\ p \in 0 .. n
    BY <1>1, <1>9
  <2>2. c[p] = After(c[p - 1], p)
    BY <1>7
  <2>3. c[p] \in R
    BY <1>4, <2>1, <2>2
  <2>4. \A q \in 0 .. p - 1 : q = p - 1 \/ q \in 0 .. (p - 1) - 1
    OBVIOUS
  <2>5. \A q \in 0 .. (p - 1) - 1 : q \in 0 .. p - 1
    OBVIOUS
  <2>6. p - 1 \in 0 .. p - 1
    OBVIOUS
  <2>7. ASSUME NEW key \in Keys
        PROVE  Seen(p, key) <=> Seen(p - 1, key) \/ (e # NoEntry /\ e.key = key)
    BY <2>4, <2>5, <2>6
  <2> HIDE DEF Seen
  <2>8. CASE e = NoEntry
    <3>1. c[p] = c[p - 1]
      BY <2>2, <2>8 DEF After
    <3>2. QED
      BY <2>1, <2>3, <2>7, <2>8, <3>1
  <2>9. CASE e # NoEntry
    <3>1. SUFFICES ASSUME c[p] # NoEntry
                   PROVE  /\ c[p].count \in Nat /\ c[p].count <= p
                          /\ \A key \in Keys : FindEntry(c[p], key) =
                               IF Seen(p, key) THEN FindEntry(t, key) ELSE NoEntry
      BY <2>1, <2>3
    <3>2. /\ c[p - 1] # NoEntry /\ c[p].count = c[p - 1].count + 1
          /\ \A key \in Keys : FindEntry(c[p], key) =
               IF key = e.key THEN e ELSE FindEntry(c[p - 1], key)
      BY <1>4, <2>1, <2>2, <2>9, <3>1
    <3>3. c[p - 1].count \in Nat /\ c[p - 1].count <= p - 1
          /\ \A key \in Keys : FindEntry(c[p - 1], key) =
               IF Seen(p - 1, key) THEN FindEntry(t, key) ELSE NoEntry
      BY <2>1, <3>2
    <3>4. e.key \in Keys /\ FindEntry(t, e.key) = e
      BY <1>1, <2>1, <2>9, FindIs
    <3>5. c[p].count \in Nat /\ c[p].count <= p
      BY <3>2, <3>3
    <3>6. ASSUME NEW key \in Keys
          PROVE  FindEntry(c[p], key) = IF Seen(p, key) THEN FindEntry(t, key) ELSE NoEntry
      BY <2>7, <2>9, <3>2, <3>3, <3>4
    <3>7. QED
      BY <3>5, <3>6
  <2>10. QED
    BY <2>8, <2>9
<1>10. Inv(n)
  <2> HIDE DEF P
  <2>1. 0 .. n \subseteq P
    BY <1>1, <1>8, <1>9, UpTo
  <2>2. n \in 0 .. n
    BY <1>1
  <2>3. QED
    BY <2>1, <2>2 DEF P
<1>11. \A key \in Keys : IF Seen(n, key) THEN TRUE ELSE FindEntry(t, key) = NoEntry
  BY FindIs
<1> HIDE DEF Seen
<1>12. c[n] # NoEntry
  BY <1>2
<1>13. Well(c[n]) /\ c[n].size = size
  BY <1>10, <1>12 DEF R
<1>14. c[n].count <= n /\ \A key \in Keys : FindEntry(c[n], key) = FindEntry(t, key)
  BY <1>10, <1>11, <1>12
<1>15. QED
  BY <1>2, <1>13, <1>14

(* growSize does not make a table smaller.                                 *)
LEMMA GrowIs ==
  ASSUME NEW size \in Nat
  PROVE  GrowSize(size) \in Nat /\ GrowSize(size) >= size
<1>1. (size * 21) \div 100 \in Nat
  OBVIOUS
<1>2. QED
  BY <1>1 DEF GrowSize

(* HashTable_resize, if it ends, keeps everything.                         *)
LEMMA ResizeIs ==
  ASSUME HashInTable, NEW t, Well(t), Resize(t) # NoEntry
  PROVE  /\ Well(Resize(t)) /\ Resize(t).count <= Resize(t).size
         /\ \A key \in Keys : FindEntry(Resize(t), key) = FindEntry(t, key)
<1> DEFINE R == {x \in Nat : x >= t.size}
           After(x) == IF Copied(t, x) = NoEntry THEN GrowSize(x) ELSE x
           F(g) == [i \in 0 .. MaxGrowths |->
                      IF i = 0 THEN GrowSize(t.size)
                      ELSE LET tried == g[i - 1] IN
                             IF Copied(t, tried) = NoEntry THEN GrowSize(tried) ELSE tried]
           c == CHOOSE g : g = F(g)
<1>1. t.size \in Nat /\ MaxGrowths \in Nat
  BY WellParts, GrowthsAssumption
<1>2. Resize(t) = Copied(t, c[MaxGrowths])
  BY DEF Resize
<1>3. GrowSize(t.size) \in R
  BY <1>1, GrowIs
<1>4. ASSUME NEW x \in R PROVE After(x) \in R
  BY <1>1, GrowIs
<1> HIDE DEF R
<1>5. \E g : g = F(g)
  <2> DEFINE f == [i \in 1 .. MaxGrowths |-> [x \in R |-> After(x)]]
  <2>1. f \in [1 .. MaxGrowths -> [R -> R]]
    BY <1>4
  <2> HIDE DEF After
  <2>2. \A i \in 1 .. MaxGrowths, x \in R : f[i][x] = After(x)
    OBVIOUS
  <2> HIDE DEF f
  <2>3. PICK h : Runs(h, MaxGrowths, R, GrowSize(t.size), f)
    BY <1>1, <1>3, <2>1, StepByStep
  <2>4. \A i \in 0 .. MaxGrowths : h[i] = IF i = 0 THEN GrowSize(t.size) ELSE After(h[i - 1])
    <3>1. \A i \in 0 .. MaxGrowths : i # 0 => i \in 1 .. MaxGrowths /\ i - 1 \in 0 .. MaxGrowths
      BY <1>1
    <3>2. QED
      BY <2>2, <2>3, <3>1 DEF Runs
  <2>5. h = F(h)
    <3>1. h = [i \in 0 .. MaxGrowths |-> h[i]]
      BY <2>3 DEF Runs
    <3>2. QED
      BY <2>4, <3>1 DEF After
  <2>6. QED
    BY <2>5
<1>6. c = F(c)
  BY <1>5
<1>7. c[0] = GrowSize(t.size) /\ \A i \in 1 .. MaxGrowths : c[i] = After(c[i - 1])
  <2> HIDE DEF c
  <2>1. \A i \in 0 .. MaxGrowths : c[i] = IF i = 0 THEN GrowSize(t.size) ELSE After(c[i - 1])
    BY <1>6
  <2>2. 0 \in 0 .. MaxGrowths /\ \A i \in 1 .. MaxGrowths : i \in 0 .. MaxGrowths /\ i # 0
    BY <1>1
  <2>3. QED
    BY <2>1, <2>2
<1> HIDE DEF c, After
<1> DEFINE P == {i \in 0 .. MaxGrowths : c[i] \in R}
<1>8. 0 \in P
  BY <1>1, <1>3, <1>7
<1>9. ASSUME NEW i \in 1 .. MaxGrowths, i - 1 \in P PROVE i \in P
  BY <1>1, <1>4, <1>7, <1>9
<1>10. c[MaxGrowths] \in R
  <2> HIDE DEF P
  <2>1. 0 .. MaxGrowths \subseteq P
    BY <1>1, <1>8, <1>9, UpTo
  <2>2. MaxGrowths \in 0 .. MaxGrowths
    BY <1>1
  <2>3. QED
    BY <2>1, <2>2 DEF P
<1>11. c[MaxGrowths] \in Nat /\ c[MaxGrowths] >= t.size
  BY <1>10 DEF R
<1>12. /\ Well(Resize(t)) /\ Resize(t).size = c[MaxGrowths] /\ Resize(t).count <= t.size
       /\ \A key \in Keys : FindEntry(Resize(t), key) = FindEntry(t, key)
  BY <1>2, <1>11, CopiedIs
<1>13. Resize(t).count \in Nat
  BY <1>12, WellParts
<1>14. QED
  BY <1>1, <1>11, <1>12, <1>13

(* The loops of HashTable_resize and HashTable_add end, as far as the      *)
(* model follows them.                                                     *)
GrowthEnds ==
  \A t : SoundTable(t) => Resize(t) # NoEntry /\ \A key \in Keys : HasRoom(WithRoom(t, key), key)

(* Growing keeps everything.                                               *)
LEMMA WithRoomIs ==
  ASSUME HashInTable, GrowthEnds, NEW t, SoundTable(t), NEW key \in Keys
  PROVE  /\ SoundTable(WithRoom(t, key)) /\ HasRoom(WithRoom(t, key), key)
         /\ \A k \in Keys : FindEntry(WithRoom(t, key), k) = FindEntry(t, k)
<1> DEFINE R == {u \in TableSet : SoundTable(u) /\ \A k \in Keys : FindEntry(u, k) = FindEntry(t, k)}
           After(u) == IF HasRoom(u, key) THEN u ELSE Resize(u)
           F(g) == [i \in 0 .. MaxGrowths |->
                      IF i = 0 THEN t
                      ELSE LET tried == g[i - 1] IN
                             IF HasRoom(tried, key) THEN tried ELSE Resize(tried)]
           c == CHOOSE g : g = F(g)
<1>1. MaxGrowths \in Nat
  BY GrowthsAssumption
<1>2. WithRoom(t, key) = c[MaxGrowths]
  BY DEF WithRoom
<1>3. t \in R
  BY DEF SoundTable, Well
<1>4. ASSUME NEW u \in R PROVE After(u) \in R
  <2>1. CASE HasRoom(u, key)
    BY <2>1
  <2>2. CASE ~HasRoom(u, key)
    <3>1. Well(u) /\ Resize(u) # NoEntry
      BY DEF GrowthEnds, SoundTable
    <3>2. SoundTable(Resize(u)) /\ \A k \in Keys : FindEntry(Resize(u), k) = FindEntry(u, k)
      BY <3>1, ResizeIs DEF SoundTable
    <3>3. Resize(u) \in TableSet
      BY <3>2 DEF SoundTable, Well
    <3>4. QED
      BY <2>2, <3>2, <3>3
  <2>3. QED
    BY <2>1, <2>2
<1> HIDE DEF R
<1>5. \E g : g = F(g)
  <2> DEFINE f == [i \in 1 .. MaxGrowths |-> [u \in R |-> After(u)]]
  <2>1. f \in [1 .. MaxGrowths -> [R -> R]]
    BY <1>4
  <2> HIDE DEF After
  <2>2. \A i \in 1 .. MaxGrowths, u \in R : f[i][u] = After(u)
    OBVIOUS
  <2> HIDE DEF f
  <2>3. PICK h : Runs(h, MaxGrowths, R, t, f)
    BY <1>1, <1>3, <2>1, StepByStep
  <2>4. \A i \in 0 .. MaxGrowths : h[i] = IF i = 0 THEN t ELSE After(h[i - 1])
    <3>1. \A i \in 0 .. MaxGrowths : i # 0 => i \in 1 .. MaxGrowths /\ i - 1 \in 0 .. MaxGrowths
      BY <1>1
    <3>2. QED
      BY <2>2, <2>3, <3>1 DEF Runs
  <2>5. h = F(h)
    <3>1. h = [i \in 0 .. MaxGrowths |-> h[i]]
      BY <2>3 DEF Runs
    <3>2. QED
      BY <2>4, <3>1 DEF After
  <2>6. QED
    BY <2>5
<1>6. c = F(c)
  BY <1>5
<1>7. c[0] = t /\ \A i \in 1 .. MaxGrowths : c[i] = After(c[i - 1])
  <2> HIDE DEF c
  <2>1. \A i \in 0 .. MaxGrowths : c[i] = IF i = 0 THEN t ELSE After(c[i - 1])
    BY <1>6
  <2>2. 0 \in 0 .. MaxGrowths /\ \A i \in 1 .. MaxGrowths : i \in 0 .. MaxGrowths /\ i # 0
    BY <1>1
  <2>3. QED
    BY <2>1, <2>2
<1> HIDE DEF c, After
<1> DEFINE P == {i \in 0 .. MaxGrowths : c[i] \in R}
<1>8. 0 \in P
  BY <1>1, <1>3, <1>7
<1>9. ASSUME NEW i \in 1 .. MaxGrowths, i - 1 \in P PROVE i \in P
  BY <1>1, <1>4, <1>7, <1>9
<1>10. c[MaxGrowths] \in R
  <2> HIDE DEF P
  <2>1. 0 .. MaxGrowths \subseteq P
    BY <1>1, <1>8, <1>9, UpTo
  <2>2. MaxGrowths \in 0 .. MaxGrowths
    BY <1>1
  <2>3. QED
    BY <2>1, <2>2 DEF P
<1>11. QED
  BY <1>2, <1>10 DEF R, GrowthEnds

(* hashtable.c, HashTable_add: the key has the new value, and no other key *)
(* another one, however the keys collide and however often the table had   *)
(* to grow for it, if the hash stays in the table and growing ends.        *)
THEOREM AddFinds ==
  ASSUME HashInTable, GrowthEnds, NEW t, SoundTable(t), NEW e \in Entries
  PROVE  /\ SoundTable(Add(t, e))
         /\ \A key \in Keys :
              FindEntry(Add(t, e), key) = IF key = e.key THEN e ELSE FindEntry(t, key)
<1> DEFINE r == WithRoom(t, e.key)
           u == Put(r, GetEntry(r, e.key), e)
<1>1. e.key \in Keys
  BY DEF Entries
<1>2. /\ Well(r) /\ HasRoom(r, e.key)
      /\ \A k \in Keys : FindEntry(r, k) = FindEntry(t, k)
  BY <1>1, WithRoomIs DEF SoundTable
<1>3. Add(t, e) = u
  BY DEF Add
<1> HIDE DEF r
<1>4. r.count < r.size /\ GetEntry(r, e.key) # NoPlace
  BY <1>2 DEF HasRoom
<1>5. /\ Well(u) /\ u.size = r.size
      /\ u.count = IF r.entries[GetEntry(r, e.key)] = NoEntry THEN r.count + 1 ELSE r.count
      /\ \A key \in Keys : FindEntry(u, key) = IF key = e.key THEN e ELSE FindEntry(r, key)
  BY <1>2, <1>4, PutWell
<1> HIDE DEF u
<1>6. u.count <= u.size
  <2>1. r.size \in Nat /\ r.count \in Nat
    BY <1>2, WellParts
  <2>2. QED
    BY <1>4, <1>5, <2>1
<1>7. QED
  BY <1>2, <1>3, <1>5, <1>6 DEF SoundTable

(* Each entry is listed once, and nothing else is.                         *)
LEMMA ListedIs ==
  ASSUME NEW t, Well(t)
  PROVE  LET l == ListedEntries(t) IN
           /\ l \in Seq(Entries)
           /\ \A i \in DOMAIN l :
                \E p \in 0 .. t.size - 1 : t.entries[p] # NoEntry /\ t.entries[p] = l[i]
           /\ \A p \in 0 .. t.size - 1 : t.entries[p] # NoEntry =>
                \E i \in DOMAIN l : t.entries[p] = l[i]
           /\ \A i, j \in DOMAIN l : l[i].key = l[j].key => i = j
<1> DEFINE n == t.size
           R == Seq(Entries)
           After(l, p) == IF t.entries[p - 1] = NoEntry THEN l ELSE Append(l, t.entries[p - 1])
           F(g) == [p \in 0 .. n |->
                      IF p = 0 THEN <<>>
                      ELSE IF t.entries[p - 1] = NoEntry THEN g[p - 1]
                      ELSE Append(g[p - 1], t.entries[p - 1])]
           c == CHOOSE g : g = F(g)
<1>1. /\ n \in Nat \ {0}
      /\ \A p \in 0 .. n - 1 : t.entries[p] # NoEntry =>
           t.entries[p] \in Entries /\ GetEntry(t, t.entries[p].key) = p
  BY WellParts
<1>2. ListedEntries(t) = c[n]
  BY DEF ListedEntries
<1>3. <<>> \in R
  OBVIOUS
<1>4. ASSUME NEW l \in R, NEW p \in 1 .. n PROVE After(l, p) \in R
  <2>1. p - 1 \in 0 .. n - 1
    BY <1>1
  <2>2. QED
    BY <1>1, <2>1
<1> HIDE DEF R
<1>5. \E g : g = F(g)
  <2> DEFINE f == [p \in 1 .. n |-> [l \in R |-> After(l, p)]]
  <2>1. f \in [1 .. n -> [R -> R]]
    BY <1>4
  <2> HIDE DEF After
  <2>2. \A p \in 1 .. n, l \in R : f[p][l] = After(l, p)
    OBVIOUS
  <2> HIDE DEF f
  <2>3. PICK h : Runs(h, n, R, <<>>, f)
    BY <1>1, <1>3, <2>1, StepByStep
  <2>4. \A p \in 0 .. n : h[p] = IF p = 0 THEN <<>> ELSE After(h[p - 1], p)
    <3>1. \A p \in 0 .. n : p # 0 => p \in 1 .. n /\ p - 1 \in 0 .. n
      BY <1>1
    <3>2. QED
      BY <2>2, <2>3, <3>1 DEF Runs
  <2>5. h = F(h)
    <3>1. h = [p \in 0 .. n |-> h[p]]
      BY <2>3 DEF Runs
    <3>2. QED
      BY <2>4, <3>1 DEF After
  <2>6. QED
    BY <2>5
<1>6. c = F(c)
  BY <1>5
<1>7. c[0] = <<>> /\ \A p \in 1 .. n : c[p] = After(c[p - 1], p)
  <2> HIDE DEF c
  <2>1. \A p \in 0 .. n : c[p] = IF p = 0 THEN <<>> ELSE After(c[p - 1], p)
    BY <1>6
  <2>2. 0 \in 0 .. n /\ \A p \in 1 .. n : p \in 0 .. n /\ p # 0
    BY <1>1
  <2>3. QED
    BY <2>1, <2>2
<1> HIDE DEF c
<1> DEFINE Inv(p) ==
             /\ c[p] \in Seq(Entries)
             /\ \A i \in DOMAIN c[p] :
                  \E q \in 0 .. p - 1 : t.entries[q] # NoEntry /\ t.entries[q] = c[p][i]
             /\ \A q \in 0 .. p - 1 : t.entries[q] # NoEntry =>
                  \E i \in DOMAIN c[p] : t.entries[q] = c[p][i]
             /\ \A i, j \in DOMAIN c[p] : c[p][i].key = c[p][j].key => i = j
           P == {p \in 0 .. n : Inv(p)}
<1>8. 0 \in P
  <2>1. DOMAIN <<>> = {} /\ 0 .. 0 - 1 = {} /\ <<>> \in Seq(Entries)
    OBVIOUS
  <2>2. c[0] \in Seq(Entries) /\ DOMAIN c[0] = {}
    BY <1>7, <2>1
  <2>3. Inv(0)
    BY <2>1, <2>2
  <2>4. 0 \in 0 .. n
    BY <1>1
  <2>5. QED
    BY <2>3, <2>4
<1>9. ASSUME NEW p \in 1 .. n, p - 1 \in P PROVE p \in P
  <2> DEFINE e == t.entries[p - 1]
             l == c[p - 1]
             m == c[p]
  <2>1. Inv(p - 1) /\ p - 1 \in 0 .. n - 1 /\ p \in 0 .. n
    BY <1>1, <1>9
  <2>2. \A q \in 0 .. p - 1 : q = p - 1 \/ q \in 0 .. (p - 1) - 1
    OBVIOUS
  <2>3. \A q \in 0 .. (p - 1) - 1 : q \in 0 .. p - 1 /\ q \in 0 .. n - 1 /\ q # p - 1
    BY <1>1
  <2>4. p - 1 \in 0 .. p - 1
    OBVIOUS
  <2>5. /\ l \in Seq(Entries)
        /\ \A i \in DOMAIN l :
             \E q \in 0 .. (p - 1) - 1 : t.entries[q] # NoEntry /\ t.entries[q] = l[i]
        /\ \A q \in 0 .. (p - 1) - 1 : t.entries[q] # NoEntry =>
             \E i \in DOMAIN l : t.entries[q] = l[i]
        /\ \A i, j \in DOMAIN l : l[i].key = l[j].key => i = j
    BY <2>1
  <2>6. m = IF e = NoEntry THEN l ELSE Append(l, e)
    BY <1>7
  <2> HIDE DEF e, l
  <2>7. CASE e = NoEntry
    <3>1. m = l
      BY <2>6, <2>7
    <3>2. Inv(p)
      <4>1. \A q \in 0 .. p - 1 : t.entries[q] # NoEntry => q \in 0 .. (p - 1) - 1
        BY <2>2, <2>7 DEF e
      <4>2. QED
        BY <2>3, <2>5, <3>1, <4>1
    <3>3. QED
      BY <2>1, <3>2
  <2>8. CASE e # NoEntry
    <3>1. e \in Entries /\ GetEntry(t, e.key) = p - 1
      BY <1>1, <2>1, <2>8 DEF e
    <3>2. /\ m \in Seq(Entries) /\ DOMAIN m = 1 .. Len(l) + 1 /\ DOMAIN l = 1 .. Len(l)
          /\ Len(l) \in Nat /\ m[Len(l) + 1] = e /\ \A i \in DOMAIN l : m[i] = l[i]
      BY <2>5, <2>6, <2>8, <3>1
    <3>3. \A i \in DOMAIN m : i = Len(l) + 1 \/ i \in DOMAIN l
      BY <3>2
    <3>4. Len(l) + 1 \in DOMAIN m /\ DOMAIN l \subseteq DOMAIN m
      BY <3>2
    <3>5. \A i \in DOMAIN l : l[i].key # e.key
      <4>1. ASSUME NEW i \in DOMAIN l, l[i].key = e.key PROVE FALSE
        <5>1. PICK q \in 0 .. (p - 1) - 1 : t.entries[q] # NoEntry /\ t.entries[q] = l[i]
          BY <2>5
        <5>2. GetEntry(t, e.key) = q
          BY <1>1, <2>3, <4>1, <5>1
        <5>3. QED
          BY <2>3, <3>1, <5>1, <5>2
      <4>2. QED
        BY <4>1
    <3> HIDE DEF m
    <3>6. \A i \in DOMAIN m :
            \E q \in 0 .. p - 1 : t.entries[q] # NoEntry /\ t.entries[q] = m[i]
      <4>1. t.entries[p - 1] # NoEntry /\ t.entries[p - 1] = e
        BY <2>8 DEF e
      <4>2. QED
        BY <2>3, <2>4, <2>5, <3>2, <3>3, <4>1
    <3>7. \A q \in 0 .. p - 1 : t.entries[q] # NoEntry => \E i \in DOMAIN m : t.entries[q] = m[i]
      <4>1. t.entries[p - 1] = e
        BY DEF e
      <4>2. QED
        BY <2>2, <2>5, <3>2, <3>4, <4>1
    <3>8. \A i, j \in DOMAIN m : m[i].key = m[j].key => i = j
      BY <2>5, <3>2, <3>3, <3>5
    <3>9. Inv(p)
      BY <3>2, <3>6, <3>7, <3>8 DEF m
    <3>10. QED
      BY <2>1, <3>9
  <2>9. QED
    BY <2>7, <2>8
<1>10. Inv(n)
  <2> HIDE DEF P
  <2>1. 0 .. n \subseteq P
    BY <1>1, <1>8, <1>9, UpTo
  <2>2. n \in 0 .. n
    BY <1>1
  <2>3. QED
    BY <2>1, <2>2 DEF P
<1>11. QED
  BY <1>2, <1>10

(* What is found in a table is what is listed of it.                       *)
LEMMA KnowsWhen ==
  ASSUME HashInTable, Well(table), NEW key \in Keys, NEW value \in Values \cup {Empty},
         FindEntry(table, key) = IF value = Empty THEN NoEntry ELSE Entry(key, value)
  PROVE  Knows(ListedEntries(table), key, value)
<1> DEFINE l == ListedEntries(table)
           I == {i \in DOMAIN l : l[i].key = key}
<1>1. /\ \A i \in DOMAIN l :
           \E p \in 0 .. table.size - 1 : table.entries[p] # NoEntry /\ table.entries[p] = l[i]
      /\ \A p \in 0 .. table.size - 1 : table.entries[p] # NoEntry =>
           \E i \in DOMAIN l : table.entries[p] = l[i]
      /\ \A i, j \in DOMAIN l : l[i].key = l[j].key => i = j
  BY ListedIs
<1> HIDE DEF l
<1>2. \A i \in I : l[i] = FindEntry(table, key) /\ l[i] # NoEntry
  BY <1>1, FindIs
<1>3. FindEntry(table, key) # NoEntry => \E i \in I : l[i] = FindEntry(table, key)
  BY <1>1, FindIs
<1>4. \A i, j \in DOMAIN l : l[i].key = key /\ l[j].key = key => i = j
  BY <1>1
<1>5. {l[i] : i \in I} = IF value = Empty THEN {} ELSE {Entry(key, value)}
  <2>1. CASE value = Empty
    <3>1. I = {}
      BY <1>2, <2>1
    <3>2. QED
      BY <2>1, <3>1
  <2>2. CASE value # Empty
    <3>1. Entry(key, value) # NoEntry
      BY <2>2, TableAssumption DEF Entry
    <3>2. (\A i \in I : l[i] = Entry(key, value)) /\ \E i \in I : l[i] = Entry(key, value)
      BY <1>2, <1>3, <2>2, <3>1
    <3> HIDE DEF I
    <3>3. QED
      BY <2>2, <3>2
  <2>3. QED
    BY <2>1, <2>2
<1>6. QED
  BY <1>4, <1>5 DEF Knows, l

(* Each line tells its setting a new value and leaves the others.          *)
LEMMA LastStep ==
  ASSUME NEW lines \in Files, NEW i \in 1 .. Len(lines), NEW s
  PROVE  Last1(lines, 1 .. i, s) = IF s = lines[i].setting THEN lines[i].value
                                   ELSE Last1(lines, 1 .. i - 1, s)
<1>1. Len(lines) \in Nat
  BY DEF Files
<1>2. CASE s = lines[i].setting
  <2> DEFINE T == Of(lines, 1 .. i, s)
  <2>1. T \subseteq 1 .. i /\ i \in T
    BY <1>1, <1>2 DEF Of
  <2> HIDE DEF T
  <2>2. i \in Nat /\ T # {}
    BY <1>1, <2>1
  <2>3. Max(T) \in T /\ i <= Max(T)
    BY <2>1, <2>2, MaxIs
  <2> DEFINE m == Max(T)
  <2>4. m \in 1 .. i /\ i <= m
    BY <2>1, <2>3
  <2> HIDE DEF m
  <2>5. m = i
    BY <2>2, <2>4
  <2>6. Max(T) = i
    BY <2>5 DEF m
  <2>7. QED
    BY <1>2, <2>1, <2>6 DEF T, Last1
<1>3. CASE s # lines[i].setting
  <2>1. \A j : j \in 1 .. i /\ j # i <=> j \in 1 .. i - 1
    BY <1>1
  <2>2. Of(lines, 1 .. i, s) = Of(lines, 1 .. i - 1, s)
    BY <1>3, <2>1 DEF Of
  <2>3. QED
    BY <1>3, <2>2 DEF Last1
<1>4. QED
  BY <1>2, <1>3

(* What is known of a setting in a table.                                  *)
Told(t, s, v) ==
  \A form \in {"original", "applied"} :
    FindEntry(t, <<s, form>>) = IF v = Empty THEN NoEntry ELSE Entry(<<s, form>>, v)

(* pluginStoreSettingWithType stores one setting.                          *)
LEMMA StoreIs ==
  ASSUME HashInTable, GrowthEnds, NEW t, SoundTable(t), NEW line \in Line
  PROVE  /\ SoundTable(StoreSetting(t, line))
         /\ \A s \in Settings, v \in Values \cup {Empty} :
              (IF s = line.setting THEN v = line.value ELSE Told(t, s, v))
                => Told(StoreSetting(t, line), s, v)
<1> DEFINE k1 == <<line.setting, "original">>
           k2 == <<line.setting, "applied">>
           e1 == Entry(k1, line.value)
           e2 == Entry(k2, line.value)
           u == Add(t, e1)
           w == Add(u, e2)
<1>1. line.setting \in Settings /\ line.value \in Values /\ line.value # Empty
  BY ValuesAssumption DEF Line
<1>2. \A s \in Settings, form \in {"original", "applied"} : <<s, form>> \in Keys
  BY TableAssumption
<1>3. /\ k1 \in Keys /\ k2 \in Keys /\ k1 # k2
      /\ \A s \in Settings, form \in {"original", "applied"} :
           (<<s, form>> = k1 <=> s = line.setting /\ form = "original")
             /\ (<<s, form>> = k2 <=> s = line.setting /\ form = "applied")
  BY <1>1, <1>2
<1>4. e1 \in Entries /\ e2 \in Entries /\ e1.key = k1 /\ e2.key = k2
  BY <1>1, <1>3 DEF Entry, Entries
<1>5. StoreSetting(t, line) = w
  BY DEF StoreSetting
<1> HIDE DEF k1, k2, e1, e2
<1>6. /\ SoundTable(u)
      /\ \A key \in Keys : FindEntry(u, key) = IF key = k1 THEN e1 ELSE FindEntry(t, key)
  BY <1>4, AddFinds
<1> HIDE DEF u
<1>7. /\ SoundTable(w)
      /\ \A key \in Keys : FindEntry(w, key) = IF key = k2 THEN e2 ELSE FindEntry(u, key)
  BY <1>4, <1>6, AddFinds
<1> HIDE DEF w
<1>8. ASSUME NEW s \in Settings, NEW v \in Values \cup {Empty},
             IF s = line.setting THEN v = line.value ELSE Told(t, s, v),
             NEW form \in {"original", "applied"}
      PROVE  FindEntry(w, <<s, form>>) = IF v = Empty THEN NoEntry ELSE Entry(<<s, form>>, v)
  <2> DEFINE k == <<s, form>>
  <2>1. /\ k \in Keys
        /\ k = k1 <=> s = line.setting /\ form = "original"
        /\ k = k2 <=> s = line.setting /\ form = "applied"
    BY <1>2, <1>3
  <2>2. FindEntry(w, k) = IF k = k2 THEN e2 ELSE IF k = k1 THEN e1 ELSE FindEntry(t, k)
    BY <1>6, <1>7, <2>1
  <2>3. CASE s = line.setting
    <3>1. k = k1 \/ k = k2
      BY <2>1, <2>3
    <3>2. FindEntry(w, k) = Entry(k, line.value)
      BY <2>2, <3>1 DEF e1, e2
    <3>3. QED
      BY <1>1, <1>8, <2>3, <3>2
  <2>4. CASE s # line.setting
    <3>1. Told(t, s, v)
      BY <1>8, <2>4
    <3>2. FindEntry(t, k) = IF v = Empty THEN NoEntry ELSE Entry(k, v)
      BY <3>1 DEF Told
    <3>3. QED
      BY <2>1, <2>2, <2>4, <3>2
  <2>5. QED
    BY <2>3, <2>4
<1>9. SoundTable(w)
  BY <1>7
<1>10. \A s \in Settings, v \in Values \cup {Empty} :
         (IF s = line.setting THEN v = line.value ELSE Told(t, s, v)) => Told(w, s, v)
  BY <1>8 DEF Told
<1>11. QED
  BY <1>5, <1>9, <1>10

(* The table of a file that was read knows of each setting what the file   *)
(* says, under both keys.                                                  *)
LEMMA ReadIs ==
  ASSUME HashInTable, GrowthEnds, NEW lines \in Files
  PROVE  /\ SoundTable(Read(lines))
         /\ \A s \in Settings : Told(Read(lines), s, Said(lines)[s])
<1> DEFINE n == Len(lines)
           R == {u \in TableSet : SoundTable(u)}
           After(u, i) == StoreSetting(u, lines[i])
           F(g) == [i \in 0 .. n |->
                      IF i = 0 THEN NewTable(TableSize) ELSE StoreSetting(g[i - 1], lines[i])]
           c == CHOOSE g : g = F(g)
<1>1. n \in Nat /\ DOMAIN lines = 1 .. n /\ \A i \in 1 .. n : lines[i] \in Line
  BY DEF Files
<1>2. Read(lines) = c[n]
  BY DEF Read
<1>3. /\ NewTable(TableSize) \in R
      /\ \A key \in Keys : FindEntry(NewTable(TableSize), key) = NoEntry
  <2>1. TableSize \in Nat /\ TableSize >= TableSize
    BY TableAssumption
  <2>2. /\ Well(NewTable(TableSize)) /\ NewTable(TableSize).count = 0
        /\ NewTable(TableSize).size = TableSize
        /\ \A key \in Keys : FindEntry(NewTable(TableSize), key) = NoEntry
    BY <2>1, NewWell
  <2>3. SoundTable(NewTable(TableSize)) /\ NewTable(TableSize) \in TableSet
    BY <2>1, <2>2 DEF SoundTable, Well
  <2>4. QED
    BY <2>2, <2>3
<1>4. ASSUME NEW u \in R, NEW i \in 1 .. n
      PROVE  /\ After(u, i) \in R
             /\ \A s \in Settings, v \in Values \cup {Empty} :
                  (IF s = lines[i].setting THEN v = lines[i].value ELSE Told(u, s, v))
                    => Told(After(u, i), s, v)
  <2>1. SoundTable(u) /\ lines[i] \in Line
    BY <1>1
  <2>2. /\ SoundTable(StoreSetting(u, lines[i]))
        /\ \A s \in Settings, v \in Values \cup {Empty} :
             (IF s = lines[i].setting THEN v = lines[i].value ELSE Told(u, s, v))
               => Told(StoreSetting(u, lines[i]), s, v)
    BY <2>1, StoreIs
  <2>3. StoreSetting(u, lines[i]) \in TableSet
    BY <2>2 DEF SoundTable, Well
  <2>4. QED
    BY <2>2, <2>3
<1> HIDE DEF R
<1>5. \E g : g = F(g)
  <2> DEFINE f == [i \in 1 .. n |-> [u \in R |-> After(u, i)]]
  <2>1. f \in [1 .. n -> [R -> R]]
    BY <1>4
  <2> HIDE DEF After
  <2>2. \A i \in 1 .. n, u \in R : f[i][u] = After(u, i)
    OBVIOUS
  <2> HIDE DEF f
  <2>3. PICK h : Runs(h, n, R, NewTable(TableSize), f)
    BY <1>1, <1>3, <2>1, StepByStep
  <2>4. \A i \in 0 .. n : h[i] = IF i = 0 THEN NewTable(TableSize) ELSE After(h[i - 1], i)
    <3>1. \A i \in 0 .. n : i # 0 => i \in 1 .. n /\ i - 1 \in 0 .. n
      BY <1>1
    <3>2. QED
      BY <2>2, <2>3, <3>1 DEF Runs
  <2>5. h = F(h)
    <3>1. h = [i \in 0 .. n |-> h[i]]
      BY <2>3 DEF Runs
    <3>2. QED
      BY <2>4, <3>1 DEF After
  <2>6. QED
    BY <2>5
<1>6. c = F(c)
  BY <1>5
<1>7. c[0] = NewTable(TableSize) /\ \A i \in 1 .. n : c[i] = After(c[i - 1], i)
  <2> HIDE DEF c
  <2>1. \A i \in 0 .. n : c[i] = IF i = 0 THEN NewTable(TableSize) ELSE After(c[i - 1], i)
    BY <1>6
  <2>2. 0 \in 0 .. n /\ \A i \in 1 .. n : i \in 0 .. n /\ i # 0
    BY <1>1
  <2>3. QED
    BY <2>1, <2>2
<1> HIDE DEF c, After
<1> DEFINE L(i, s) == Last1(lines, 1 .. i, s)
           Inv(i) == c[i] \in R /\ \A s \in Settings : Told(c[i], s, L(i, s))
           P == {i \in 0 .. n : Inv(i)}
<1>8. 0 \in P
  <2>1. \A s \in Settings : L(0, s) = Empty
    BY DEF Last1, Of
  <2> HIDE DEF L
  <2>2. \A s \in Settings, form \in {"original", "applied"} : <<s, form>> \in Keys
    BY TableAssumption
  <2>3. \A s \in Settings : Told(c[0], s, L(0, s))
    BY <1>3, <1>7, <2>1, <2>2 DEF Told
  <2>4. 0 \in 0 .. n
    BY <1>1
  <2>5. QED
    BY <1>3, <1>7, <2>3, <2>4
<1>9. \A i \in 0 .. n, s \in Settings : L(i, s) \in Values \cup {Empty}
  <2>1. ASSUME NEW i \in 0 .. n, NEW s \in Settings PROVE L(i, s) \in Values \cup {Empty}
    <3> DEFINE T == Of(lines, 1 .. i, s)
    <3>1. T \subseteq 1 .. n
      BY <1>1 DEF Of
    <3> HIDE DEF T
    <3>2. T # {} => Max(T) \in 1 .. n
      BY <1>1, <3>1, MaxIs
    <3>3. \A j \in 1 .. n : lines[j].value \in Values
      BY <1>1 DEF Line
    <3>4. QED
      BY <3>2, <3>3 DEF T, Last1
  <2>2. QED
    BY <2>1
<1>10. ASSUME NEW i \in 1 .. n, i - 1 \in P PROVE i \in P
  <2>1. Inv(i - 1) /\ i \in 0 .. n
    BY <1>1, <1>10
  <2>2. \A s : L(i, s) = IF s = lines[i].setting THEN lines[i].value ELSE L(i - 1, s)
    BY LastStep
  <2>3. \A s \in Settings : L(i, s) \in Values \cup {Empty}
    BY <1>9, <2>1
  <2>4. c[i] = After(c[i - 1], i) /\ c[i - 1] \in R
    BY <1>7, <2>1
  <2> HIDE DEF L
  <2>5. c[i] \in R
    BY <1>4, <2>4
  <2>6. ASSUME NEW s \in Settings PROVE Told(c[i], s, L(i, s))
    <3>1. IF s = lines[i].setting THEN L(i, s) = lines[i].value ELSE Told(c[i - 1], s, L(i, s))
      BY <2>1, <2>2
    <3>2. QED
      BY <1>4, <2>3, <2>4, <3>1
  <2>7. QED
    BY <2>1, <2>5, <2>6
<1>11. Inv(n)
  <2> HIDE DEF P
  <2>1. 0 .. n \subseteq P
    BY <1>1, <1>8, <1>10, UpTo
  <2>2. n \in 0 .. n
    BY <1>1
  <2>3. QED
    BY <2>1, <2>2 DEF P
<1>12. \A s \in Settings : Said(lines)[s] = L(n, s)
  BY <1>1, SaidMeans
<1> HIDE DEF L
<1>13. QED
  BY <1>2, <1>11, <1>12 DEF R

(* No other name begins with start-on-load.                                *)
NoLonger == \A x \in Settings : <<x, StartOnLoad>> \notin LongerNames

(* Writing start-on-load leaves every other setting as it is.              *)
LEMMA OthersWritten ==
  ASSUME NoLonger, NEW lines \in Files, NEW v \in Values \cup {Empty},
         NEW t \in Settings, t # StartOnLoad
  PROVE  Said(Written(lines, StartOnLoad, v))[t] = Said(lines)[t]
<1> DEFINE s == StartOnLoad
           w == Written(lines, s, v)
           n == Len(lines)
           H == Hits(lines, s)
           hit == Min(H)
<1>1. w \in Files /\ s \in Settings
  BY WrittenType, SettingsAssumption
<1>2. /\ Said(w)[t] = Last1(w, DOMAIN w, t)
      /\ Said(lines)[t] = Last1(lines, DOMAIN lines, t)
  BY <1>1, SaidMeans
<1>3. lines \in Seq(Line) /\ n \in Nat /\ DOMAIN lines = 1 .. n
  BY DEF Files
<1>4. \A i \in H : i \in DOMAIN lines /\ lines[i].setting = s
  <2>1. \A i \in DOMAIN lines : lines[i] \in Line
    BY <1>3
  <2>2. \A i \in DOMAIN lines : lines[i].setting \in Settings
    BY <2>1 DEF Line
  <2>3. QED
    BY <2>2 DEF Hits, LineMatches, NoLonger
<1>5. H # {} => hit \in 1 .. n /\ lines[hit].setting = s
  <2>1. H \subseteq 1 .. n
    BY <1>3, <1>4
  <2> HIDE DEF H
  <2>2. QED
    BY <1>3, <1>4, <2>1, MinIs
<1>6. w = (CASE H = {} /\ v = Empty -> lines
             [] H = {} /\ v # Empty -> Append(lines, [setting |-> s, value |-> v])
             [] H # {} /\ v = Empty -> RemoveAt(lines, hit)
             [] OTHER -> [lines EXCEPT ![hit].value = v])
  BY DEF Written
<1> HIDE DEF w, H, hit, s
<1>7. SUFFICES Last1(w, DOMAIN w, t) = Last1(lines, DOMAIN lines, t)
  BY <1>2 DEF w, s
<1>8. t # s
  BY DEF s
<1>9. CASE H = {} /\ v = Empty
  BY <1>6, <1>9
<1>10. CASE H = {} /\ v # Empty
  <2>1. w = Append(lines, [setting |-> s, value |-> v])
    BY <1>6, <1>10
  <2>2. /\ DOMAIN w = 1 .. n + 1 /\ w[n + 1].setting = s
        /\ \A i \in 1 .. n : w[i] = lines[i]
    BY <1>3, <2>1
  <2>3. \A i \in DOMAIN w : w[i].setting = t => i \in DOMAIN lines /\ w[i] = lines[i]
    BY <1>3, <1>8, <2>2
  <2>4. \A i \in DOMAIN lines : i \in DOMAIN w /\ w[i] = lines[i]
    BY <1>3, <2>2
  <2>5. CASE \A i \in DOMAIN lines : lines[i].setting # t
    BY <2>3, <2>5, LastNone
  <2>6. CASE \E i \in DOMAIN lines : lines[i].setting = t
    <3>1. PICK i \in DOMAIN lines :
            /\ lines[i].setting = t /\ Last1(lines, DOMAIN lines, t) = lines[i].value
            /\ \A j \in DOMAIN lines : lines[j].setting = t => j <= i
      BY <2>6, LastThere
    <3>2. i \in DOMAIN w /\ w[i] = lines[i] /\ \A j \in DOMAIN w : w[j].setting = t => j <= i
      BY <2>3, <2>4, <3>1
    <3>3. Last1(w, DOMAIN w, w[i].setting) = w[i].value
      BY <1>1, <3>1, <3>2, LastIs
    <3>4. QED
      BY <3>1, <3>2, <3>3
  <2>7. QED
    BY <2>5, <2>6
<1>11. CASE H # {} /\ v = Empty
  <2>1. w = RemoveAt(lines, hit) /\ hit \in DOMAIN lines /\ lines[hit].setting = s
    BY <1>3, <1>5, <1>6, <1>11
  <2>2. /\ DOMAIN w = 1 .. n - 1
        /\ \A i \in 1 .. n - 1 : w[i] = IF i < hit THEN lines[i] ELSE lines[i + 1]
    BY <2>1, RemovedAt
  <2>3. CASE \A i \in DOMAIN lines : lines[i].setting # t
    <3>1. \A i \in DOMAIN w : i \in DOMAIN lines /\ i + 1 \in DOMAIN lines
      BY <1>3, <2>2
    <3>2. \A i \in DOMAIN w : w[i].setting # t
      BY <2>2, <2>3, <3>1
    <3>3. QED
      BY <2>3, <3>2, LastNone
  <2>4. CASE \E i \in DOMAIN lines : lines[i].setting = t
    <3>1. PICK i \in DOMAIN lines :
            /\ lines[i].setting = t /\ Last1(lines, DOMAIN lines, t) = lines[i].value
            /\ \A j \in DOMAIN lines : lines[j].setting = t => j <= i
      BY <2>4, LastThere
    <3>2. i # hit /\ i \in 1 .. n /\ hit \in 1 .. n
      BY <1>3, <1>8, <2>1, <3>1
    <3> DEFINE k == IF i < hit THEN i ELSE i - 1
    <3>3. k \in DOMAIN w /\ w[k] = lines[i]
      BY <1>3, <2>2, <3>2
    <3>4. ASSUME NEW j \in DOMAIN w, w[j].setting = t PROVE j <= k
      <4>1. CASE j < hit
        <5>1. j \in DOMAIN lines /\ lines[j].setting = t
          BY <1>3, <2>2, <3>2, <3>4, <4>1
        <5>2. j <= i
          BY <3>1, <5>1
        <5>3. QED
          BY <1>3, <2>2, <3>2, <4>1, <5>2
      <4>2. CASE ~(j < hit)
        <5>1. j + 1 \in DOMAIN lines /\ lines[j + 1].setting = t
          BY <1>3, <2>2, <3>2, <3>4, <4>2
        <5>2. j + 1 <= i
          BY <3>1, <5>1
        <5>3. QED
          BY <1>3, <2>2, <3>2, <4>2, <5>2
      <4>3. QED
        BY <4>1, <4>2
    <3> HIDE DEF k
    <3>5. Last1(w, DOMAIN w, w[k].setting) = w[k].value
      BY <1>1, <3>1, <3>3, <3>4, LastIs
    <3>6. QED
      BY <3>1, <3>3, <3>5
  <2>5. QED
    BY <2>3, <2>4
<1>12. CASE H # {} /\ v # Empty
  <2>1. w = [lines EXCEPT ![hit].value = v] /\ hit \in DOMAIN lines /\ lines[hit].setting = s
    BY <1>3, <1>5, <1>6, <1>12
  <2>2. lines[hit] \in Line
    BY <1>3, <2>1
  <2>3. /\ DOMAIN w = DOMAIN lines /\ w[hit].setting = s
        /\ \A i \in DOMAIN lines : i # hit => w[i] = lines[i]
    BY <1>3, <2>1, <2>2 DEF Line
  <2>4. \A i \in DOMAIN lines : w[i].setting = lines[i].setting
    BY <2>1, <2>3
  <2>5. CASE \A i \in DOMAIN lines : lines[i].setting # t
    BY <2>3, <2>4, <2>5, LastNone
  <2>6. CASE \E i \in DOMAIN lines : lines[i].setting = t
    <3>1. PICK i \in DOMAIN lines :
            /\ lines[i].setting = t /\ Last1(lines, DOMAIN lines, t) = lines[i].value
            /\ \A j \in DOMAIN lines : lines[j].setting = t => j <= i
      BY <2>6, LastThere
    <3>2. i \in DOMAIN w /\ w[i] = lines[i]
      BY <1>8, <2>1, <2>3, <3>1
    <3>3. Last1(w, DOMAIN w, w[i].setting) = w[i].value
      BY <1>1, <2>3, <2>4, <3>1, <3>2, LastIs
    <3>4. QED
      BY <3>1, <3>2, <3>3
  <2>7. QED
    BY <2>5, <2>6
<1>13. QED
  BY <1>9, <1>10, <1>11, <1>12

-----------------------------------------------------------------------------
(* The table tells of the settings S what the lines say.                   *)
Tells(S, lines) == \A s \in S : Told(table, s, Said(lines)[s])
Others == Settings \ {StartOnLoad}
Loaded(q) == \A i \in DOMAIN q : q[i].do # "load"

(* From the moment a reload has read the file, the table tells of the      *)
(* settings that reload does not write what the file says, and the file    *)
(* that is about to take its place; after a start it tells of all, until   *)
(* the next call.                                                          *)
TableInv ==
  /\ SoundTable(table)
  /\ up /\ op = "none" => todo = <<>> /\ Tells(Settings, conf)
  /\ op = "reload" => About(todo, StartOnLoad)
  /\ up /\ op = "reload" /\ Loaded(todo) =>
       /\ conf # Missing => Tells(Others, conf)
       /\ todo # <<>> /\ todo[1].do \in {"unlink", "rename"} => Tells(Others, newConf)

(* A step of one of the two, that is there, is still there when they are   *)
(* made one call.                                                          *)
LEMMA JoinLoaded ==
  ASSUME NEW p \in Seq(Steps), NEW q \in Seq(Steps), Loaded(p \o q)
  PROVE  Loaded(p) /\ Loaded(q)
<1>1. /\ \A i \in DOMAIN p : i \in DOMAIN (p \o q)
      /\ \A i \in DOMAIN q : Len(p) + i \in DOMAIN (p \o q)
  BY JoinIs
<1>2. QED
  BY <1>1, JoinIs DEF Loaded

(* A reload reads the file, and writes start-on-load only.                 *)
LEMMA ReloadReads ==
  About(ReloadSteps, StartOnLoad) /\ ~Loaded(ReloadSteps)
<1>1. About(ReloadSteps, StartOnLoad)
  BY CallSteps DEF Planned, Quiet
<1>2. Also("load") \in Seq(Steps) /\ ~Loaded(Also("load"))
  <2>1. Step("load", StartOnLoad, Empty) \in Steps /\ Step("load", StartOnLoad, Empty).do = "load"
    BY SettingsAssumption DEF Step, Steps
  <2> DEFINE q == <<Step("load", StartOnLoad, Empty)>>
  <2>2. q \in Seq(Steps) /\ 1 \in DOMAIN q /\ q[1].do = "load"
    BY <2>1, OneStep
  <2> HIDE DEF q
  <2>3. ~Loaded(q)
    BY <2>2 DEF Loaded
  <2>4. QED
    BY <2>2, <2>3 DEF q, Also
<1>3. TurnOff \in Seq(Steps) /\ TurnOn \in Seq(Steps)
  BY CallSteps DEF Planned, Sound
<1>4. ~Loaded((TurnOff \o Also("load")) \o TurnOn)
  <2>1. TurnOff \o Also("load") \in Seq(Steps)
    BY <1>2, <1>3
  <2>2. QED
    BY <1>2, <1>3, <2>1, JoinLoaded
<1>5. QED
  BY <1>1, <1>2, <1>4 DEF ReloadSteps

(* A call that is made.                                                    *)
LEMMA CallTells ==
  ASSUME TableInv, NEW name \in {"enable", "disable", "reload", "setopt"}, NEW steps,
         NEW wants, ApiCall(name, steps, wants),
         name = "reload" => About(steps, StartOnLoad) /\ ~Loaded(steps)
  PROVE  TableInv'
<1>1. op' = name /\ todo' = steps /\ table' = table
  BY DEF ApiCall, memory
<1>2. op' # "none" /\ SoundTable(table)'
  BY <1>1 DEF TableInv
<1>3. op' = "reload" => About(todo, StartOnLoad)' /\ ~Loaded(todo)'
  BY <1>1
<1>4. QED
  BY <1>2, <1>3 DEF TableInv

(* A step of a call: what is left of a reload is about start-on-load too,  *)
(* and the file was read before if it is not read any more.                *)
LEMMA TodoTells ==
  ASSUME SettingsIInv, TableInv, up, todo # <<>>
  PROVE  /\ op # "none"
         /\ op = "reload" => About(Tail(todo), StartOnLoad) /\ todo[1].setting = StartOnLoad
         /\ Loaded(Tail(todo)) /\ todo[1].do # "load" => Loaded(todo)
         /\ todo[1].do \notin {"write", "unlink"} /\ Tail(todo) # <<>> =>
              Tail(todo)[1].do \notin {"unlink", "rename"}
         /\ todo[1].do # "write" /\ Tail(todo) # <<>> => Tail(todo)[1].do # "unlink"
<1>1. Sound(todo) /\ todo \in Seq(Steps)
  BY DEF SettingsIInv, PlanInv, Sound
<1>2. op # "none"
  BY DEF TableInv
<1>3. op = "reload" => About(Tail(todo), StartOnLoad) /\ todo[1].setting = StartOnLoad
  BY <1>1, TailAbout DEF TableInv
<1>4. ASSUME Loaded(Tail(todo)), todo[1].do # "load" PROVE Loaded(todo)
  <2>1. /\ Len(todo) \in Nat /\ DOMAIN todo = 1 .. Len(todo)
        /\ DOMAIN Tail(todo) = 1 .. Len(todo) - 1
        /\ \A i \in 1 .. Len(todo) - 1 : Tail(todo)[i] = todo[i + 1]
    BY <1>1, TailIs
  <2>2. \A i \in DOMAIN todo :
          i = 1 \/ (i - 1 \in DOMAIN Tail(todo) /\ Tail(todo)[i - 1] = todo[i])
    BY <2>1
  <2>3. QED
    BY <1>4, <2>2 DEF Loaded
<1>5. /\ todo[1].do # "write" => Tail(todo) = <<>> \/ Tail(todo)[1].do # "unlink"
      /\ todo[1].do # "unlink" => Tail(todo) = <<>> \/ Tail(todo)[1].do # "rename"
  BY <1>1, TailSound
<1>6. QED
  BY <1>2, <1>3, <1>4, <1>5

(* ConfigReader_writeConfig, called by a reload.                           *)
LEMMA WriteTells ==
  ASSUME NoLonger, SettingsIInv, TableInv, WriteNew
  PROVE  TableInv'
<1>1. /\ up /\ todo # <<>> /\ todo[1].do = "write" /\ todo' = Tail(todo) /\ conf # Missing
      /\ newConf' = Written(conf, todo[1].setting, todo[1].value)
      /\ conf' = conf /\ table' = table /\ up' = up /\ op' = op
  BY DEF WriteNew, Do, memory
<1>2. SoundTable(table)' /\ op' # "none"
  BY <1>1, TodoTells DEF TableInv
<1>3. op' = "reload" => About(todo, StartOnLoad)'
  BY <1>1, TodoTells
<1>4. ASSUME op = "reload", Loaded(Tail(todo))
      PROVE  Tells(Others, conf)' /\ Tells(Others, newConf)'
  <2>1. todo[1].setting = StartOnLoad /\ Loaded(todo)
    BY <1>1, <1>4, TodoTells
  <2>2. Tells(Others, conf)
    BY <1>1, <1>4, <2>1 DEF TableInv
  <2>3. conf \in Files /\ todo[1].value \in Values \cup {Empty}
    <3>1. todo \in Seq(Steps)
      BY DEF SettingsIInv, PlanInv, Sound
    <3>2. todo[1] \in Steps
      BY <1>1, <3>1, TailIs
    <3>3. QED
      BY <1>1, <3>2, Typed DEF Steps
  <2>4. \A s \in Others : Said(newConf')[s] = Said(conf)[s]
    BY <1>1, <2>1, <2>3, OthersWritten DEF Others
  <2>5. QED
    BY <1>1, <2>2, <2>4 DEF Tells
<1>5. QED
  BY <1>1, <1>2, <1>3, <1>4 DEF TableInv

(* The old file is unlinked.                                               *)
LEMMA UnlinkTells ==
  ASSUME SettingsIInv, TableInv, UnlinkOld
  PROVE  TableInv'
<1>1. /\ up /\ todo # <<>> /\ todo[1].do = "unlink" /\ todo' = Tail(todo) /\ conf' = Missing
      /\ newConf' = newConf /\ table' = table /\ up' = up /\ op' = op
  BY DEF UnlinkOld, Do, memory
<1>2. SoundTable(table)' /\ op' # "none"
  BY <1>1, TodoTells DEF TableInv
<1>3. op' = "reload" => About(todo, StartOnLoad)'
  BY <1>1, TodoTells
<1>4. ASSUME op = "reload", Loaded(Tail(todo))
      PROVE  Tells(Others, newConf)'
  <2>1. Tells(Others, newConf)
    BY <1>1, <1>4, TodoTells DEF TableInv
  <2>2. QED
    BY <1>1, <2>1 DEF Tells
<1>5. QED
  BY <1>1, <1>2, <1>3, <1>4 DEF TableInv

(* The new one takes its place.                                            *)
LEMMA RenameTells ==
  ASSUME SettingsIInv, TableInv, RenameNew
  PROVE  TableInv'
<1>1. /\ up /\ todo # <<>> /\ todo[1].do = "rename" /\ todo' = Tail(todo)
      /\ conf' = newConf /\ table' = table /\ up' = up /\ op' = op
  BY DEF RenameNew, Do, memory
<1>2. SoundTable(table)' /\ op' # "none"
  BY <1>1, TodoTells DEF TableInv
<1>3. op' = "reload" => About(todo, StartOnLoad)'
  BY <1>1, TodoTells
<1>4. todo' # <<>> => todo'[1].do \notin {"unlink", "rename"}
  BY <1>1, TodoTells
<1>5. ASSUME op = "reload", Loaded(Tail(todo))
      PROVE  Tells(Others, conf)'
  <2>1. Tells(Others, newConf)
    BY <1>1, <1>5, TodoTells DEF TableInv
  <2>2. QED
    BY <1>1, <2>1 DEF Tells
<1>6. QED
  BY <1>1, <1>2, <1>3, <1>4, <1>5 DEF TableInv

(* Plugin_Disable and Plugin_Enable touch neither.                         *)
LEMMA SetEnabledTells ==
  ASSUME SettingsIInv, TableInv, NEW do \in {"turn_off", "turn_on"}, NEW value,
         SetEnabled(do, value)
  PROVE  TableInv'
<1>1. /\ up /\ todo # <<>> /\ todo[1].do = do /\ todo' = Tail(todo) /\ conf' = conf
      /\ newConf' = newConf /\ table' = table /\ up' = up /\ op' = op
  BY DEF SetEnabled, Do, files
<1>2. SoundTable(table)' /\ op' # "none"
  BY <1>1, TodoTells DEF TableInv
<1>3. op' = "reload" => About(todo, StartOnLoad)'
  BY <1>1, TodoTells
<1>4. todo' # <<>> => todo'[1].do \notin {"unlink", "rename"}
  BY <1>1, TodoTells
<1>5. ASSUME op = "reload", Loaded(Tail(todo)), conf # Missing
      PROVE  Tells(Others, conf)'
  <2>1. Tells(Others, conf)
    BY <1>1, <1>5, TodoTells DEF TableInv
  <2>2. QED
    BY <1>1, <2>1 DEF Tells
<1>6. QED
  BY <1>1, <1>2, <1>3, <1>4, <1>5 DEF TableInv

(* A file that was read tells the table all.                               *)
LEMMA ReadTells ==
  ASSUME HashInTable, GrowthEnds, SettingsIInv, Loads, table' = Read(conf), conf' = conf
  PROVE  SoundTable(table)' /\ Tells(Settings, conf)' /\ Tells(Others, conf)'
<1>1. conf \in Files
  BY Typed DEF Loads
<1>2. SoundTable(Read(conf)) /\ \A s \in Settings : Told(Read(conf), s, Said(conf)[s])
  BY <1>1, ReadIs
<1>3. QED
  BY <1>2 DEF Tells, Others

(* Plugin_Reload reads it, ...                                             *)
LEMMA LoadTells ==
  ASSUME HashInTable, GrowthEnds, SettingsIInv, TableInv, LoadConfig
  PROVE  TableInv'
<1>1. /\ up /\ todo # <<>> /\ todo[1].do = "load" /\ todo' = Tail(todo) /\ conf' = conf
      /\ Loads /\ table' = Read(conf) /\ up' = up /\ op' = op
  BY DEF LoadConfig, Do, files
<1>2. op' # "none" /\ (op' = "reload" => About(todo, StartOnLoad)')
  BY <1>1, TodoTells
<1>3. todo' # <<>> => todo'[1].do \notin {"unlink", "rename"}
  BY <1>1, TodoTells
<1>4. SoundTable(table)' /\ Tells(Others, conf)'
  BY <1>1, ReadTells
<1>5. QED
  BY <1>2, <1>3, <1>4 DEF TableInv

(* ... and so does Plugin_Init.                                            *)
LEMMA BootTells ==
  ASSUME HashInTable, GrowthEnds, SettingsIInv, TableInv, Boot
  PROVE  TableInv'
<1>1. /\ Loads /\ table' = Read(conf) /\ conf' = conf /\ op' = "none" /\ todo' = <<>>
  BY DEF Boot, files
<1>2. SoundTable(table)' /\ Tells(Settings, conf)'
  BY <1>1, ReadTells
<1>3. QED
  BY <1>1, <1>2 DEF TableInv

(* When the daemon is down, it tells nothing.                              *)
LEMMA DownTells ==
  ASSUME TableInv, Crash \/ LoadFails
  PROVE  TableInv'
<1>1. up' = FALSE /\ todo' = <<>> /\ table' = table /\ op' = op
  BY DEF Crash, LoadFails
<1>2. About(todo, StartOnLoad)'
  BY <1>1, NoSteps DEF About
<1>3. SoundTable(table)'
  BY <1>1 DEF TableInv
<1>4. QED
  BY <1>1, <1>2, <1>3 DEF TableInv

(* At first the file was read.                                             *)
LEMMA StartTells ==
  ASSUME HashInTable, GrowthEnds, SettingsInit
  PROVE  TableInv
<1>1. /\ conf \in BoundedSeq(Line, MaxLines) /\ table = Read(conf)
      /\ op = "none" /\ todo = <<>>
  BY DEF SettingsInit
<1>2. conf \in Files
  BY <1>1 DEF BoundedSeq, SeqOf, Files
<1>3. SoundTable(Read(conf)) /\ \A s \in Settings : Told(Read(conf), s, Said(conf)[s])
  BY <1>2, ReadIs
<1>4. QED
  BY <1>1, <1>3 DEF TableInv, Tells

(* Every step keeps it.                                                    *)
LEMMA StepTells ==
  ASSUME HashInTable, GrowthEnds, NoLonger, SettingsIInv, TableInv,
         [SettingsNext]_settingsVars
  PROVE  TableInv'
<1>1. CASE Enable
  BY <1>1, CallTells DEF Enable
<1>2. CASE Disable
  BY <1>2, CallTells DEF Disable
<1>3. CASE ReloadPlugin
  BY <1>3, CallTells, ReloadReads DEF ReloadPlugin
<1>4. CASE \E s \in Settings, v \in Values \cup {Empty} : SetConfig(s, v)
  BY <1>4, CallTells DEF SetConfig
<1>5. CASE WriteNew \/ UnlinkOld \/ RenameNew
  BY <1>5, WriteTells, UnlinkTells, RenameTells
<1>6. CASE SetEnabled("turn_off", FALSE) \/ SetEnabled("turn_on", TRUE)
  BY <1>6, SetEnabledTells
<1>7. CASE LoadConfig \/ LoadFails
  BY <1>7, LoadTells, DownTells
<1>8. CASE Crash \/ Boot
  BY <1>8, DownTells, BootTells
<1>9. CASE UNCHANGED settingsVars
  <2>1. /\ conf' = conf /\ newConf' = newConf /\ table' = table /\ up' = up
        /\ op' = op /\ todo' = todo
    BY <1>9 DEF settingsVars, files, memory
  <2>2. QED
    BY <2>1 DEF TableInv, Tells
<1>10. QED
  BY <1>1, <1>2, <1>3, <1>4, <1>5, <1>6, <1>7, <1>8, <1>9 DEF SettingsNext

(* The invariants give what the daemon finds in the table.                 *)
LEMMA TableTells ==
  ASSUME HashInTable, SettingsIInv, TableInv
  PROVE  RereadByReload
<1>1. SoundTable(table) /\ Well(table)
  BY DEF TableInv, SoundTable
<1>2. TableSound
  <2>1. ListedEntries(table) \in Seq(Entries)
    BY <1>1, ListedIs
  <2>2. \A i \in DOMAIN ListedEntries(table) : ListedEntries(table)[i] \in Entries
    BY <2>1
  <2>3. QED
    BY <1>1, <2>2 DEF TableSound, SoundTable, Well, Entries
<1>3. ASSUME Idle, up, op \in {"none", "reload"},
             NEW s \in (IF op = "reload" THEN Settings \ {StartOnLoad} ELSE Settings),
             NEW form \in {"original", "applied"}
      PROVE  Knows(ListedEntries(table), <<s, form>>, Said(conf)[s])
  <2>1. conf # Missing /\ conf \in Files
    BY <1>3, Typed DEF SettingsIInv, FileInv, Idle
  <2>2. Told(table, s, Said(conf)[s])
    <3>1. CASE op = "none"
      BY <1>3, <3>1 DEF TableInv, Tells
    <3>2. CASE op = "reload"
      <4>1. Loaded(todo)
        BY <1>3, NoSteps DEF Idle, Loaded
      <4>2. QED
        BY <1>3, <2>1, <3>2, <4>1 DEF TableInv, Tells, Others
    <3>3. QED
      BY <1>3, <3>1, <3>2
  <2>3. s \in Settings /\ Said(conf)[s] \in Values \cup {Empty}
    BY <1>3, <2>1, SaidType DEF Tables
  <2>4. <<s, form>> \in Keys
    BY <2>3, TableAssumption
  <2> DEFINE v == Said(conf)[s]
             key == <<s, form>>
  <2>5. FindEntry(table, key) = IF v = Empty THEN NoEntry ELSE Entry(key, v)
    BY <2>2 DEF Told
  <2> HIDE DEF v, key
  <2>6. Knows(ListedEntries(table), key, v)
    BY <1>1, <2>3, <2>4, <2>5, KnowsWhen DEF v, key
  <2>7. QED
    BY <2>6 DEF v, key
<1>4. QED
  BY <1>2, <1>3 DEF RereadByReload

(* pluginConf.c, hashtable.c: after a start or a reload the daemon finds   *)
(* every setting as the file has it and lists it once, however the entries *)
(* collided and however often the table grew: if the hash stays in the     *)
(* table, growing ends, and no other name begins with start-on-load.       *)
THEOREM RereadByReloadAlways ==
  ASSUME HashInTable, GrowthEnds, NoLonger
  PROVE  SettingsSpec => []RereadByReload
<1>1. SettingsInit => SettingsIInv /\ TableInv
  BY SettingsStart, StartTells
<1>2. SettingsIInv /\ TableInv /\ [SettingsNext]_settingsVars => (SettingsIInv /\ TableInv)'
  BY SettingsStep, StepTells
<1>3. SettingsIInv /\ TableInv => RereadByReload
  BY TableTells
<1>4. QED
  BY <1>1, <1>2, <1>3, PTL DEF SettingsSpec
=============================================================================
