------------------------- MODULE SubObjectsTree_proofs -------------------------
(***************************************************************************)
(* That the nodes of SubObjects implement KubeTree: what a reader from the *)
(* root finds is a tree, and each step changes it at one path and below.   *)
(***************************************************************************)
EXTENDS SubObjects_proofs, WellFoundedInduction

-----------------------------------------------------------------------------
(* The levels of a heap, which are defined by recursion. *)

(* Induction, for sets of numbers. *)
LEMMA AllNumbers ==
  ASSUME NEW S, 0 \in S, \A n \in Nat : n \in S => n + 1 \in S
  PROVE  \A n \in Nat : n \in S
<1>. DEFINE Out == {n \in Nat : n \notin S}
<1>. SUFFICES ASSUME Out # {} PROVE FALSE OBVIOUS
<1>1. IsWellFoundedOn(OpToRel(<, Nat), Nat) BY NatLessThanWellFounded
<1>2. \E x \in Out : \A y \in Out : ~(<<y, x>> \in OpToRel(<, Nat))
  BY <1>1, WFMin
<1>3. PICK x \in Out : \A y \in Out : ~(y < x) BY <1>2 DEF OpToRel
<1>4. x \in Nat /\ x # 0 BY <1>3
<1>5. x - 1 \in Nat /\ x - 1 < x /\ (x - 1) + 1 = x BY <1>4
<1>6. x - 1 \in S BY <1>3, <1>5
<1>. QED BY <1>3, <1>5, <1>6

Root == Place(<<>>, 1)

(* The levels up to one of them, which the definition of Levels describes. *)
LevelsUpTo(h, m, f) ==
  f = [n \in 0..m |-> IF n = 0 THEN {Root}
                      ELSE UNION {Below(h, place) : place \in f[n - 1]}]

LEMMA OneLevelMore ==
  ASSUME NEW h, NEW m \in Nat, NEW f, LevelsUpTo(h, m, f)
  PROVE  \E g : LevelsUpTo(h, m + 1, g)
<1>. DEFINE Next1(e) == UNION {Below(h, place) : place \in e}
            g == [n \in 0..m + 1 |-> IF n = 0 THEN {Root} ELSE Next1(f[n - 1])]
<1>1. f = [n \in 0..m |-> IF n = 0 THEN {Root} ELSE Next1(f[n - 1])]
  BY DEF LevelsUpTo
<1>. HIDE DEF Next1
<1>2. \A n \in 0..m : g[n] = f[n]
  <2>1. \A n \in 0..m : f[n] = IF n = 0 THEN {Root} ELSE Next1(f[n - 1])
    BY <1>1
  <2>2. \A n \in 0..m : n \in 0..m + 1 OBVIOUS
  <2>. QED BY <2>1, <2>2
<1>3. \A n \in 0..m + 1 : n # 0 => n - 1 \in 0..m OBVIOUS
<1>4. \A n \in 0..m + 1 : n # 0 => g[n - 1] = f[n - 1] BY <1>2, <1>3
<1>. DEFINE G == [n \in 0..m + 1 |-> IF n = 0 THEN {Root} ELSE Next1(g[n - 1])]
<1>5. \A n \in 0..m + 1 : g[n] = G[n]
  <2>. SUFFICES ASSUME NEW n \in 0..m + 1 PROVE g[n] = G[n] OBVIOUS
  <2>1. g[n] = IF n = 0 THEN {Root} ELSE Next1(f[n - 1]) OBVIOUS
  <2>2. G[n] = IF n = 0 THEN {Root} ELSE Next1(g[n - 1]) OBVIOUS
  <2>. HIDE DEF g, G
  <2>. QED BY <1>4, <2>1, <2>2
<1>6. g = G
  <2>1. g = [n \in 0..m + 1 |-> g[n]] OBVIOUS
  <2>2. G = [n \in 0..m + 1 |-> G[n]] OBVIOUS
  <2>. HIDE DEF g, G
  <2>. QED BY <1>5, <2>1, <2>2
<1>7. LevelsUpTo(h, m + 1, g)
  <2>. HIDE DEF g
  <2>. QED BY <1>6 DEF LevelsUpTo, Next1
<1>. QED BY <1>7

LEMMA LevelsExist ==
  ASSUME NEW h, NEW m \in Nat
  PROVE  \E f : LevelsUpTo(h, m, f)
<1>. DEFINE S == {n \in Nat : \E f : LevelsUpTo(h, n, f)}
<1>1. 0 \in S
  <2>. DEFINE f == [n \in 0..0 |-> {Root}]
  <2>1. f = [n \in 0..0 |-> IF n = 0 THEN {Root}
                            ELSE UNION {Below(h, place) : place \in f[n - 1]}]
    OBVIOUS
  <2>. HIDE DEF f
  <2>2. LevelsUpTo(h, 0, f) BY <2>1 DEF LevelsUpTo
  <2>. QED BY <2>2
<1>2. \A n \in Nat : n \in S => n + 1 \in S BY OneLevelMore
<1>. HIDE DEF S
<1>3. m \in S BY <1>1, <1>2, AllNumbers
<1>. QED BY <1>3 DEF S

LEMMA LevelsRecursion ==
  ASSUME NEW h
  PROVE  /\ Depth \in Nat
         /\ Levels(h)[0] = {Root}
         /\ \A n \in Nat : n < Depth =>
              Levels(h)[n + 1] = UNION {Below(h, place) : place \in Levels(h)[n]}
<1>1. Depth \in Nat BY BoundsAssumption DEF Depth
<1>2. \E f : LevelsUpTo(h, Depth, f) BY <1>1, LevelsExist
<1>3. LevelsUpTo(h, Depth, Levels(h))
  BY <1>2 DEF LevelsUpTo, Levels, Root
<1>4. \A n \in 0..Depth : Levels(h)[n] =
        IF n = 0 THEN {Root}
        ELSE UNION {Below(h, place) : place \in Levels(h)[n - 1]}
  BY <1>3 DEF LevelsUpTo
<1>5. \A n \in Nat : n < Depth => n + 1 \in 0..Depth /\ n + 1 # 0 /\ (n + 1) - 1 = n
  BY <1>1
<1>6. 0 \in 0..Depth BY <1>1
<1>7. ASSUME NEW n \in Nat, n < Depth
      PROVE  Levels(h)[n + 1] = UNION {Below(h, place) : place \in Levels(h)[n]}
  BY <1>4, <1>5, <1>7
<1>. QED BY <1>1, <1>4, <1>6, <1>7

-----------------------------------------------------------------------------
(* What a reader finds in a heap. *)

\* The heaps there are: TypeOK, OnePlace and RootOnTop, of any heap.
GoodHeap(h) ==
  /\ Len(h) \in Nat /\ 1 \in 1..Len(h)
  /\ \A n \in 1..Len(h), k \in Names : h[n].fields[k] \in Seq(1..Len(h))
  /\ \A n, m \in 1..Len(h), k, l \in Names :
       h[n].fields[k] # <<>> /\ h[m].fields[l] # <<>>
         /\ Head(h[n].fields[k]) = Head(h[m].fields[l]) => n = m /\ k = l
  /\ h[1].kind = "map"
  /\ \A n \in 1..Len(h), k \in Names :
       h[n].fields[k] # <<>> => Head(h[n].fields[k]) # 1
  /\ \A n \in 1..Len(h) : h[n].kind = "map" => h[n].value = NoString

LEMMA HeapIsGood == IInv => GoodHeap(heap)
<1>. SUFFICES ASSUME IInv PROVE GoodHeap(heap) OBVIOUS
<1>. USE DEF IInv
<1>1. Len(heap) \in Nat /\ Nodes = 1..Len(heap) /\ 1 \in 1..Len(heap)
  BY DEF TypeOK, Nodes
<1>2. \A n \in Nodes, k \in Names :
        /\ heap[n].fields[k] \in Seq(Nodes)
        /\ heap[n].fields[k] # <<>> =>
             /\ Head(heap[n].fields[k]) = heap[n].fields[k][1]
             /\ 1 \in DOMAIN heap[n].fields[k]
  BY FieldsOfNodes DEF Has, First
<1>3. \A n, m \in Nodes, k, l \in Names :
        heap[n].fields[k] # <<>> /\ heap[m].fields[l] # <<>>
          /\ Head(heap[n].fields[k]) = Head(heap[m].fields[l]) => n = m /\ k = l
  BY <1>2 DEF OnePlace
<1>4. \A n \in Nodes, k \in Names :
        heap[n].fields[k] # <<>> => Head(heap[n].fields[k]) # 1
  BY <1>2 DEF RootOnTop, Range
<1>. QED BY <1>1, <1>2, <1>3, <1>4 DEF GoodHeap, RootOnTop

LEMMA NextHeapIsGood == IInv' => GoodHeap(heap)'
BY HeapIsGood, PTL

\* How place a of the next level is below place b.
IsBelow(h, a, b, k) ==
  /\ k \in Names /\ h[b.node].kind = "map" /\ h[b.node].fields[k] # <<>>
  /\ a = Place(Append(b.path, k), Head(h[b.node].fields[k]))

LEMMA NextLevel ==
  ASSUME NEW h, NEW n \in Nat, n < Depth, NEW a
  PROVE  a \in Levels(h)[n + 1] <=>
           \E b \in Levels(h)[n], k \in Names : IsBelow(h, a, b, k)
<1>1. Levels(h)[n + 1] = UNION {Below(h, b) : b \in Levels(h)[n]}
  BY LevelsRecursion
<1>2. \A b : a \in Below(h, b) <=> \E k \in Names : IsBelow(h, a, b, k)
  BY DEF Below, IsBelow
<1>. QED BY <1>1, <1>2

\* Facts about the places of all levels hold if they hold of the root and of
\* whatever is below a place of which they hold.
LEMMA PlacesType ==
  ASSUME NEW h, GoodHeap(h), NEW n \in 0..Depth, NEW a \in Levels(h)[n]
  PROVE  /\ a = Place(a.path, a.node)
         /\ a.path \in Seq(Names) /\ Len(a.path) = n /\ a.node \in 1..Len(h)
<1>. DEFINE T(m, b) == /\ b = Place(b.path, b.node)
                       /\ b.path \in Seq(Names) /\ Len(b.path) = m
                       /\ b.node \in 1..Len(h)
            S == {m \in Nat : m <= Depth => \A b \in Levels(h)[m] : T(m, b)}
<1>1. Depth \in Nat BY LevelsRecursion
<1>2. 0 \in S
  <2>1. T(0, Root) BY DEF GoodHeap, Root, Place
  <2>. HIDE DEF T
  <2>. QED BY <1>1, <2>1, LevelsRecursion
<1>3. ASSUME NEW m \in Nat, m \in S PROVE m + 1 \in S
  <2>. SUFFICES ASSUME m + 1 <= Depth, NEW b \in Levels(h)[m + 1] PROVE T(m + 1, b)
    BY <1>3
  <2>1. m < Depth BY <1>1
  <2>2. PICK c \in Levels(h)[m], k \in Names : IsBelow(h, b, c, k)
    BY <2>1, NextLevel
  <2>3. T(m, c) BY <1>1, <1>3, <2>1
  <2>4. Head(h[c.node].fields[k]) \in 1..Len(h)
    <3>. DEFINE s == h[c.node].fields[k]
    <3>1. s \in Seq(1..Len(h)) /\ s # <<>>
      BY <2>2, <2>3 DEF GoodHeap, IsBelow
    <3>. HIDE DEF s
    <3>2. Head(s) \in 1..Len(h) BY <3>1
    <3>. QED BY <3>2 DEF s
  <2>5. Append(c.path, k) \in Seq(Names) /\ Len(Append(c.path, k)) = m + 1
    BY <2>3
  <2>. QED BY <2>2, <2>4, <2>5 DEF IsBelow, Place
<1>. HIDE DEF T, S
<1>4. n \in S BY <1>1, <1>2, <1>3, AllNumbers
<1>. QED BY <1>1, <1>4 DEF S, T

(* Every node is found at one path at most. *)
LEMMA OnePath ==
  ASSUME NEW h, GoodHeap(h),
         NEW n \in 0..Depth, NEW m \in 0..Depth,
         NEW a \in Levels(h)[n], NEW b \in Levels(h)[m], a.node = b.node
  PROVE  a = b
<1>. DEFINE S == {i \in Nat : i <= Depth =>
                    \A c \in Levels(h)[i], j \in 0..Depth : \A d \in Levels(h)[j] :
                      c.node = d.node => c = d}
<1>1. Depth \in Nat BY LevelsRecursion
<1>2. \A c \in Levels(h)[0] : c = Root /\ c.node = 1
  BY LevelsRecursion DEF Root, Place
<1>3. ASSUME NEW i \in Nat, i < Depth, NEW c \in Levels(h)[i + 1]
      PROVE  /\ \E d \in Levels(h)[i], k \in Names : IsBelow(h, c, d, k)
             /\ c.node # 1
  <2>1. PICK d \in Levels(h)[i], k \in Names : IsBelow(h, c, d, k)
    BY <1>3, NextLevel
  <2>2. i \in 0..Depth BY <1>1, <1>3
  <2>3. d.node \in 1..Len(h) BY <2>2, PlacesType
  <2>4. c.node # 1 BY <2>1, <2>3 DEF GoodHeap, IsBelow, Place
  <2>. QED BY <2>1, <2>4
<1>4. \A j \in 0..Depth : j = 0 \/ (j - 1 \in Nat /\ j - 1 < Depth /\ (j - 1) + 1 = j
                                     /\ j - 1 \in 0..Depth)
  BY <1>1
<1>5. 0 \in S
  <2>. SUFFICES ASSUME NEW c \in Levels(h)[0], NEW j \in 0..Depth,
                       NEW d \in Levels(h)[j], c.node = d.node
                PROVE  c = d
    OBVIOUS
  <2>. HIDE DEF S
  <2>1. c = Root /\ d.node = 1 BY <1>2
  <2>2. j = 0 BY <1>3, <1>4, <2>1
  <2>. QED BY <1>2, <2>1, <2>2
<1>6. ASSUME NEW i \in Nat, i \in S PROVE i + 1 \in S
  <2>. SUFFICES ASSUME i + 1 <= Depth, NEW c \in Levels(h)[i + 1],
                       NEW j \in 0..Depth,
                       NEW d \in Levels(h)[j], c.node = d.node
                PROVE  c = d
    OBVIOUS
  <2>0. /\ i < Depth /\ i <= Depth /\ i \in 0..Depth
    BY <1>1
  <2>1. \A e \in Levels(h)[i], l \in 0..Depth : \A f \in Levels(h)[l] :
          e.node = f.node => e = f
    BY <1>6, <2>0
  <2>. HIDE DEF S
  <2>2. c.node # 1 BY <1>3, <2>0
  <2>3. j # 0 BY <1>2, <2>2
  <2>4. /\ j - 1 \in Nat /\ j - 1 < Depth /\ (j - 1) + 1 = j /\ j - 1 \in 0..Depth
    BY <1>4, <2>3
  <2>5. PICK e \in Levels(h)[i], k \in Names : IsBelow(h, c, e, k)
    BY <1>3, <2>0
  <2>6. PICK f \in Levels(h)[j - 1], l \in Names : IsBelow(h, d, f, l)
    BY <1>3, <2>4
  <2>7. e.node \in 1..Len(h) /\ f.node \in 1..Len(h)
    BY <2>0, <2>4, PlacesType
  <2>8. Head(h[e.node].fields[k]) = Head(h[f.node].fields[l])
    BY <2>5, <2>6 DEF IsBelow, Place
  <2>9. e.node = f.node /\ k = l
    BY <2>5, <2>6, <2>7, <2>8 DEF GoodHeap, IsBelow
  <2>10. e = f BY <2>1, <2>4, <2>9
  <2>. QED BY <2>5, <2>6, <2>9, <2>10 DEF IsBelow
<1>. HIDE DEF S
<1>7. n \in S BY <1>1, <1>5, <1>6, AllNumbers
<1>. QED BY <1>1, <1>7 DEF S

(* Every path leads to one node at most. *)
LEMMA OneNode ==
  ASSUME NEW h, GoodHeap(h), NEW n \in 0..Depth,
         NEW a \in Levels(h)[n], NEW b \in Levels(h)[n], a.path = b.path
  PROVE  a = b
<1>. DEFINE S == {i \in Nat : i <= Depth =>
                    \A c, d \in Levels(h)[i] : c.path = d.path => c = d}
<1>1. Depth \in Nat BY LevelsRecursion
<1>2. 0 \in S BY LevelsRecursion
<1>3. ASSUME NEW i \in Nat, i \in S PROVE i + 1 \in S
  <2>. SUFFICES ASSUME i + 1 <= Depth, NEW c \in Levels(h)[i + 1],
                       NEW d \in Levels(h)[i + 1], c.path = d.path
                PROVE  c = d
    OBVIOUS
  <2>1. i < Depth /\ i <= Depth /\ i \in 0..Depth BY <1>1
  <2>2. \A e, f \in Levels(h)[i] : e.path = f.path => e = f BY <1>3, <2>1
  <2>. HIDE DEF S
  <2>3. PICK e \in Levels(h)[i], k \in Names : IsBelow(h, c, e, k)
    BY <2>1, NextLevel
  <2>4. PICK f \in Levels(h)[i], l \in Names : IsBelow(h, d, f, l)
    BY <2>1, NextLevel
  <2>5. /\ e.path \in Seq(Names) /\ Len(e.path) = i
        /\ f.path \in Seq(Names) /\ Len(f.path) = i
    BY <2>1, PlacesType
  <2>6. Append(e.path, k) = Append(f.path, l)
    BY <2>3, <2>4 DEF IsBelow, Place
  <2>7. e.path = f.path /\ k = l
    <3>. DEFINE p == e.path
                q == f.path
    <3>1. /\ p \in Seq(Names) /\ q \in Seq(Names)
          /\ Append(p, k) = Append(q, l)
      BY <2>5, <2>6
    <3>. HIDE DEF p, q
    <3>2. p = q /\ k = l BY <3>1, AppendInjective
    <3>. QED BY <3>2 DEF p, q
  <2>8. e = f BY <2>2, <2>7
  <2>. QED BY <2>3, <2>4, <2>7, <2>8 DEF IsBelow
<1>. HIDE DEF S
<1>4. n \in S BY <1>1, <1>2, <1>3, AllNumbers
<1>. QED BY <1>1, <1>4 DEF S

-----------------------------------------------------------------------------
(* Sequences. *)

LEMMA FrontOfAppend ==
  ASSUME NEW S, NEW s \in Seq(S), NEW e \in S
  PROVE  SubSeq(Append(s, e), 1, Len(Append(s, e)) - 1) = s
<1>. DEFINE a == Append(s, e)
<1>1. /\ a \in Seq(S) /\ Len(a) = Len(s) + 1 /\ Len(s) \in Nat
      /\ \A i \in 1..Len(s) : a[i] = s[i]
  OBVIOUS
<1>. HIDE DEF a
<1>2. Len(a) - 1 = Len(s) BY <1>1
<1>. DEFINE f == SubSeq(a, 1, Len(s))
<1>3. /\ f \in Seq(S) /\ Len(f) = Len(s)
      /\ \A i \in 1..Len(s) : f[i] = a[i]
  BY <1>1, SubSeqProperties
<1>. HIDE DEF f
<1>4. f = s BY <1>1, <1>3, SeqEqual
<1>. QED BY <1>2, <1>4 DEF f, a

\* Prefixes, by their elements.
LEMMA PrefixElements ==
  ASSUME NEW S, NEW s \in Seq(S), NEW t \in Seq(S)
  PROVE  IsPrefix(s, t) <=>
           Len(s) <= Len(t) /\ \A i \in 1..Len(s) : s[i] = t[i]
<1>1. CASE Len(s) <= Len(t)
  <2>. DEFINE f == SubSeq(s, 1, Len(s))
              g == SubSeq(t, 1, Len(s))
  <2>1. /\ f \in Seq(S) /\ Len(f) = Len(s)
        /\ \A i \in 1..Len(s) : f[i] = s[i]
    BY SubSeqProperties
  <2>2. /\ g \in Seq(S) /\ Len(g) = Len(s)
        /\ \A i \in 1..Len(s) : g[i] = t[i]
    BY <1>1, SubSeqProperties
  <2>3. IsPrefix(s, t) <=> f = g BY <1>1 DEF IsPrefix
  <2>. HIDE DEF f, g
  <2>4. f = g <=> \A i \in 1..Len(s) : f[i] = g[i] BY <2>1, <2>2, SeqEqual
  <2>. QED BY <1>1, <2>1, <2>2, <2>3, <2>4
<1>2. CASE ~(Len(s) <= Len(t)) BY <1>2 DEF IsPrefix
<1>. QED BY <1>1, <1>2

LEMMA PrefixOfLonger ==
  ASSUME NEW S, NEW s \in Seq(S), NEW t \in Seq(S), NEW e \in S, IsPrefix(s, t)
  PROVE  IsPrefix(s, Append(t, e))
<1>. DEFINE a == Append(t, e)
<1>1. /\ a \in Seq(S) /\ Len(a) = Len(t) + 1 /\ Len(t) \in Nat /\ Len(s) \in Nat
      /\ \A i \in 1..Len(t) : a[i] = t[i]
  OBVIOUS
<1>2. Len(s) <= Len(t) /\ \A i \in 1..Len(s) : s[i] = t[i] BY PrefixElements
<1>. HIDE DEF a
<1>3. Len(s) <= Len(a) /\ \A i \in 1..Len(s) : s[i] = a[i] BY <1>1, <1>2
<1>4. IsPrefix(s, a) BY <1>1, <1>3, PrefixElements
<1>. QED BY <1>4 DEF a

-----------------------------------------------------------------------------
(* What a change of one node leaves alone. *)

\* From heap h to heap g, only the pairs of node n with key k change.
OneNodeChanges(h, g, n, k) ==
  /\ Len(h) <= Len(g)
  /\ \A m \in 1..Len(h) : g[m].kind = h[m].kind /\ g[m].value = h[m].value
  /\ \A m \in 1..Len(h), l \in Names :
       ~(m = n /\ l = k) => g[m].fields[l] = h[m].fields[l]

(* Every change of the heap is one of these. *)
LEMMA ChangesOneNode ==
  ASSUME TypeOK, NEW nodes, NEW n, NEW k, NEW pairs, Changes(nodes, n, k, pairs)
  PROVE  OneNodeChanges(heap, heap', n, k) /\ heap'[n].fields[k] = pairs
<1>1. n \in Nodes /\ k \in Names BY DEF Changes
<1>2. /\ Len(heap') = Len(heap) + Len(nodes)
      /\ Len(heap) \in Nat /\ Len(nodes) \in Nat
  BY ChangedHeap
<1>3. \A m \in Nodes : heap'[m].kind = heap[m].kind /\ heap'[m].value = heap[m].value
  BY ChangedHeap
<1>4. \A m \in Nodes, l \in Names :
        heap'[m].fields[l] = IF m = n /\ l = k THEN pairs ELSE heap[m].fields[l]
  BY ChangedHeap
<1>. QED BY <1>1, <1>2, <1>3, <1>4 DEF OneNodeChanges, Nodes

\* Of no path in O, nor of what leads to it, is the last field key k of node n.
KeepsOut(h, n, k, O) ==
  /\ \A p \in Seq(Names), l \in Names : Append(p, l) \in O => p \in O
  /\ \A i \in Nat : i < Depth =>
       \A b \in Levels(h)[i] :
         b.node = n /\ h[b.node].kind = "map" => Append(b.path, k) \notin O

(* The places at paths that do not go through what changes are the same.   *)
LEMMA SamePlaces ==
  ASSUME NEW h, NEW g, GoodHeap(h), GoodHeap(g), NEW n, NEW k,
         OneNodeChanges(h, g, n, k),
         NEW O, KeepsOut(h, n, k, O),
         NEW j \in 0..Depth, NEW a, a.path \in O
  PROVE  a \in Levels(h)[j] <=> a \in Levels(g)[j]
<1>. DEFINE S == {i \in Nat : i <= Depth =>
                    \A b : b.path \in O => (b \in Levels(h)[i] <=> b \in Levels(g)[i])}
<1>. USE DEF KeepsOut
<1>1. Depth \in Nat BY LevelsRecursion
<1>2. 0 \in S BY LevelsRecursion
<1>3. ASSUME NEW i \in Nat, i \in S PROVE i + 1 \in S
  <2>. SUFFICES ASSUME i + 1 <= Depth, NEW b, b.path \in O
                PROVE  b \in Levels(h)[i + 1] <=> b \in Levels(g)[i + 1]
    OBVIOUS
  <2>1. i < Depth /\ i \in 0..Depth /\ i <= Depth BY <1>1
  <2>2. \A c : c.path \in O => (c \in Levels(h)[i] <=> c \in Levels(g)[i])
    BY <1>3, <2>1
  <2>. HIDE DEF S
  <2>3. ASSUME NEW c, c \in Levels(h)[i], NEW l \in Names, Append(c.path, l) \in O
        PROVE  IsBelow(h, b, c, l) <=> IsBelow(g, b, c, l)
    <3>1. c.node \in 1..Len(h) BY <2>1, <2>3, PlacesType
    <3>2. g[c.node].kind = h[c.node].kind BY <3>1 DEF OneNodeChanges
    <3>3. h[c.node].kind = "map" => ~(c.node = n /\ l = k) BY <2>1, <2>3
    <3>4. h[c.node].kind = "map" => g[c.node].fields[l] = h[c.node].fields[l]
      BY <3>1, <3>3 DEF OneNodeChanges
    <3>. QED BY <3>2, <3>4 DEF IsBelow
  <2>4. ASSUME b \in Levels(h)[i + 1] PROVE b \in Levels(g)[i + 1]
    <3>1. PICK c \in Levels(h)[i], l \in Names : IsBelow(h, b, c, l)
      BY <2>1, <2>4, NextLevel
    <3>2. Append(c.path, l) \in O BY <3>1 DEF IsBelow, Place
    <3>3. c.path \in O BY <2>1, <3>2, PlacesType
    <3>4. c \in Levels(g)[i] /\ IsBelow(g, b, c, l) BY <2>2, <2>3, <3>1, <3>2, <3>3
    <3>. QED BY <2>1, <3>4, NextLevel
  <2>5. ASSUME b \in Levels(g)[i + 1] PROVE b \in Levels(h)[i + 1]
    <3>1. PICK c \in Levels(g)[i], l \in Names : IsBelow(g, b, c, l)
      BY <2>1, <2>5, NextLevel
    <3>2. Append(c.path, l) \in O BY <3>1 DEF IsBelow, Place
    <3>3. c.path \in O BY <2>1, <3>2, PlacesType
    <3>4. c \in Levels(h)[i] BY <2>2, <3>3
    <3>5. IsBelow(h, b, c, l) BY <2>3, <3>1, <3>2, <3>4
    <3>. QED BY <2>1, <3>4, <3>5, NextLevel
  <2>. QED BY <2>4, <2>5
<1>. HIDE DEF S
<1>4. j \in S BY <1>1, <1>2, <1>3, AllNumbers
<1>. QED BY <1>1, <1>4 DEF S

\* The fields of the tree are those of the places of all levels.
LEMMA TreeFields ==
  ASSUME NEW h, NEW f
  PROVE  f \in TreeOf(h) <=>
           \E i \in 0..Depth : \E a \in Levels(h)[i] : f = FieldAt(h, a)
BY DEF TreeOf, FoundIn

\* ... and so the fields at such paths.
LEMMA SameFields ==
  ASSUME NEW h, NEW g, GoodHeap(h), GoodHeap(g), NEW n, NEW k,
         OneNodeChanges(h, g, n, k),
         NEW O, KeepsOut(h, n, k, O),
         NEW f, f.path \in O
  PROVE  f \in TreeOf(h) <=> f \in TreeOf(g)
<1>1. ASSUME NEW i \in 0..Depth, NEW a \in Levels(h)[i]
      PROVE  FieldAt(h, a) = FieldAt(g, a) /\ FieldAt(h, a).path = a.path
  <2>1. a.node \in 1..Len(h) BY PlacesType
  <2>. QED BY <2>1 DEF FieldAt, OneNodeChanges
<1>2. \A a : FieldAt(g, a).path = a.path BY DEF FieldAt
<1>3. ASSUME f \in TreeOf(h) PROVE f \in TreeOf(g)
  <2>0. PICK i \in 0..Depth : \E a \in Levels(h)[i] : f = FieldAt(h, a)
    BY <1>3, TreeFields
  <2>1. PICK a \in Levels(h)[i] : f = FieldAt(h, a) BY <2>0
  <2>2. a.path \in O BY <1>1, <2>1
  <2>3. a \in Levels(g)[i] BY <2>1, <2>2, SamePlaces
  <2>. QED BY <1>1, <2>1, <2>3, TreeFields
<1>4. ASSUME f \in TreeOf(g) PROVE f \in TreeOf(h)
  <2>0. PICK i \in 0..Depth : \E a \in Levels(g)[i] : f = FieldAt(g, a)
    BY <1>4, TreeFields
  <2>1. PICK a \in Levels(g)[i] : f = FieldAt(g, a) BY <2>0
  <2>2. a.path \in O BY <1>2, <2>1
  <2>3. a \in Levels(h)[i] BY <2>1, <2>2, SamePlaces
  <2>. QED BY <1>1, <2>1, <2>3, TreeFields
<1>. QED BY <1>3, <1>4

-----------------------------------------------------------------------------
(* The refinement. *)

TreePaths == UNION {[1..n -> Names] : n \in 0..Depth}

\* The paths of places, and what is above them.
LEMMA PathsOfPlaces ==
  ASSUME NEW h, GoodHeap(h), NEW i \in 0..Depth, NEW a \in Levels(h)[i]
  PROVE  /\ a.path \in TreePaths /\ FieldAt(h, a).path = a.path
         /\ a.path # <<>> =>
              \E f \in TreeOf(h) :
                /\ f.path = Tree!Front(a.path)
                /\ f.content = [kind |-> "map", value |-> NoString]
<1>1. /\ a.path \in Seq(Names) /\ Len(a.path) = i /\ a.node \in 1..Len(h)
      /\ Depth \in Nat
  BY PlacesType, LevelsRecursion
<1>2. a.path \in TreePaths
  <2>1. a.path \in [1..i -> Names] BY <1>1
  <2>. QED BY <2>1 DEF TreePaths
<1>3. FieldAt(h, a).path = a.path BY DEF FieldAt
<1>4. ASSUME a.path # <<>>
      PROVE  \E f \in TreeOf(h) :
               /\ f.path = Tree!Front(a.path)
               /\ f.content = [kind |-> "map", value |-> NoString]
  <2>1. i # 0 BY <1>1, <1>4
  <2>2. i - 1 \in Nat /\ i - 1 < Depth /\ (i - 1) + 1 = i /\ i - 1 \in 0..Depth
    BY <1>1, <2>1
  <2>3. PICK b \in Levels(h)[i - 1], k \in Names : IsBelow(h, a, b, k)
    BY <2>2, NextLevel
  <2>4. b.path \in Seq(Names) /\ b.node \in 1..Len(h) BY <2>2, PlacesType
  <2>5. a.path = Append(b.path, k) BY <2>3 DEF IsBelow, Place
  <2>6. Tree!Front(a.path) = b.path BY <2>4, <2>5, FrontOfAppend DEF Tree!Front
  <2>7. FieldAt(h, b).content = [kind |-> "map", value |-> NoString]
    BY <2>3, <2>4 DEF FieldAt, GoodHeap, IsBelow
  <2>8. FieldAt(h, b) \in TreeOf(h) /\ FieldAt(h, b).path = b.path
    BY <2>2, TreeFields DEF FieldAt
  <2>. QED BY <2>6, <2>7, <2>8
<1>. QED BY <1>2, <1>3, <1>4

(* What a reader finds is a tree. *)
LEMMA HeapsAreTrees ==
  ASSUME NEW h, GoodHeap(h)
  PROVE  /\ Tree!IsTree(TreeOf(h))
         /\ Tree!Field(<<>>, [kind |-> "map", value |-> NoString]) \in TreeOf(h)
<1>. DEFINE map == [kind |-> "map", value |-> NoString]
<1>1. \A f \in TreeOf(h) : f.path \in TreePaths
  BY TreeFields, PathsOfPlaces
<1>2. ASSUME NEW f \in TreeOf(h), NEW g \in TreeOf(h), f.path = g.path
      PROVE  f = g
  <2>0. PICK i \in 0..Depth : \E a \in Levels(h)[i] : f = FieldAt(h, a)
    BY TreeFields
  <2>1. PICK a \in Levels(h)[i] : f = FieldAt(h, a) BY <2>0
  <2>2. PICK j \in 0..Depth : \E b \in Levels(h)[j] : g = FieldAt(h, b)
    BY TreeFields
  <2>3. PICK b \in Levels(h)[j] : g = FieldAt(h, b) BY <2>2
  <2>4. a.path = b.path BY <1>2, <2>1, <2>3 DEF FieldAt
  <2>5. i = j
    <3>1. Len(a.path) = i BY PlacesType
    <3>2. Len(b.path) = j BY PlacesType
    <3>. QED BY <2>4, <3>1, <3>2
  <2>6. a = b BY <2>4, <2>5, OneNode
  <2>. QED BY <2>1, <2>3, <2>6
<1>3. ASSUME NEW f \in TreeOf(h), f.path # <<>>
      PROVE  \E g \in TreeOf(h) : g.path = Tree!Front(f.path) /\ g.content = map
  BY <1>3, TreeFields, PathsOfPlaces
<1>4. Tree!IsTree(TreeOf(h))
  BY <1>1, <1>2, <1>3 DEF Tree!IsTree, TreePaths
<1>5. Tree!Field(<<>>, map) \in TreeOf(h)
  <2>1. Root \in Levels(h)[0] /\ 0 \in 0..Depth BY LevelsRecursion
  <2>2. FieldAt(h, Root) = Tree!Field(<<>>, map)
    BY DEF FieldAt, Root, Place, Tree!Field, GoodHeap
  <2>. QED BY <2>1, <2>2, TreeFields
<1>. QED BY <1>4, <1>5

(* A change of one node changes the tree at one path and below, or not at  *)
(* all if the node is not in it.                                           *)
LEMMA TreeChange ==
  ASSUME NEW h, NEW g, GoodHeap(h), GoodHeap(g), NEW n, NEW k \in Names,
         OneNodeChanges(h, g, n, k)
  PROVE  \/ TreeOf(g) = TreeOf(h)
         \/ \E p \in TreePaths \ {<<>>} : Tree!Changes(p, TreeOf(h), TreeOf(g))
<1>1. Depth \in Nat BY LevelsRecursion
<1>. DEFINE Reached == \E i \in Nat : i < Depth /\
                         \E b \in Levels(h)[i] : b.node = n /\ h[b.node].kind = "map"
<1>2. CASE ~Reached
  <2>. DEFINE O == {f.path : f \in TreeOf(h) \cup TreeOf(g)} \cup Seq(Names)
  <2>1. \A i \in Nat : i < Depth =>
          \A b \in Levels(h)[i] :
            b.node = n /\ h[b.node].kind = "map" => Append(b.path, k) \notin O
    BY <1>2
  <2>2. \A p \in Seq(Names), l \in Names : Append(p, l) \in O => p \in O OBVIOUS
  <2>3. \A f \in TreeOf(h) \cup TreeOf(g) : f.path \in O OBVIOUS
  <2>. HIDE DEF O
  <2>4. KeepsOut(h, n, k, O) BY <2>1, <2>2 DEF KeepsOut
  <2>5. \A f : f.path \in O => (f \in TreeOf(h) <=> f \in TreeOf(g))
    BY <2>4, SameFields
  <2>. QED BY <2>3, <2>5
<1>3. CASE Reached
  <2>1. PICK i \in Nat : i < Depth /\
               \E b \in Levels(h)[i] : b.node = n /\ h[b.node].kind = "map"
    BY <1>3
  <2>2. PICK b \in Levels(h)[i] : b.node = n /\ h[b.node].kind = "map" BY <2>1
  <2>3. i \in 0..Depth BY <1>1, <2>1
  <2>4. b.path \in Seq(Names) /\ Len(b.path) = i /\ b.node \in 1..Len(h)
    BY <2>3, PlacesType
  <2>. DEFINE p == Append(b.path, k)
              O == {q \in Seq(Names) : ~Tree!IsPrefix(p, q)}
  <2>5. /\ p \in Seq(Names) /\ Len(p) = i + 1 /\ p # <<>>
    BY <2>4
  <2>6. p \in TreePaths
    <3>. HIDE DEF p
    <3>1. i + 1 \in 0..Depth /\ p \in [1..i + 1 -> Names] BY <1>1, <2>1, <2>5
    <3>. QED BY <3>1 DEF TreePaths
  <2>7. \A s, t : Tree!IsPrefix(s, t) <=> IsPrefix(s, t)
    BY DEF Tree!IsPrefix, IsPrefix
  <2>8. Tree!Field(Tree!Front(p), [kind |-> "map", value |-> NoString]) \in TreeOf(h)
    <3>1. Tree!Front(p) = b.path BY <2>4, FrontOfAppend DEF Tree!Front
    <3>2. FieldAt(h, b) = Tree!Field(b.path, [kind |-> "map", value |-> NoString])
      BY <2>2, <2>4 DEF FieldAt, Tree!Field, GoodHeap
    <3>. QED BY <2>3, <3>1, <3>2, TreeFields
  <2>9. IsPrefix(p, p)
    <3>. HIDE DEF p
    <3>. QED BY <2>5 DEF IsPrefix
  <2>10. \A q \in Seq(Names), l \in Names : Append(q, l) \in O => q \in O
    <3>. HIDE DEF p
    <3>. QED BY <2>5, <2>7, PrefixOfLonger
  <2>11. ASSUME NEW j \in Nat, j < Depth, NEW c \in Levels(h)[j],
                c.node = n, h[c.node].kind = "map"
         PROVE  Append(c.path, k) \notin O
    <3>1. j \in 0..Depth BY <1>1, <2>11
    <3>2. c = b BY <2>2, <2>3, <2>11, <3>1, OnePath
    <3>. QED BY <2>7, <2>9, <3>2
  <2>12. ASSUME NEW f \in TreeOf(h) \cup TreeOf(g), f.path \notin O
         PROVE  Tree!IsPrefix(p, f.path)
    <3>1. f.path \in TreePaths BY TreeFields, PathsOfPlaces
    <3>2. f.path \in Seq(Names) BY <3>1 DEF TreePaths
    <3>. QED BY <2>12, <3>2
  <2>. HIDE DEF O, p
  <2>13. \A f : f.path \in O => (f \in TreeOf(h) <=> f \in TreeOf(g))
    <3>1. KeepsOut(h, n, k, O) BY <2>10, <2>11 DEF KeepsOut
    <3>. QED BY <3>1, SameFields
  <2>14. Tree!Changes(p, TreeOf(h), TreeOf(g))
    BY <2>8, <2>12, <2>13 DEF Tree!Changes
  <2>. QED BY <2>5, <2>6, <2>14 DEF p
<1>. QED BY <1>2, <1>3

(* Each step of SubObjects is a step of the tree, or leaves it as it is. *)
LEMMA StepTree == IInv /\ IInv' /\ [Next]_vars => [Tree!TreeNext]_tree
<1>. SUFFICES ASSUME IInv, IInv', [Next]_vars PROVE [Tree!TreeNext]_tree OBVIOUS
<1>1. tree' = TreeOf(heap') /\ tree = TreeOf(heap)
  BY DEF tree, TreeOf, FoundIn
<1>2. CASE UNCHANGED heap BY <1>1, <1>2
<1>3. ASSUME NEW nodes, NEW n, NEW k, NEW pairs, Changes(nodes, n, k, pairs)
      PROVE  [Tree!TreeNext]_tree
  <2>1. TypeOK /\ k \in Names BY <1>3 DEF IInv, Changes
  <2>2. GoodHeap(heap) BY HeapIsGood
  <2>3. GoodHeap(heap') BY NextHeapIsGood DEF GoodHeap
  <2>4. OneNodeChanges(heap, heap', n, k)
    BY <1>3, <2>1, ChangesOneNode
  <2>5. \/ tree' = tree
        \/ \E p \in TreePaths \ {<<>>} : Tree!Changes(p, tree, tree')
    BY <1>1, <2>1, <2>2, <2>3, <2>4, TreeChange
  <2>6. Tree!IsTree(tree') BY <1>1, <2>3, HeapsAreTrees
  <2>. QED BY <2>5, <2>6 DEF Tree!TreeNext, Tree!ChangesOnePlace, TreePaths
<1>. QED BY <1>2, <1>3, HeapSteps DEF IInv

(***************************************************************************)
(* However many references to its nodes a function has and in whichever    *)
(* order it uses them, an object is a tree to it: each step changes what   *)
(* is at one path and below, or nothing, and leaves all other fields, up   *)
(* to any depth, as they are.                                              *)
(***************************************************************************)
THEOREM NodesImplementTree == Spec => ImplementsTree
<1>1. IInv => Tree!TreeInit
  BY HeapIsGood, HeapsAreTrees DEF Tree!TreeInit, tree
<1>2. IInv /\ IInv' /\ [Next]_vars => [Tree!TreeNext]_tree BY StepTree
<1>. QED
  BY <1>1, <1>2, InitIInv, NodesInvariant, PTL
  DEF Spec, ImplementsTree, Tree!TreeSpec

-----------------------------------------------------------------------------
(* The way of a call. *)

\* In heap h, field k of node n is node m, a map.
LeadsTo(h, n, k, m) ==
  h[n].fields[k] # <<>> /\ Head(h[n].fields[k]) = m /\ h[m].kind = "map"

\* The nodes call c has gone through, from the SubObject it is a method of.
Way(h, c, w) ==
  /\ w \in [1..c.i -> 1..Len(h)]
  /\ w[1] = c.ref /\ w[c.i] = c.at
  /\ \A j \in 1..c.i - 1 : LeadsTo(h, w[j], c.fields[j], w[j + 1])

CallWay == call # Idle => \E w : Way(heap, call, w)

\* A way that goes one field further.
LEMMA WayGoesOn ==
  ASSUME NEW h, NEW g, Len(h) \in Nat, Len(g) \in Nat, Len(h) <= Len(g),
         NEW c, NEW w, Way(h, c, w), c.i \in Nat \ {0},
         \A j \in 1..c.i - 1 : LeadsTo(g, w[j], c.fields[j], w[j + 1]),
         NEW m \in 1..Len(g), LeadsTo(g, c.at, c.fields[c.i], m),
         NEW d, d.ref = c.ref, d.fields = c.fields, d.i = c.i + 1, d.at = m
  PROVE  \E v : Way(g, d, v)
<1>. DEFINE i == c.i
            v == [j \in 1..i + 1 |-> IF j = i + 1 THEN m ELSE w[j]]
<1>1. i \in Nat \ {0} OBVIOUS
<1>2. /\ w \in [1..i -> 1..Len(h)] /\ w[1] = c.ref /\ w[i] = c.at
      /\ \A j \in 1..i - 1 : LeadsTo(g, w[j], c.fields[j], w[j + 1])
      /\ LeadsTo(g, c.at, c.fields[i], m)
  BY DEF Way
<1>3. /\ d.ref = c.ref /\ d.fields = c.fields /\ d.i = i + 1 /\ d.at = m
  OBVIOUS
<1>. HIDE DEF i
<1>4. \A j \in 1..i : w[j] \in 1..Len(g) BY <1>2
<1>5. v \in [1..i + 1 -> 1..Len(g)] BY <1>1, <1>4
<1>6. v[i + 1] = m /\ v[1] = c.ref /\ \A j \in 1..i : v[j] = w[j] BY <1>1, <1>2
<1>. HIDE DEF v
<1>7. ASSUME NEW j \in 1..i PROVE LeadsTo(g, v[j], c.fields[j], v[j + 1])
  <2>1. CASE j = i BY <1>1, <1>2, <1>6, <2>1
  <2>2. CASE j # i
    <3>1. j \in 1..i - 1 /\ j + 1 \in 1..i BY <1>1, <2>2
    <3>. QED BY <1>2, <1>6, <3>1
  <2>. QED BY <2>1, <2>2
<1>8. (i + 1) - 1 = i BY <1>1
<1>9. Way(g, d, v) BY <1>3, <1>5, <1>6, <1>7, <1>8 DEF Way
<1>. QED BY <1>9

\* The fields of a call are names.
LEMMA CallFields ==
  ASSUME TypeOK, call # Idle
  PROVE  /\ call.fields \in Seq(Names) /\ call.i \in 1..Len(call.fields)
         /\ Len(call.fields) \in Nat
<1>1. call.fields \in FieldPaths /\ call.i \in DOMAIN call.fields
  BY DEF TypeOK, CallOK
<1>2. PICK n \in 1..MaxFields : call.fields \in [1..n -> Names]
  BY <1>1 DEF FieldPaths, PathsUpTo
<1>3. n \in Nat BY <1>2, BoundsAssumption
<1>4. call.fields \in Seq(Names) /\ Len(call.fields) = n /\ DOMAIN call.fields = 1..n
  BY <1>2, <1>3, FunctionIsSeq
<1>. QED BY <1>1, <1>3, <1>4

(* Every step keeps the way of the call. *)
LEMMA StepCallWay == IInv /\ IInv' /\ CallWay /\ [Next]_vars => CallWay'
<1>. SUFFICES ASSUME IInv, IInv', CallWay, [Next]_vars PROVE CallWay' OBVIOUS
<1>. USE DEF IInv
<1>1. /\ Len(heap) \in Nat /\ Nodes = 1..Len(heap) BY DEF TypeOK, Nodes
<1>2. CASE call' = Idle BY <1>2 DEF CallWay, Idle
<1>3. ASSUME NEW op, NEW r, NEW fields, NEW val, Call(op, r, fields, val)
      PROVE  CallWay'
  <2>1. call'.ref = r /\ call'.at = r /\ call'.i = 1 BY <1>3 DEF Call
  <2>2. r \in 1..Len(heap') BY <2>1 DEF TypeOK, CallOK, Nodes
  <2>. DEFINE w == [j \in 1..1 |-> r]
  <2>3. w \in [1..1 -> 1..Len(heap')] /\ w[1] = r BY <2>2
  <2>. HIDE DEF w
  <2>4. Way(heap', call', w) BY <2>1, <2>3 DEF Way
  <2>. QED BY <2>4 DEF CallWay
<1>4. ASSUME call # Idle
      PROVE  /\ \E w : Way(heap, call, w)
             /\ call.fields \in Seq(Names) /\ call.i \in 1..Len(call.fields)
             /\ Len(call.fields) \in Nat
  BY <1>4, CallFields DEF CallWay
<1>5. CASE Descend
  <2>1. call # Idle /\ ~atLast /\ HasMap(call.at, key) BY <1>5 DEF Descend
  <2>2. PICK w : Way(heap, call, w) BY <1>4, <2>1
  <2>3. First(call.at, key) \in Nodes BY <2>1, CallKey, FieldsOfNodes DEF HasMap
  <2>4. LeadsTo(heap, call.at, call.fields[call.i], First(call.at, key))
    BY <2>1 DEF LeadsTo, HasMap, Has, First, key
  <2>5. /\ call'.ref = call.ref /\ call'.fields = call.fields
        /\ call'.i = call.i + 1 /\ call'.at = First(call.at, key) /\ heap' = heap
    BY <1>5 DEF Descend, TypeOK, CallOK
  <2>6. call.i \in Nat \ {0} BY <1>4, <2>1
  <2>7. \E v : Way(heap, call', v)
    <3>1. \A j \in 1..call.i - 1 : LeadsTo(heap, w[j], call.fields[j], w[j + 1])
      BY <2>2 DEF Way
    <3>2. First(call.at, key) \in 1..Len(heap) BY <1>1, <2>3
    <3>3. Len(heap) <= Len(heap) BY <1>1
    <3>. DEFINE m == First(call.at, key)
                d == call'
    <3>4. m \in 1..Len(heap) /\ LeadsTo(heap, call.at, call.fields[call.i], m)
      BY <2>4, <3>2
    <3>5. d.ref = call.ref /\ d.fields = call.fields /\ d.i = call.i + 1 /\ d.at = m
      BY <2>5
    <3>. HIDE DEF m, d
    <3>6. \E v : Way(heap, d, v)
      BY <1>1, <2>2, <2>6, <3>1, <3>3, <3>4, <3>5, WayGoesOn
    <3>. QED BY <3>6 DEF d
  <2>. QED BY <2>5, <2>7 DEF CallWay
<1>6. CASE MakeMap
  <2>1. call # Idle /\ ~Has(call.at, key) BY <1>6 DEF MakeMap, Idle
  <2>2. PICK w : Way(heap, call, w) BY <1>4, <2>1
  <2>3. Changes(<<MapNode>>, call.at, key, <<Len(heap) + 1>>)
    BY <1>6, MakeMapChanges
  <2>. DEFINE new == Len(heap) + 1
              pairs == <<new>>
  <2>4. /\ Len(heap') = new
        /\ heap'[new] = MapNode
        /\ heap'[call.at].fields[key] = pairs
        /\ \A m \in Nodes : heap'[m].kind = heap[m].kind
        /\ \A m \in Nodes, l \in Names :
             ~(m = call.at /\ l = key) => heap'[m].fields[l] = heap[m].fields[l]
    <3>1. 1 \in DOMAIN <<MapNode>> /\ <<MapNode>>[1] = MapNode /\ Len(<<MapNode>>) = 1
      OBVIOUS
    <3>2. call.at \in Nodes /\ key \in Names BY <2>1, CallKey
    <3>. HIDE DEF pairs
    <3>3. Changes(<<MapNode>>, call.at, key, pairs) BY <2>3 DEF pairs
    <3>. DEFINE nodes == <<MapNode>>
    <3>4. 1 \in DOMAIN nodes /\ nodes[1] = MapNode /\ Len(nodes) = 1 BY <3>1
    <3>5. Changes(nodes, call.at, key, pairs) BY <3>3
    <3>. HIDE DEF nodes
    <3>6. /\ Len(heap') = Len(heap) + Len(nodes)
          /\ \A j \in DOMAIN nodes : heap'[Len(heap) + j] = nodes[j]
          /\ heap'[call.at].fields[key] = pairs
          /\ \A m \in Nodes : heap'[m].kind = heap[m].kind
          /\ \A m \in Nodes, l \in Names :
               ~(m = call.at /\ l = key) => heap'[m].fields[l] = heap[m].fields[l]
      BY <3>2, <3>5, ChangedHeap
    <3>7. heap'[Len(heap) + 1] = MapNode BY <3>4, <3>6
    <3>. QED BY <3>4, <3>6, <3>7
  <2>5. /\ call'.ref = call.ref /\ call'.fields = call.fields
        /\ call'.i = call.i + 1 /\ call'.at = new
    BY <1>6 DEF MakeMap, TypeOK, CallOK
  <2>6. call.i \in Nat \ {0} BY <1>4, <2>1
  <2>7. LeadsTo(heap', call.at, call.fields[call.i], new)
    <3>1. pairs # <<>> /\ Head(pairs) = new OBVIOUS
    <3>. HIDE DEF pairs
    <3>. QED BY <2>4, <3>1 DEF LeadsTo, MapNode, Node, key
  <2>. HIDE DEF new, pairs
  <2>8. ASSUME NEW j \in 1..call.i - 1
        PROVE  LeadsTo(heap', w[j], call.fields[j], w[j + 1])
    <3>1. j \in 1..call.i /\ j + 1 \in 1..call.i /\ j \in 1..Len(call.fields)
      BY <1>4, <2>1, <2>6
    <3>5. w \in [1..call.i -> Nodes] BY <1>1, <2>2 DEF Way
    <3>6. call.fields[j] \in Names BY <1>4, <2>1, <3>1
    <3>2. w[j] \in Nodes /\ w[j + 1] \in Nodes /\ call.fields[j] \in Names
      BY <3>1, <3>5, <3>6
    <3>3. LeadsTo(heap, w[j], call.fields[j], w[j + 1]) BY <2>2 DEF Way
    <3>4. ~(w[j] = call.at /\ call.fields[j] = key)
      BY <2>1, <3>3 DEF LeadsTo, Has
    <3>. QED BY <2>4, <3>2, <3>3, <3>4 DEF LeadsTo
  <2>9. \E v : Way(heap', call', v)
    <3>1. Len(heap') \in Nat /\ Len(heap) <= Len(heap') /\ new \in 1..Len(heap')
      BY <1>1, <2>4 DEF new
    <3>. QED BY <1>1, <2>2, <2>5, <2>6, <2>7, <2>8, <3>1, WayGoesOn
  <2>. QED BY <2>9 DEF CallWay
<1>7. ASSUME NEW r \in held, NEW k \in Names,
             UpsertMap(r, k) \/ GetMap(r, k) \/ GetSlice(r, k)
      PROVE  CallWay'
  BY <1>2, <1>7 DEF UpsertMap, GetMap, GetSlice, ReturnSubObjects
<1>8. CASE SetValue \/ RemoveField \/ GiveUp \/ FoundSubObject
  BY <1>2, <1>8
  DEF SetValue, RemoveField, GiveUp, FoundSubObject, Return, ReturnSubObjects
<1>9. CASE UNCHANGED vars BY <1>9 DEF vars, CallWay
<1>. QED
  BY <1>3, <1>5, <1>6, <1>7, <1>8, <1>9
  DEF Next, Function, Library, SetNestedField, SetSlice, RemoveNestedField,
      RemoveAnnotationsIfEmpty, NestedSubObject
(* A reader who finds a node the call has gone through, a map, finds the   *)
(* node of the SubObject.                                                  *)
LEMMA WayUp ==
  ASSUME NEW h, GoodHeap(h), NEW c, NEW w, Way(h, c, w),
         c.i \in Nat \ {0}, \A j \in 1..c.i : c.fields[j] \in Names,
         NEW m \in 0..Depth, NEW b \in Levels(h)[m],
         b.node = c.at, h[c.at].kind = "map"
  PROVE  /\ h[c.ref].kind = "map"
         /\ \E d \in 0..Depth : \E a \in Levels(h)[d] : a.node = c.ref
<1>. DEFINE Up == /\ h[c.ref].kind = "map"
                  /\ \E d \in 0..Depth : \E a \in Levels(h)[d] : a.node = c.ref
            S == {j \in Nat : j + 1 <= c.i =>
                    \A l \in 0..Depth : \A e \in Levels(h)[l] :
                      e.node = w[j + 1] /\ h[e.node].kind = "map" => Up}
<1>1. /\ Depth \in Nat /\ w \in [1..c.i -> 1..Len(h)]
      /\ w[1] = c.ref /\ w[c.i] = c.at
  BY LevelsRecursion DEF Way
<1>2. 0 \in S
  <2>1. \A l \in 0..Depth : \A e \in Levels(h)[l] :
          e.node = w[1] /\ h[e.node].kind = "map" => Up
    BY <1>1
  <2>. HIDE DEF Up
  <2>. QED BY <2>1
<1>. HIDE DEF Up
<1>3. ASSUME NEW j \in Nat, j \in S PROVE j + 1 \in S
  <2>. SUFFICES ASSUME (j + 1) + 1 <= c.i, NEW l \in 0..Depth, NEW e \in Levels(h)[l],
                       e.node = w[(j + 1) + 1], h[e.node].kind = "map"
                PROVE  Up
    OBVIOUS
  <2>1. /\ j + 1 <= c.i /\ j + 1 \in 1..c.i - 1 /\ j + 1 \in 1..c.i
        /\ (j + 1) + 1 \in 1..c.i
    OBVIOUS
  <2>2. \A q \in 0..Depth : \A f \in Levels(h)[q] :
          f.node = w[j + 1] /\ h[f.node].kind = "map" => Up
    BY <1>3, <2>1
  <2>. HIDE DEF S
  <2>3. LeadsTo(h, w[j + 1], c.fields[j + 1], w[(j + 1) + 1]) BY <2>1 DEF Way
  <2>. DEFINE n == w[j + 1]
              k == c.fields[j + 1]
  <2>4. n \in 1..Len(h) /\ k \in Names BY <1>1, <2>1
  <2>5. h[n].fields[k] # <<>> /\ Head(h[n].fields[k]) = e.node
    BY <2>3 DEF LeadsTo
  <2>. HIDE DEF n, k
  <2>6. e.node # 1 BY <2>4, <2>5 DEF GoodHeap
  <2>7. l # 0 BY <2>6, LevelsRecursion DEF Root, Place
  <2>8. l - 1 \in Nat /\ l - 1 < Depth /\ (l - 1) + 1 = l /\ l - 1 \in 0..Depth
    BY <1>1, <2>7
  <2>9. PICK f \in Levels(h)[l - 1], o \in Names : IsBelow(h, e, f, o)
    BY <2>8, NextLevel
  <2>10. f.node \in 1..Len(h) BY <2>8, PlacesType
  <2>11. f.node = n /\ h[f.node].kind = "map"
    <3>1. /\ h[f.node].kind = "map" /\ h[f.node].fields[o] # <<>>
          /\ Head(h[f.node].fields[o]) = e.node
      BY <2>9 DEF IsBelow, Place
    <3>2. \A i, q \in 1..Len(h), r, s \in Names :
            h[i].fields[r] # <<>> /\ h[q].fields[s] # <<>>
              /\ Head(h[i].fields[r]) = Head(h[q].fields[s]) => i = q /\ r = s
      BY DEF GoodHeap
    <3>. QED BY <2>4, <2>5, <2>10, <3>1, <3>2
  <2>. QED BY <2>2, <2>8, <2>11 DEF n
<1>. HIDE DEF S
<1>4. c.i - 1 \in Nat /\ (c.i - 1) + 1 = c.i OBVIOUS
<1>5. c.i - 1 \in S BY <1>2, <1>3, <1>4, AllNumbers
<1>6. Up BY <1>1, <1>4, <1>5 DEF S
<1>. QED BY <1>6 DEF Up

LEMMA StepsLeft ==
  ASSUME NEW m \in Nat, NEW d \in 0..m, NEW i \in Nat, NEW j \in Nat,
         d + (i - 1) <= m, (j + 1) + 1 <= i
  PROVE  /\ j + 1 <= i /\ j + 1 \in 1..i - 1 /\ j + 1 \in 1..i
         /\ d + j \in Nat /\ d + j < m /\ d + j \in 0..m
         /\ d + (j + 1) = (d + j) + 1
OBVIOUS

\* Place b, where call c has come to, is below place a at depth d.
Reached(d, c) == d + (c.i - 1)
IsReached(c, d, a, b) ==
  /\ b.node = c.at
  /\ \A l \in 1..d : b.path[l] = a.path[l]
  /\ \A l \in 1..c.i - 1 : b.path[d + l] = c.fields[l]

(* A reader who finds the node of the SubObject, a map, finds the node the *)
(* call has come to at the path and the fields it has gone through.        *)
LEMMA WayDown ==
  ASSUME NEW h, GoodHeap(h), NEW c, NEW w, Way(h, c, w),
         c.i \in Nat \ {0}, \A j \in 1..c.i : c.fields[j] \in Names,
         NEW d \in 0..Depth, NEW a \in Levels(h)[d],
         a.node = c.ref, h[c.ref].kind = "map", Reached(d, c) <= Depth
  PROVE  /\ h[c.at].kind = "map"
         /\ \E b \in Levels(h)[Reached(d, c)] : IsReached(c, d, a, b)
<1>. DEFINE At(j, b) == /\ b.node = w[j + 1] /\ h[b.node].kind = "map"
                        /\ \A l \in 1..d : b.path[l] = a.path[l]
                        /\ \A l \in 1..j : b.path[d + l] = c.fields[l]
            S == {j \in Nat : j + 1 <= c.i => \E b \in Levels(h)[d + j] : At(j, b)}
<1>1. /\ Depth \in Nat /\ w \in [1..c.i -> 1..Len(h)]
      /\ w[1] = c.ref /\ w[c.i] = c.at
  BY LevelsRecursion DEF Way
<1>2. 0 \in S
  <2>1. At(0, a) BY <1>1
  <2>2. d + 0 = d OBVIOUS
  <2>. HIDE DEF At
  <2>. QED BY <2>1, <2>2
<1>3. ASSUME NEW j \in Nat, j \in S PROVE j + 1 \in S
  <2>. SUFFICES ASSUME (j + 1) + 1 <= c.i
                PROVE  \E b \in Levels(h)[d + (j + 1)] : At(j + 1, b)
    OBVIOUS
  <2>1. /\ j + 1 <= c.i /\ j + 1 \in 1..c.i - 1 /\ j + 1 \in 1..c.i
        /\ d + j \in Nat /\ d + j < Depth /\ d + j \in 0..Depth
        /\ d + (j + 1) = (d + j) + 1
    <3>. DEFINE i == c.i
    <3>1. i \in Nat \ {0} /\ (j + 1) + 1 <= i /\ d + (i - 1) <= Depth BY DEF Reached
    <3>. HIDE DEF i
    <3>2. /\ j + 1 <= i /\ j + 1 \in 1..i - 1 /\ j + 1 \in 1..i
          /\ d + j \in Nat /\ d + j < Depth /\ d + j \in 0..Depth
          /\ d + (j + 1) = (d + j) + 1
      BY <1>1, <3>1, StepsLeft
    <3>. QED BY <3>2 DEF i
  <2>2. PICK b \in Levels(h)[d + j] : At(j, b) BY <1>3, <2>1
  <2>. HIDE DEF S
  <2>. DEFINE k == c.fields[j + 1]
              e == Place(Append(b.path, k), w[(j + 1) + 1])
  <2>3. LeadsTo(h, w[j + 1], k, w[(j + 1) + 1]) BY <2>1 DEF Way
  <2>4. k \in Names BY <2>1
  <2>. HIDE DEF k
  <2>5. IsBelow(h, e, b, k) BY <2>2, <2>3, <2>4 DEF IsBelow, LeadsTo
  <2>6. e \in Levels(h)[(d + j) + 1] BY <2>1, <2>4, <2>5, NextLevel
  <2>7. b.path \in Seq(Names) /\ Len(b.path) = d + j BY <2>1, PlacesType
  <2>8. e.path = Append(b.path, k) /\ e.node = w[(j + 1) + 1] BY DEF Place
  <2>. HIDE DEF e
  <2>9. /\ \A l \in 1..d + j : e.path[l] = b.path[l]
        /\ e.path[(d + j) + 1] = k
    BY <2>4, <2>7, <2>8
  <2>10. \A l \in 1..d : e.path[l] = a.path[l]
    <3>1. \A l \in 1..d : l \in 1..d + j OBVIOUS
    <3>. QED BY <2>2, <2>9, <3>1
  <2>11. ASSUME NEW l \in 1..j + 1 PROVE e.path[d + l] = c.fields[l]
    <3>1. CASE l = j + 1 BY <2>1, <2>9, <3>1 DEF k
    <3>2. CASE l # j + 1
      <4>1. l \in 1..j /\ d + l \in 1..d + j BY <3>2
      <4>. QED BY <2>2, <2>9, <4>1
    <3>. QED BY <3>1, <3>2
  <2>12. h[e.node].kind = "map" BY <2>3, <2>8 DEF LeadsTo
  <2>13. At(j + 1, e) BY <2>8, <2>10, <2>11, <2>12
  <2>. HIDE DEF At
  <2>. QED BY <2>1, <2>6, <2>13
<1>4. c.i - 1 \in Nat /\ (c.i - 1) + 1 = c.i OBVIOUS
<1>. HIDE DEF S
<1>5. c.i - 1 \in S BY <1>2, <1>3, <1>4, AllNumbers
<1>6. PICK b \in Levels(h)[Reached(d, c)] : At(c.i - 1, b)
  <2>. DEFINE j == c.i - 1
  <2>1. j + 1 <= c.i /\ Reached(d, c) = d + j BY <1>4 DEF Reached
  <2>. HIDE DEF j
  <2>2. \E b \in Levels(h)[d + j] : At(j, b) BY <1>5, <2>1 DEF S, j
  <2>. QED BY <2>1, <2>2 DEF j
<1>. QED BY <1>1, <1>4, <1>6 DEF IsReached

-----------------------------------------------------------------------------
(* What a write does. *)

\* The places with path p, and what they are if its field has the values s.
FoundAt(h, p) == {e \in FoundIn(h) : e.path = p}
PlaceOf(p, s) == IF s = <<>> THEN {} ELSE {Place(p, Head(s))}

(* What is found at a name below a map. *)
LEMMA FoundBelow ==
  ASSUME NEW h, GoodHeap(h), NEW m \in Nat, m < Depth, NEW b \in Levels(h)[m],
         h[b.node].kind = "map", NEW k \in Names
  PROVE  FoundAt(h, Append(b.path, k)) =
           PlaceOf(Append(b.path, k), h[b.node].fields[k])
<1>. DEFINE p == Append(b.path, k)
            x == Place(p, Head(h[b.node].fields[k]))
<1>1. Depth \in Nat /\ m \in 0..Depth /\ m + 1 \in 0..Depth BY LevelsRecursion
<1>2. b.path \in Seq(Names) /\ Len(b.path) = m BY <1>1, PlacesType
<1>3. p \in Seq(Names) /\ Len(p) = m + 1 BY <1>2
<1>4. \A e : e \in FoundIn(h) <=> \E n \in 0..Depth : e \in Levels(h)[n]
  BY DEF FoundIn
<1>5. ASSUME NEW e \in FoundIn(h), e.path = p
      PROVE  h[b.node].fields[k] # <<>> /\ e = x
  <2>1. PICK n \in 0..Depth : e \in Levels(h)[n] BY <1>4
  <2>2. n = m + 1 BY <1>3, <1>5, <2>1, PlacesType
  <2>3. PICK f \in Levels(h)[m], l \in Names : IsBelow(h, e, f, l)
    BY <2>1, <2>2, NextLevel
  <2>4. f.path \in Seq(Names) BY <1>1, PlacesType
  <2>5. Append(f.path, l) = Append(b.path, k) BY <1>5, <2>3 DEF IsBelow, Place
  <2>6. f.path = b.path /\ l = k
    <3>. DEFINE s == f.path
                t == b.path
    <3>1. s \in Seq(Names) /\ t \in Seq(Names) /\ Append(s, l) = Append(t, k)
      BY <1>2, <2>4, <2>5
    <3>. HIDE DEF s, t
    <3>2. s = t /\ l = k BY <3>1, AppendInjective
    <3>. QED BY <3>2 DEF s, t
  <2>7. f = b BY <1>1, <2>6, OneNode
  <2>. QED BY <2>3, <2>6, <2>7 DEF IsBelow
<1>6. ASSUME h[b.node].fields[k] # <<>> PROVE x \in FoundIn(h) /\ x.path = p
  <2>1. IsBelow(h, x, b, k) BY <1>6 DEF IsBelow
  <2>2. x \in Levels(h)[m + 1] BY <2>1, NextLevel
  <2>3. x.path = p BY DEF Place
  <2>. QED BY <1>1, <1>4, <2>2, <2>3
<1>. HIDE DEF p, x
<1>7. FoundAt(h, p) = IF h[b.node].fields[k] = <<>> THEN {} ELSE {x}
  BY <1>5, <1>6 DEF FoundAt
<1>. QED BY <1>7 DEF p, x, PlaceOf

\* In g a reader finds s, the values of a field, where call c has written in h.
HasWritten(h, g, c, s) ==
  LET at == {a \in FoundIn(h) : a.node = c.ref /\ h[c.ref].kind = "map"}
  IN IF at = {} THEN FoundIn(g) = FoundIn(h)
     ELSE \A a \in at :
            LET p == a.path \o c.fields
            IN Len(p) <= Depth =>
                 FoundAt(g, p) = PlaceOf(p, s)

(* What a reader finds after a write through a SubObject. *)
LEMMA WriteLands ==
  ASSUME NEW h, NEW g, GoodHeap(h), GoodHeap(g), NEW c, NEW w, Way(h, c, w),
         c.i \in Nat \ {0}, c.fields \in Seq(Names), c.i = Len(c.fields),
         NEW k, k = c.fields[c.i], OneNodeChanges(h, g, c.at, k)
  PROVE  HasWritten(h, g, c, g[c.at].fields[k])
<1>. DEFINE at == {a \in FoundIn(h) : a.node = c.ref /\ h[c.ref].kind = "map"}
            s == g[c.at].fields[k]
<1>1. /\ Depth \in Nat
      /\ \A j \in 1..c.i : c.fields[j] \in Names
      /\ k \in Names
  BY LevelsRecursion
<1>2. c.at \in 1..Len(h) BY DEF Way
<1>3. \A f, e : e \in FoundIn(f) <=> \E n \in 0..Depth : e \in Levels(f)[n]
  BY DEF FoundIn
<1>4. ASSUME at = {} PROVE FoundIn(g) = FoundIn(h)
  <2>1. ASSUME NEW i \in Nat, i < Depth, NEW b \in Levels(h)[i],
               b.node = c.at, h[b.node].kind = "map"
        PROVE  FALSE
    <3>1. i \in 0..Depth BY <1>1, <2>1
    <3>2. /\ h[c.ref].kind = "map"
          /\ \E d \in 0..Depth : \E a \in Levels(h)[d] : a.node = c.ref
      BY <1>1, <2>1, <3>1, WayUp
    <3>. QED BY <1>3, <1>4, <3>2
  <2>. DEFINE O == Seq(Names)
  <2>2. \A p \in Seq(Names), l \in Names : Append(p, l) \in O => p \in O OBVIOUS
  <2>. HIDE DEF O
  <2>3. \A n \in 0..Depth : \A a :
          a.path \in O => (a \in Levels(h)[n] <=> a \in Levels(g)[n])
    <3>1. KeepsOut(h, c.at, k, O) BY <2>1, <2>2 DEF KeepsOut
    <3>. QED BY <3>1, SamePlaces
  <2>4. \A n \in 0..Depth : \A a :
          a \in Levels(h)[n] \/ a \in Levels(g)[n] => a.path \in O
    BY PlacesType DEF O
  <2>5. \A a : a \in FoundIn(g) <=> a \in FoundIn(h) BY <1>3, <2>3, <2>4
  <2>. QED BY <2>5
<1>5. ASSUME NEW a \in at, Len(a.path \o c.fields) <= Depth
      PROVE  FoundAt(g, a.path \o c.fields) = PlaceOf(a.path \o c.fields, s)
  <2>. DEFINE p == a.path \o c.fields
  <2>1. PICK d \in 0..Depth : a \in Levels(h)[d] BY <1>3
  <2>2. a.path \in Seq(Names) /\ Len(a.path) = d BY <2>1, PlacesType
  <2>3. /\ p \in Seq(Names) /\ Len(p) = d + c.i
        /\ \A l \in 1..d : p[l] = a.path[l]
        /\ \A l \in 1..c.i : p[d + l] = c.fields[l]
    <3>. DEFINE q == a.path
                f == c.fields
    <3>1. q \in Seq(Names) /\ f \in Seq(Names) /\ Len(q) = d /\ Len(f) = c.i
      BY <2>2
    <3>. HIDE DEF q, f
    <3>2. /\ q \o f \in Seq(Names) /\ Len(q \o f) = Len(q) + Len(f)
          /\ \A l \in 1..Len(q) : (q \o f)[l] = q[l]
          /\ \A l \in 1..Len(f) : (q \o f)[Len(q) + l] = f[l]
      <4>. HIDE DEF at, s, p
      <4>1. q \in Seq(Names) /\ f \in Seq(Names) BY <3>1
      <4>2. q \o f \in Seq(Names) /\ Len(q \o f) = Len(q) + Len(f)
        BY <4>1, ConcatElements
      <4>3. \A l \in 1..Len(q) : (q \o f)[l] = q[l] BY <4>1, ConcatElements
      <4>4. \A l \in 1..Len(f) : (q \o f)[Len(q) + l] = f[l]
        BY <4>1, ConcatElements
      <4>. QED BY <4>2, <4>3, <4>4
    <3>. QED BY <3>1, <3>2 DEF q, f
  <2>. DEFINE m == Reached(d, c)
  <2>4. m \in Nat /\ m < Depth /\ m \in 0..Depth /\ m <= Depth /\ m + 1 = d + c.i
    BY <1>1, <1>5, <2>3 DEF Reached
  <2>5. /\ h[c.at].kind = "map"
        /\ \E b \in Levels(h)[m] : IsReached(c, d, a, b)
    <3>1. a.node = c.ref /\ h[c.ref].kind = "map" OBVIOUS
    <3>2. m <= Depth BY <2>4
    <3>. HIDE DEF at, s, p
    <3>. QED BY <1>1, <2>1, <3>1, <3>2, WayDown
  <2>6. PICK b \in Levels(h)[m] :
          /\ b.node = c.at
          /\ \A l \in 1..d : b.path[l] = a.path[l]
          /\ \A l \in 1..c.i - 1 : b.path[d + l] = c.fields[l]
    BY <2>5 DEF IsReached
  <2>7. b.path \in Seq(Names) /\ Len(b.path) = m BY <2>4, PlacesType
  <2>8. Append(b.path, k) = p
    <3>. DEFINE q == b.path
                A == Append(q, k)
    <3>1. q \in Seq(Names) /\ Len(q) = m BY <2>7
    <3>2. /\ \A l \in 1..d : q[l] = p[l]
          /\ \A l \in 1..c.i - 1 : q[d + l] = p[d + l]
          /\ p[d + c.i] = k
      <4>1. \A l \in 1..c.i - 1 : l \in 1..c.i BY <1>1
      <4>2. c.i \in 1..c.i OBVIOUS
      <4>. QED BY <2>3, <2>6, <4>1, <4>2
    <3>3. p \in Seq(Names) /\ Len(p) = m + 1 BY <2>3, <2>4
    <3>. HIDE DEF p, q
    <3>4. /\ A \in Seq(Names) /\ Len(A) = m + 1
          /\ \A l \in 1..m : A[l] = q[l]
          /\ A[m + 1] = k
      BY <1>1, <2>4, <3>1
    <3>. HIDE DEF A
    <3>5. ASSUME NEW l \in 1..m + 1 PROVE A[l] = p[l]
      <4>1. CASE l = m + 1 BY <2>4, <3>2, <3>4, <4>1
      <4>2. CASE l \in 1..d
        <5>1. l \in 1..m BY <2>4, <4>2
        <5>. QED BY <3>2, <3>4, <4>2, <5>1
      <4>3. CASE l # m + 1 /\ l \notin 1..d
        <5>1. l \in 1..m /\ l - d \in 1..c.i - 1 /\ d + (l - d) = l
          BY <2>4, <4>3
        <5>. QED BY <3>2, <3>4, <5>1
      <4>. QED BY <4>1, <4>2, <4>3
    <3>6. A = p BY <3>3, <3>4, <3>5, SeqEqual
    <3>. QED BY <3>6 DEF A, q
  <2>. HIDE DEF p, m
  <2>9. b \in Levels(g)[m]
    <3>. DEFINE O == {q \in Seq(Names) : Len(q) <= m}
    <3>1. ASSUME NEW q \in Seq(Names), NEW l \in Names, Append(q, l) \in O
          PROVE  q \in O
      <4>1. Len(Append(q, l)) = Len(q) + 1 /\ Len(q) \in Nat OBVIOUS
      <4>. QED BY <2>4, <3>1, <4>1
    <3>2. ASSUME NEW i \in Nat, i < Depth, NEW e \in Levels(h)[i], e.node = c.at
          PROVE  Append(e.path, k) \notin O
      <4>1. i \in 0..Depth BY <1>1, <3>2
      <4>2. e = b BY <2>4, <2>6, <3>2, <4>1, OnePath
      <4>. QED BY <2>3, <2>4, <2>8, <4>2
    <3>3. b.path \in O BY <2>4, <2>7
    <3>. HIDE DEF O, at, s
    <3>4. \A q \in Seq(Names), l \in Names : Append(q, l) \in O => q \in O
      BY <3>1
    <3>5. \A i \in Nat : i < Depth =>
            \A e \in Levels(h)[i] :
              e.node = c.at /\ h[e.node].kind = "map" => Append(e.path, k) \notin O
      BY <3>2
    <3>6. m \in 0..Depth /\ b \in Levels(h)[m] BY <2>4
    <3>7. KeepsOut(h, c.at, k, O) BY <3>4, <3>5 DEF KeepsOut
    <3>8. b \in Levels(h)[m] <=> b \in Levels(g)[m]
      BY <3>3, <3>6, <3>7, SamePlaces
    <3>. QED BY <3>6, <3>8
  <2>10. g[b.node].kind = "map" BY <1>2, <2>5, <2>6 DEF OneNodeChanges
  <2>11. FoundAt(g, Append(b.path, k)) =
           PlaceOf(Append(b.path, k), g[b.node].fields[k])
    <3>1. Depth \in Nat /\ m \in Nat /\ m < Depth /\ k \in Names BY <1>1, <2>4
    <3>. HIDE DEF at, s
    <3>. QED BY <2>9, <2>10, <3>1, FoundBelow
  <2>. QED BY <2>6, <2>8, <2>11 DEF p
<1>. HIDE DEF at, s
<1>6. IF at = {} THEN FoundIn(g) = FoundIn(h)
      ELSE \A a \in at :
             LET p == a.path \o c.fields
             IN Len(p) <= Depth =>
                  FoundAt(g, p) = PlaceOf(p, s)
  BY <1>4, <1>5
<1>. QED BY <1>6 DEF at, s, HasWritten

LEMMA StepWrites ==
  IInv /\ IInv' /\ CallWay /\ (SetValue \/ RemoveField) =>
    LET at == {place \in Found :
                 place.node = call.ref /\ heap[call.ref].kind = "map"}
    IN IF at = {} THEN Found' = Found
       ELSE \A place \in at :
              LET p == place.path \o call.fields
              IN Len(p) <= Depth =>
                   Changed(p) = IF call.op = "remove" THEN {}
                                ELSE {[path |-> p, node |-> Len(heap) + 1]}
<1>. SUFFICES ASSUME IInv, IInv', CallWay, SetValue \/ RemoveField
              PROVE  LET at == {place \in Found :
                                  place.node = call.ref /\ heap[call.ref].kind = "map"}
                     IN IF at = {} THEN Found' = Found
                        ELSE \A place \in at :
                               LET p == place.path \o call.fields
                               IN Len(p) <= Depth =>
                                    Changed(p) =
                                      IF call.op = "remove" THEN {}
                                      ELSE {[path |-> p, node |-> Len(heap) + 1]}
  OBVIOUS
<1>1. TypeOK /\ GoodHeap(heap) BY HeapIsGood DEF IInv
<1>2. GoodHeap(heap') BY NextHeapIsGood DEF GoodHeap
<1>3. /\ call # Idle /\ call.i = Len(call.fields) /\ call.op \in {"set", "remove"}
      /\ SetValue <=> call.op = "set"
  BY DEF SetValue, RemoveField, Idle, atLast
<1>4. PICK w : Way(heap, call, w) BY <1>3 DEF CallWay
<1>5. call.fields \in Seq(Names) /\ call.i \in Nat \ {0} BY <1>1, <1>3, CallFields
<1>. DEFINE pairs == heap'[call.at].fields[key]
<1>6. /\ OneNodeChanges(heap, heap', call.at, key)
      /\ IF call.op = "remove" THEN pairs = <<>>
         ELSE pairs # <<>> /\ Head(pairs) = Len(heap) + 1
  <2>1. ASSUME NEW nodes, NEW s, Changes(nodes, call.at, key, s)
        PROVE  OneNodeChanges(heap, heap', call.at, key) /\ pairs = s
    BY <1>1, <2>1, ChangesOneNode
  <2>2. CASE RemoveField
    <3>1. Changes(<<>>, call.at, key, <<>>) BY <1>1, <2>2, RemoveFieldChanges
    <3>2. call.op = "remove" BY <2>2 DEF RemoveField
    <3>. QED BY <2>1, <3>1, <3>2
  <2>3. CASE SetValue
    <3>. DEFINE s == IF Has(call.at, key)
                     THEN [heap[call.at].fields[key] EXCEPT ![1] = Len(heap) + 1]
                     ELSE <<Len(heap) + 1>>
    <3>1. Changes(NodesOf(call.val, Len(heap)), call.at, key, s)
      BY <1>1, <2>3, SetValueChanges
    <3>2. s # <<>> /\ Head(s) = Len(heap) + 1
      <4>. DEFINE t == heap[call.at].fields[key]
      <4>1. call.at \in Nodes /\ key \in Names BY <1>1, <1>3, CallKey
      <4>2. t \in Seq(Nodes) BY <1>1, <4>1, FieldsOfNodes
      <4>3. Has(call.at, key) <=> t # <<>> BY DEF Has
      <4>. HIDE DEF t
      <4>4. ASSUME t # <<>>
            PROVE  /\ [t EXCEPT ![1] = Len(heap) + 1] # <<>>
                   /\ Head([t EXCEPT ![1] = Len(heap) + 1]) = Len(heap) + 1
        BY <4>2, <4>4
      <4>. QED BY <4>3, <4>4 DEF t
    <3>3. call.op = "set" BY <2>3 DEF SetValue
    <3>. HIDE DEF s
    <3>4. pairs = s /\ OneNodeChanges(heap, heap', call.at, key) BY <2>1, <3>1
    <3>. QED BY <3>2, <3>3, <3>4
  <2>. QED BY <2>2, <2>3
<1>. DEFINE at == {a \in FoundIn(heap) : a.node = call.ref /\ heap[call.ref].kind = "map"}
<1>7. IF at = {} THEN FoundIn(heap') = FoundIn(heap)
      ELSE \A a \in at :
             LET p == a.path \o call.fields
             IN Len(p) <= Depth =>
                  FoundAt(heap', p) = PlaceOf(p, pairs)
  <2>. DEFINE k == key
              g == heap'
  <2>1. k = call.fields[call.i] BY DEF key
  <2>2. GoodHeap(g) /\ OneNodeChanges(heap, g, call.at, k) BY <1>2, <1>6
  <2>3. pairs = g[call.at].fields[k] OBVIOUS
  <2>. HIDE DEF k, g, pairs
  <2>4. HasWritten(heap, g, call, g[call.at].fields[k])
    BY <1>1, <1>3, <1>4, <1>5, <2>1, <2>2, WriteLands
  <2>5. HasWritten(heap, g, call, pairs) BY <2>3, <2>4
  <2>. QED BY <2>5 DEF g, HasWritten
<1>8. Found = FoundIn(heap) /\ Found' = FoundIn(heap') BY DEF Found, FoundIn
<1>9. \A p : Changed(p) = FoundAt(heap', p) BY <1>8 DEF Changed, FoundAt
<1>. HIDE DEF pairs
<1>10. \A p : PlaceOf(p, pairs) = IF call.op = "remove" THEN {}
                                  ELSE {[path |-> p, node |-> Len(heap) + 1]}
  BY <1>6 DEF PlaceOf, Place
<1>. QED BY <1>7, <1>8, <1>9, <1>10

(***************************************************************************)
(* A set or a removal that returns has done what it was asked, as a reader *)
(* from the root of the object sees it: the value, or nothing, is at the   *)
(* path of the SubObject and the fields of the call, however many pairs a  *)
(* map has of a key and whichever calls came between.  Through a SubObject *)
(* the object no longer holds nothing of the object changes.               *)
(***************************************************************************)
THEOREM WritesAlwaysLand == Spec => WritesLand
<1>1. Init => CallWay BY DEF Init, CallWay
<1>2. IInv /\ IInv' /\ CallWay /\ [Next]_vars => CallWay' BY StepCallWay
<1>3. IInv /\ IInv' /\ CallWay =>
        [SetValue \/ RemoveField =>
           LET at == {place \in Found :
                        place.node = call.ref /\ heap[call.ref].kind = "map"}
           IN IF at = {} THEN Found' = Found
              ELSE \A place \in at :
                     LET p == place.path \o call.fields
                     IN Len(p) <= Depth =>
                          Changed(p) = IF call.op = "remove" THEN {}
                                       ELSE {[path |-> p, node |-> Len(heap) + 1]}]_vars
  BY StepWrites
<1>. QED BY <1>1, <1>2, <1>3, NodesInvariant, PTL DEF Spec, WritesLand
=============================================================================
