-------------------------- MODULE SourceSink_proofs --------------------------
(***************************************************************************)
(* Proofs about SourceSink: what the sink leaves behind is its input, it   *)
(* deletes nothing early, keeps what it was told to keep, and is inverse   *)
(* to the source.                                                          *)
(***************************************************************************)
EXTENDS SourceSink, FiniteSetTheorems, FunctionTheorems, WellFoundedInduction,
        NaturalsInduction, SequenceTheorems, TLAPS

(* A set of numbers has a least one. *)
LEMMA LeastExists ==
  ASSUME NEW S, S \subseteq Nat, S # {}
  PROVE  \E x \in S : \A y \in S : x <= y
<1>1. IsWellFoundedOn(OpToRel(<, Nat), Nat) BY NatLessThanWellFounded
<1>2. PICK x \in S : \A y \in S : <<y, x>> \notin OpToRel(<, Nat)
  BY <1>1, WFMin
<1>3. \A y \in S : ~(y < x) BY <1>2 DEF OpToRel
<1>. QED BY <1>3

LEMMA LeastIsIn ==
  ASSUME NEW S, S \subseteq Nat, S # {}
  PROVE  Least(S) \in S
BY LeastExists DEF Least

(* One that is bounded has a greatest one. *)
LEMMA GreatestExists ==
  ASSUME NEW n \in Nat, NEW S, S \subseteq 0..n, S # {}
  PROVE  \E x \in S : \A y \in S : y <= x
<1>. DEFINE T == {i \in 0..n : n - i \in S}
<1>1. T \subseteq Nat /\ T # {}
  <2>1. PICK x \in S : TRUE OBVIOUS
  <2>2. x \in 0..n /\ n - x \in 0..n /\ n - (n - x) = x BY <2>1
  <2>3. n - x \in T BY <2>2
  <2>4. T \subseteq Nat OBVIOUS
  <2>. HIDE DEF T
  <2>. QED BY <2>3, <2>4
<1>2. PICK i \in T : \A j \in T : i <= j BY <1>1, LeastExists
<1>3. n - i \in S BY <1>2
<1>4. ASSUME NEW y \in S PROVE y <= n - i
  <2>1. y \in 0..n /\ n - y \in 0..n /\ n - (n - y) = y OBVIOUS
  <2>2. n - y \in T BY <2>1
  <2>. QED BY <1>2, <2>1, <2>2
<1>. QED BY <1>3, <1>4

(* In a finite set with an order, every place is taken once: the larger an *)
(* element is, the more there are below it, and each number of elements    *)
(* is the number of those below some element.                              *)
LEMMA Ranks ==
  ASSUME NEW S, IsFiniteSet(S), NEW R,
         \A k \in S : <<k, k>> \notin R,
         \A k, l, m \in S : <<k, l>> \in R /\ <<l, m>> \in R => <<k, m>> \in R,
         \A k, l \in S : k = l \/ <<k, l>> \in R \/ <<l, k>> \in R
  PROVE  /\ \A k \in S : Cardinality({m \in S : <<m, k>> \in R}) \in Nat
         /\ \A k, l \in S : <<k, l>> \in R =>
              Cardinality({m \in S : <<m, k>> \in R})
                < Cardinality({m \in S : <<m, l>> \in R})
         /\ \A i \in 1..Cardinality(S) : \E k \in S :
              Cardinality({m \in S : <<m, k>> \in R}) = i - 1
         /\ \A k \in S :
              Cardinality({m \in S : <<m, k>> \in R}) < Cardinality(S)
<1>. DEFINE below(k) == {m \in S : <<m, k>> \in R}
            rank(k) == Cardinality(below(k))
            n == Cardinality(S)
<1>1. n \in Nat BY FS_CardinalityType
<1>2. \A k \in S : IsFiniteSet(below(k)) /\ rank(k) \in Nat
  BY FS_Subset, FS_CardinalityType
<1>3. ASSUME NEW k \in S, NEW l \in S, <<k, l>> \in R PROVE rank(k) < rank(l)
  <2>1. below(k) \in SUBSET below(l) BY <1>3
  <2>2. k \in below(l) /\ k \notin below(k) BY <1>3
  <2>3. rank(k) <= rank(l) /\ rank(k) # rank(l)
    <3>. HIDE DEF below
    <3>. QED BY <1>2, <2>1, <2>2, FS_Subset
  <2>. QED BY <1>2, <2>3
<1>4. ASSUME NEW k \in S PROVE rank(k) \in 0..(n - 1) /\ rank(k) < n
  <2>1. below(k) \in SUBSET S /\ k \notin below(k) BY <1>4
  <2>2. rank(k) <= n /\ rank(k) # n
    <3>. HIDE DEF below
    <3>. QED BY <1>4, <2>1, FS_Subset
  <2>3. rank(k) \in Nat BY <1>2
  <2>. HIDE DEF rank, n
  <2>. QED BY <1>1, <2>2, <2>3
<1>. DEFINE F == [k \in S |-> rank(k)]
<1>5. F \in [S -> 0..(n - 1)] BY <1>4
<1>6. \A k, l \in S : F[k] = F[l] => k = l
  <2>. TAKE k \in S, l \in S
  <2>. HAVE F[k] = F[l]
  <2>1. ~(rank(k) < rank(l)) /\ ~(rank(l) < rank(k)) BY <1>2
  <2>. QED BY <1>3, <2>1
<1>7. F \in Injection(S, 0..(n - 1))
  <2>. HIDE DEF F
  <2>. QED BY <1>5, <1>6, Fun_IsInj
<1>8. IsFiniteSet(0..(n-1)) /\ Cardinality(0..(n - 1)) = n
  <2>1. 0 \in Int /\ n - 1 \in Int BY <1>1
  <2>. QED BY <2>1, <1>1, FS_Interval
<1>9. F \in Surjection(S, 0..(n - 1))
  <2>. HIDE DEF F
  <2>. QED BY <1>7, <1>8, FS_Injection
<1>10. ASSUME NEW i \in 1..n PROVE \E k \in S : rank(k) = i - 1
  <2>1. i - 1 \in 0..(n - 1) BY <1>1
  <2>2. \A t \in 0..(n - 1) : \E k \in S : F[k] = t BY <1>9 DEF Surjection
  <2>3. PICK k \in S : F[k] = i - 1 BY <2>1, <2>2
  <2>. QED BY <2>3
<1>. QED BY <1>2, <1>3, <1>4, <1>10

-----------------------------------------------------------------------------
(* The documents of a file *)

LEMMA KeysFinite ==
  /\ IsFiniteSet(Keys) /\ Cardinality(Keys) = MaxKeys
  /\ \A S : S \subseteq Keys =>
       IsFiniteSet(S) /\ Cardinality(S) \in 0..MaxKeys
<1>1. IsFiniteSet(Keys) /\ Cardinality(Keys) = MaxKeys
  <2>1. 1 \in Int /\ MaxKeys \in Int BY BoundsAssumption
  <2>. QED BY <2>1, BoundsAssumption, FS_Interval DEF Keys
<1>2. ASSUME NEW S, S \subseteq Keys
      PROVE  IsFiniteSet(S) /\ Cardinality(S) \in 0..MaxKeys
  BY <1>1, <1>2, FS_Subset, FS_CardinalityType, BoundsAssumption
<1>. QED BY <1>1, <1>2

(* Every object has one path, and objects with places have theirs. *)
LEMMA PathIsFile ==
  ASSUME TypeOK
  PROVE  \A k \in DOMAIN objects :
           /\ Path(k) \in Files
           /\ objects[k].place \in Places /\ objects[k].legacy \in Places
           /\ objects[k].place.index \in Nat
<1>. TAKE k \in DOMAIN objects
<1>1. k \in Keys /\ objects[k] \in [place : Places, legacy : Places]
  BY DEF TypeOK
<1>2. objects[k].place = NoPlace \/ objects[k].place \in [file : Files, index : Nat]
  BY <1>1 DEF Places
<1>3. NoPlace.index = 0 BY DEF NoPlace, Place
<1>4. 1 + (k % MaxFiles) \in Files
  BY <1>1, BoundsAssumption DEF Files, Keys
<1>. QED BY <1>1, <1>2, <1>3, <1>4 DEF Path

(* The i-th document of a file is that of the i-th object there. *)
LEMMA DocumentsSorted ==
  ASSUME TypeOK, NEW f
  PROVE  /\ IsFiniteSet(Group(f)) /\ Cardinality(Group(f)) \in Nat
         /\ \A i \in 1..Cardinality(Group(f)) :
              KeyAt(f, i) \in Group(f) /\ Rank(KeyAt(f, i)) = i - 1
         /\ \A k \in Group(f) : \E i \in 1..Cardinality(Group(f)) : k = KeyAt(f, i)
         /\ \A k, l \in Group(f) : Rank(k) < Rank(l) => Before(k, l)
<1>. DEFINE S == Group(f)
            R == {r \in S \X S : Before(r[1], r[2])}
            below(k) == {m \in S : <<m, k>> \in R}
<1>1. S \subseteq Keys /\ S \subseteq DOMAIN objects BY DEF Group, TypeOK
<1>2. IsFiniteSet(S) /\ Cardinality(S) \in Nat BY <1>1, KeysFinite
<1>3. \A k \in S : k \in Int /\ objects[k].place.index \in Nat
  BY <1>1, PathIsFile DEF Keys
<1>4. \A k, l \in S : <<k, l>> \in R <=> Before(k, l) OBVIOUS
<1>5. /\ \A k \in S : ~Before(k, k)
      /\ \A k, l, m \in S : Before(k, l) /\ Before(l, m) => Before(k, m)
      /\ \A k, l \in S : k = l \/ Before(k, l) \/ Before(l, k)
  BY <1>3 DEF Before
<1>6. \A k \in S : Rank(k) = Cardinality(below(k))
  <2>. TAKE k \in S
  <2>1. Path(k) = f BY DEF Group
  <2>2. {l \in Group(Path(k)) : Before(l, k)} = below(k) BY <1>4, <2>1
  <2>. QED BY <2>2 DEF Rank
<1>7. /\ \A k \in S : Rank(k) \in Nat /\ Rank(k) < Cardinality(S)
      /\ \A k, l \in S : Before(k, l) => Rank(k) < Rank(l)
      /\ \A i \in 1..Cardinality(S) : \E k \in S : Rank(k) = i - 1
  <2>1. /\ \A k \in S : <<k, k>> \notin R
        /\ \A k, l, m \in S : <<k, l>> \in R /\ <<l, m>> \in R => <<k, m>> \in R
        /\ \A k, l \in S : k = l \/ <<k, l>> \in R \/ <<l, k>> \in R
    <3>. HIDE DEF R, S
    <3>. QED BY <1>4, <1>5
  <2>. HIDE DEF R, S
  <2>2. /\ \A k \in S : Cardinality(below(k)) \in Nat
        /\ \A k, l \in S : <<k, l>> \in R =>
             Cardinality(below(k)) < Cardinality(below(l))
        /\ \A i \in 1..Cardinality(S) : \E k \in S :
             Cardinality(below(k)) = i - 1
        /\ \A k \in S : Cardinality(below(k)) < Cardinality(S)
    BY <1>2, <2>1, Ranks
  <2>. HIDE DEF below
  <2>. QED BY <1>4, <1>6, <2>2
<1>8. \A i \in 1..Cardinality(S) : KeyAt(f, i) \in S /\ Rank(KeyAt(f, i)) = i - 1
  BY <1>7 DEF KeyAt
<1>9. \A k, l \in S : Rank(k) < Rank(l) => Before(k, l)
  <2>. TAKE k \in S, l \in S
  <2>. HAVE Rank(k) < Rank(l)
  <2>1. k # l /\ ~Before(l, k) BY <1>7
  <2>. QED BY <1>5, <2>1
<1>10. ASSUME NEW k \in S
       PROVE  \E i \in 1..Cardinality(S) : k = KeyAt(f, i)
  <2>. DEFINE i == Rank(k) + 1
  <2>1. i \in 1..Cardinality(S) /\ i - 1 = Rank(k) BY <1>2, <1>7
  <2>2. KeyAt(f, i) \in S /\ Rank(KeyAt(f, i)) = Rank(k) BY <1>8, <2>1
  <2>3. ~Before(k, KeyAt(f, i)) /\ ~Before(KeyAt(f, i), k) BY <1>7, <2>2
  <2>. QED BY <1>5, <2>1, <2>2, <2>3
<1>. QED BY <1>2, <1>8, <1>9, <1>10

LEMMA DocumentsType == ASSUME TypeOK, NEW f PROVE Documents(f) \in Seq(Docs)
<1>. DEFINE n == Cardinality(Group(f))
            d(i) == Doc(KeyAt(f, i), objects[KeyAt(f, i)].legacy,
                        ResourceId(KeyAt(f, i)))
<1>1. n \in Nat BY DocumentsSorted
<1>2. ASSUME NEW i \in 1..n PROVE d(i) \in Docs
  <2>1. KeyAt(f, i) \in DOMAIN objects BY DocumentsSorted DEF Group
  <2>2. KeyAt(f, i) \in Keys /\ objects[KeyAt(f, i)].legacy \in Places
    BY <2>1, PathIsFile DEF TypeOK
  <2>3. ResourceId(KeyAt(f, i)) \in 0..MaxKeys
    <3>1. {l \in DOMAIN objects : l <= KeyAt(f, i)} \subseteq Keys BY DEF TypeOK
    <3>. QED BY <3>1, KeysFinite DEF ResourceId
  <2>. QED BY <2>2, <2>3 DEF Doc, Docs
<1>3. [i \in 1..n |-> d(i)] \in [1..n -> Docs] BY <1>2
<1>. HIDE DEF n, d
<1>4. [i \in 1..n |-> d(i)] \in Seq(Docs) BY <1>1, <1>3
<1>. QED BY <1>4 DEF Documents, n, d

(* There is something to write as long as writeYaml is not done. *)
LEMMA NextGroupIsDue ==
  ASSUME TypeOK, todo \subseteq Groups, todo # {}
  PROVE  NextGroup \in todo /\ NextGroup \in Files
<1>. DEFINE S == {k \in DOMAIN objects : Path(k) \in todo}
<1>1. S \subseteq Nat BY DEF TypeOK, Keys
<1>2. S # {}
  <2>1. PICK f \in todo : f \in Groups OBVIOUS
  <2>2. PICK k \in DOMAIN objects : Path(k) = f BY <2>1 DEF Groups
  <2>3. k \in S BY <2>1, <2>2
  <2>. QED BY <2>3
<1>3. Least(S) \in S
  <2>. HIDE DEF S
  <2>. QED BY <1>1, <1>2, LeastIsIn
<1>. QED BY <1>3, PathIsFile DEF NextGroup

LEMMA WithFileType ==
  ASSUME TypeOK, NEW f \in Files, NEW docs \in Seq(Docs)
  PROVE  /\ WithFile(f, docs) \in [Present \cup {f} -> Seq(Docs)]
         /\ DOMAIN WithFile(f, docs) = Present \cup {f}
         /\ WithFile(f, docs)[f] = docs
         /\ \A g \in Present : g # f => WithFile(f, docs)[g] = disk[g]
BY DEF WithFile, TypeOK

-----------------------------------------------------------------------------
(* The objects in a file *)

(* A key of a file has a last document there. *)
LEMMA LastIsLast ==
  ASSUME TypeOK, NEW f \in Present, NEW k \in KeysOf(f)
  PROVE  /\ LastOf(f, k) \in DOMAIN disk[f] /\ disk[f][LastOf(f, k)].key = k
         /\ \A j \in DOMAIN disk[f] :
              disk[f][j].key = k => j <= LastOf(f, k)
<1>. DEFINE n == Len(disk[f])
            S == {i \in DOMAIN disk[f] : disk[f][i].key = k}
<1>1. disk[f] \in Seq(Docs) /\ n \in Nat /\ DOMAIN disk[f] = 1..n
  BY DEF TypeOK
<1>2. S # {}
  <2>1. PICK i \in DOMAIN disk[f] : disk[f][i].key = k
    BY DEF KeysOf, Range
  <2>. QED BY <2>1
<1>3. S \subseteq 0..n BY <1>1
<1>4. \E i \in S : \A j \in S : j <= i
  <2>. HIDE DEF S, n
  <2>. QED BY <1>1, <1>2, <1>3, GreatestExists
<1>5. \E i \in DOMAIN disk[f] :
        disk[f][i].key = k /\ \A j \in DOMAIN disk[f] : disk[f][j].key = k => j <= i
  BY <1>4
<1>. QED BY <1>5 DEF LastOf

LEMMA IndexType ==
  ASSUME NEW f, NEW i \in Nat
  PROVE  /\ IndexOf(f, i) \in Nat
         /\ (\A j \in 1..i - 1 : disk[f][j] # Invalid) /\ i > 0 =>
              IndexOf(f, i) = i - 1
<1>. DEFINE S == {j \in 1..i - 1 : disk[f][j] # Invalid}
<1>1. IsFiniteSet(1..i - 1) /\ (i > 0 => Cardinality(1..i - 1) = i - 1)
  <2>1. 1 \in Int /\ i - 1 \in Int OBVIOUS
  <2>. QED BY <2>1, FS_Interval
<1>2. S \in SUBSET (1..i - 1) OBVIOUS
<1>3. Cardinality(S) \in Nat
  <2>. HIDE DEF S
  <2>. QED BY <1>1, <1>2, FS_Subset, FS_CardinalityType
<1>4. (\A j \in 1..i - 1 : disk[f][j] # Invalid) => S = 1..i - 1 OBVIOUS
<1>. QED BY <1>1, <1>3, <1>4 DEF IndexOf

LEMMA KeysOfType ==
  ASSUME TypeOK, NEW f \in Present, Torn \notin Range(disk[f])
  PROVE  KeysOf(f) \subseteq Keys
<1>1. \A i \in DOMAIN disk[f] : disk[f][i] \in Docs /\ disk[f][i] # Torn
  BY DEF TypeOK, Range
<1>. QED BY <1>1 DEF KeysOf, Range, Docs

LEMMA InsertedType ==
  ASSUME TypeOK, NEW f \in Present, Torn \notin Range(disk[f])
  PROVE  /\ DOMAIN Inserted(f) = DOMAIN objects \cup KeysOf(f)
         /\ DOMAIN Inserted(f) \subseteq Keys
         /\ Inserted(f) \in
              [DOMAIN Inserted(f) -> [place : Places, legacy : Places]]
         /\ \A k \in KeysOf(f) :
              Inserted(f)[k].place = Place(f, IndexOf(f, LastOf(f, k)))
         /\ \A k \in DOMAIN objects \ KeysOf(f) : Inserted(f)[k] = objects[k]
<1>1. KeysOf(f) \subseteq Keys /\ f \in Files BY KeysOfType DEF TypeOK
<1>2. ASSUME NEW k \in KeysOf(f)
      PROVE  /\ Place(f, IndexOf(f, LastOf(f, k))) \in Places
             /\ disk[f][LastOf(f, k)].legacy \in Places
  <2>1. LastOf(f, k) \in Nat /\ LastOf(f, k) \in DOMAIN disk[f]
    BY LastIsLast DEF TypeOK
  <2>2. IndexOf(f, LastOf(f, k)) \in Nat BY <2>1, IndexType
  <2>3. disk[f][LastOf(f, k)] \in Docs BY <2>1 DEF TypeOK
  <2>4. disk[f][LastOf(f, k)].legacy \in Places
    BY <2>3 DEF Docs, Invalid, Torn, Plain, Doc, Places
  <2>. QED BY <1>1, <2>2, <2>4 DEF Place, Places
<1>. QED BY <1>1, <1>2 DEF Inserted, Object, TypeOK

-----------------------------------------------------------------------------
(* The invariant *)

LEMMA InitInv == Init => IInv
<1>. SUFFICES ASSUME Init PROVE IInv OBVIOUS
<1>1. PICK present \in SUBSET Files :
        disk \in [present -> UNION {[1..n -> {Plain(k) : k \in Keys} \cup {Invalid}] :
                                     n \in 0..MaxDocs}]
  BY DEF Init
<1>2. Present = present BY <1>1 DEF Present
<1>3. ASSUME NEW f \in present PROVE disk[f] \in Seq(Docs)
  <2>1. PICK n \in 0..MaxDocs :
          disk[f] \in [1..n -> {Plain(k) : k \in Keys} \cup {Invalid}]
    BY <1>1, <1>3
  <2>2. \A k \in Keys : Plain(k) \in Docs
    BY BoundsAssumption DEF Plain, Doc, Docs, Places
  <2>3. Invalid \in Docs BY DEF Docs
  <2>4. disk[f] \in [1..n -> Docs] BY <2>1, <2>2, <2>3
  <2>5. n \in Nat BY BoundsAssumption
  <2>. QED BY <2>4, <2>5
<1>4. <<>> \in [DOMAIN <<>> -> [place : Places, legacy : Places]] /\ DOMAIN <<>> = {}
  OBVIOUS
<1>5. TypeOK BY <1>1, <1>2, <1>3, <1>4 DEF Init, TypeOK
<1>. QED BY <1>5 DEF Init, IInv, SourceInv, SinkInv, IdleInv

LEMMA StepType == IInv /\ [Next]_vars => TypeOK'
<1>. SUFFICES ASSUME IInv, [Next]_vars PROVE TypeOK' OBVIOUS
<1>. USE DEF Present
<1>0. TypeOK BY DEF IInv
<1>1. ASSUME NEW with \in BOOLEAN, StartSource(with) PROVE TypeOK'
  <2>1. <<>> \in [DOMAIN <<>> -> [place : Places, legacy : Places]] /\ DOMAIN <<>> = {}
    OBVIOUS
  <2>. QED BY <1>0, <1>1, <2>1 DEF StartSource, Start, TypeOK
<1>2. ASSUME NEW with \in BOOLEAN, StartSink(with) PROVE TypeOK'
  <2>1. Groups \subseteq Files BY <1>0, PathIsFile DEF Groups
  <2>. QED BY <1>0, <1>2, <2>1 DEF StartSink, Start, TypeOK
<1>3. CASE ParseFile
  <2>. DEFINE f == Least(todo)
  <2>1. f \in Present /\ f \in Files
    <3>1. todo \subseteq Present /\ todo # {} BY <1>3 DEF ParseFile, IInv, SourceInv
    <3>2. Files \subseteq Nat BY BoundsAssumption DEF Files
    <3>. QED BY <1>0, <3>1, <3>2, LeastIsIn DEF TypeOK
  <2>2. Torn \notin Range(disk[f]) BY <1>3 DEF ParseFile
  <2>3. /\ DOMAIN Inserted(f) \subseteq Keys
        /\ Inserted(f) \in [DOMAIN Inserted(f) -> [place : Places, legacy : Places]]
    BY <1>0, <2>1, <2>2, InsertedType
  <2>4. objects' = Inserted(f) \/ objects' = objects BY <1>3 DEF ParseFile
  <2>5. DOMAIN objects' \subseteq Keys /\
        objects' \in [DOMAIN objects' -> [place : Places, legacy : Places]]
    BY <1>0, <2>3, <2>4 DEF TypeOK
  <2>6. UNCHANGED <<disk, phase, option, toDelete>> /\ todo' \subseteq todo
        /\ rejected' \in BOOLEAN
    BY <1>0, <1>3 DEF ParseFile, TypeOK
  <2>. QED BY <1>0, <2>5, <2>6 DEF TypeOK
<1>4. CASE SourceReturns
  <2>1. \A k \in DOMAIN objects : objects[k].place \in Places BY <1>0, PathIsFile
  <2>2. NoPlace \in Places BY DEF Places
  <2>3. DOMAIN objects' \subseteq Keys /\
        objects' \in [DOMAIN objects' -> [place : Places, legacy : Places]]
    <3>1. CASE rejected
      <4>1. objects' = <<>> BY <1>4, <3>1 DEF SourceReturns
      <4>. QED BY <4>1
    <3>2. CASE ~rejected
      <4>1. objects' = [k \in DOMAIN objects |->
                          Object(objects[k].place,
                                 IF BothFormats THEN objects[k].place ELSE NoPlace)]
        BY <1>4, <3>2 DEF SourceReturns
      <4>. QED BY <1>0, <2>1, <2>2, <4>1 DEF Object, TypeOK
    <3>. QED BY <3>1, <3>2
  <2>. QED BY <1>0, <1>4, <2>3 DEF SourceReturns, Exit, TypeOK
<1>5. CASE SourceFails
  <2>1. <<>> \in [DOMAIN <<>> -> [place : Places, legacy : Places]] /\ DOMAIN <<>> = {}
    OBVIOUS
  <2>. QED BY <1>0, <1>5, <2>1 DEF SourceFails, Exit, TypeOK
<1>6. ASSUME NEW docs \in Seq(Docs), phase = "sink", todo # {},
             disk' = WithFile(NextGroup, docs), UNCHANGED objects
      PROVE  /\ Present' \subseteq Files
             /\ disk' \in [Present' -> Seq(Docs)]
  <2>1. NextGroup \in Files
    BY <1>0, <1>6, NextGroupIsDue DEF IInv, SinkInv
  <2>2. /\ disk' \in [Present \cup {NextGroup} -> Seq(Docs)]
        /\ DOMAIN disk' = Present \cup {NextGroup}
    BY <1>0, <1>6, <2>1, WithFileType
  <2>. QED BY <1>0, <2>1, <2>2 DEF TypeOK
<1>7. CASE WriteFile
  <2>1. Documents(NextGroup) \in Seq(Docs) BY <1>0, DocumentsType
  <2>2. Present' \subseteq Files /\ disk' \in [Present' -> Seq(Docs)]
    BY <1>6, <1>7, <2>1 DEF WriteFile
  <2>3. UNCHANGED <<phase, option, objects, rejected>> /\ todo' \subseteq todo
        /\ toDelete' \subseteq toDelete
    BY <1>7 DEF WriteFile
  <2>. HIDE DEF Present
  <2>. QED BY <1>0, <2>2, <2>3 DEF TypeOK
<1>8. CASE TearFile
  <2>1. <<Torn>> \in Seq(Docs) BY DEF Docs
  <2>2. Present' \subseteq Files /\ disk' \in [Present' -> Seq(Docs)]
    BY <1>6, <1>8, <2>1 DEF TearFile
  <2>3. UNCHANGED objects /\ Exit BY <1>8 DEF TearFile
  <2>. HIDE DEF Present
  <2>. QED BY <1>0, <2>2, <2>3 DEF TypeOK, Exit
<1>9. CASE DeleteFile
  <2>1. disk' = [g \in Present \ {Least(toDelete)} |-> disk[g]]
    BY <1>9 DEF DeleteFile
  <2>2. Present' \subseteq Files /\ disk' \in [Present' -> Seq(Docs)]
    BY <1>0, <2>1 DEF TypeOK
  <2>. QED BY <1>0, <1>9, <2>2 DEF DeleteFile, TypeOK
<1>10. CASE SinkReturns BY <1>0, <1>10 DEF SinkReturns, Exit, TypeOK
<1>11. CASE SinkFails BY <1>0, <1>11 DEF SinkFails, Exit, TypeOK
<1>12. CASE Function
  <2>0. NoPlace \in Places /\ NoPlace.index \in Nat
    BY DEF Places, NoPlace, Place
  <2>1. DOMAIN objects' \subseteq Keys /\
        objects' \in [DOMAIN objects' -> [place : Places, legacy : Places]]
    <3>1. ASSUME NEW k \in DOMAIN objects, NEW f \in Files,
                 objects' = [objects EXCEPT ![k] =
                   Object(Place(f, objects[k].place.index),
                          IF BothFormats THEN Place(f, objects[k].place.index)
                          ELSE NoPlace)]
          PROVE  DOMAIN objects' \subseteq Keys /\
                 objects' \in [DOMAIN objects' -> [place : Places, legacy : Places]]
      <4>1. Place(f, objects[k].place.index) \in Places
        BY <1>0, PathIsFile DEF Places, Place
      <4>2. Object(Place(f, objects[k].place.index),
                   IF BothFormats THEN Place(f, objects[k].place.index)
                   ELSE NoPlace) \in [place : Places, legacy : Places]
        BY <2>0, <4>1 DEF Object
      <4>3. DOMAIN objects' = DOMAIN objects BY <3>1
      <4>. QED BY <1>0, <3>1, <4>2, <4>3 DEF TypeOK
    <3>2. ASSUME NEW gone \in DOMAIN objects,
                 objects' = [k \in DOMAIN objects \ {gone} |-> objects[k]]
          PROVE  DOMAIN objects' \subseteq Keys /\
                 objects' \in [DOMAIN objects' -> [place : Places, legacy : Places]]
      BY <1>0, <3>2 DEF TypeOK
    <3>3. ASSUME NEW new \in Keys \ DOMAIN objects,
                 objects' = [k \in DOMAIN objects \cup {new} |->
                   IF k = new THEN Object(NoPlace, NoPlace) ELSE objects[k]]
          PROVE  DOMAIN objects' \subseteq Keys /\
                 objects' \in [DOMAIN objects' -> [place : Places, legacy : Places]]
      BY <1>0, <2>0, <3>3 DEF TypeOK, Object
    <3>. QED BY <1>12, <3>1, <3>2, <3>3 DEF Function
  <2>. QED BY <1>0, <1>12, <2>1 DEF Function, TypeOK
<1>13. CASE User
  <2>1. PICK f \in Present, to \in SUBSET Files :
          disk' = [g \in (Present \ {f}) \cup to |-> disk[IF g \in to THEN f ELSE g]]
    BY <1>13 DEF User
  <2>2. Present' \subseteq Files /\ disk' \in [Present' -> Seq(Docs)]
    BY <1>0, <2>1 DEF TypeOK
  <2>. QED BY <1>0, <1>13, <2>2 DEF User, TypeOK
<1>14. CASE UNCHANGED vars BY <1>0, <1>14 DEF vars, TypeOK
<1>. QED
  BY <1>1, <1>2, <1>3, <1>4, <1>5, <1>7, <1>8, <1>9, <1>10, <1>11, <1>12,
     <1>13, <1>14 DEF Next, Source, Sink

(* What a file adds to the objects if the directory is clean. *)
LEMMA CleanInserted ==
  ASSUME TypeOK, Clean, NEW f \in Present
  PROVE  /\ Invalid \notin Range(disk[f]) /\ Torn \notin Range(disk[f])
         /\ KeysOf(f) = {disk[f][i].key : i \in DOMAIN disk[f]}
         /\ \A i \in DOMAIN disk[f] :
              Inserted(f)[disk[f][i].key].place = Place(f, i - 1)
         /\ \A g \in Present : g # f =>
              \A i \in DOMAIN disk[g] : disk[g][i].key \notin KeysOf(f)
<1>1. disk[f] \in Seq(Docs) BY DEF TypeOK
<1>2. \A i \in DOMAIN disk[f] :
        disk[f][i].key \in Keys /\ disk[f][i] # Invalid /\ disk[f][i] # Torn
  <2>. TAKE i \in DOMAIN disk[f]
  <2>1. disk[f][i].key \in Range(KeysIn(disk[f])) BY DEF Range, KeysIn
  <2>2. disk[f][i].key \in Keys BY <2>1 DEF Clean
  <2>3. Invalid.key = -1 /\ Torn.key = -2 /\ -1 \notin Keys /\ -2 \notin Keys
    BY BoundsAssumption DEF Invalid, Torn, Plain, Doc, Keys
  <2>. QED BY <2>2, <2>3
<1>3. Invalid \notin Range(disk[f]) /\ Torn \notin Range(disk[f])
  BY <1>2 DEF Range
<1>4. KeysOf(f) = {disk[f][i].key : i \in DOMAIN disk[f]}
  BY <1>3 DEF KeysOf, Range
<1>5. ASSUME NEW i \in DOMAIN disk[f]
      PROVE  Inserted(f)[disk[f][i].key].place = Place(f, i - 1)
  <2>. DEFINE k == disk[f][i].key
  <2>1. k \in KeysOf(f) BY <1>4
  <2>2. /\ LastOf(f, k) \in DOMAIN disk[f]
        /\ disk[f][LastOf(f, k)].key = disk[f][i].key
    BY <2>1, LastIsLast
  <2>3. LastOf(f, k) = i BY <2>2 DEF Clean
  <2>4. i \in Nat /\ i > 0 /\ \A j \in 1..i - 1 : j \in DOMAIN disk[f] BY <1>1
  <2>5. IndexOf(f, i) = i - 1 BY <1>2, <2>4, IndexType
  <2>6. Inserted(f)[k].place = Place(f, IndexOf(f, LastOf(f, k)))
    BY <1>3, <2>1, InsertedType
  <2>. QED BY <2>3, <2>5, <2>6
<1>6. ASSUME NEW g \in Present, g # f, NEW i \in DOMAIN disk[g]
      PROVE  disk[g][i].key \notin KeysOf(f)
  BY <1>4, <1>6 DEF Clean
<1>. QED BY <1>3, <1>4, <1>5, <1>6

LEMMA StepSource == IInv /\ [Next]_vars => SourceInv'
<1>. SUFFICES ASSUME IInv, [Next]_vars, phase' = "source"
              PROVE  /\ todo' \subseteq Present' /\ toDelete' = {}
                     /\ \A k \in DOMAIN objects' : objects'[k].place.file \in Read'
                     /\ rejected' => \E f \in Read' : Invalid \in Range(disk'[f])
                     /\ Clean' =>
                          /\ DOMAIN objects' = UNION {KeysOf(f)' : f \in Read'}
                          /\ \A f \in Read' : \A i \in DOMAIN disk'[f] :
                               objects'[disk'[f][i].key].place = Place(f, i - 1)
  BY DEF SourceInv
<1>0. TypeOK BY DEF IInv
<1>1. ASSUME NEW with \in BOOLEAN, StartSource(with) PROVE SourceInv'
  <2>1. todo' = Present' /\ Read' = {} /\ objects' = <<>> /\ DOMAIN <<>> = {}
    BY <1>1 DEF StartSource, Start, Present, Read
  <2>2. phase = "idle" /\ ~rejected /\ ~rejected' /\ toDelete' = {}
    BY <1>1 DEF StartSource, Start, IInv, IdleInv
  <2>. QED BY <2>1, <2>2 DEF SourceInv
<1>2. CASE ParseFile
  <2>. DEFINE f == Least(todo)
  <2>0. phase = "source" /\ SourceInv BY <1>2 DEF ParseFile, IInv
  <2>1. f \in Present /\ f \in todo
    <3>1. todo \subseteq Present /\ todo # {} BY <1>2, <2>0 DEF ParseFile, SourceInv
    <3>2. Files \subseteq Nat BY BoundsAssumption DEF Files
    <3>. QED BY <1>0, <3>1, <3>2, LeastIsIn DEF TypeOK
  <2>2. Torn \notin Range(disk[f]) BY <1>2 DEF ParseFile
  <2>. HIDE DEF f
  <2>3. disk' = disk /\ Present' = Present /\ todo' = todo \ {f} /\ toDelete' = {}
    BY <1>2, <2>0 DEF ParseFile, SourceInv, Present, f
  <2>4. Read' = Read \cup {f} /\ f \notin Read BY <2>1, <2>3 DEF Read
  <2>5. (\A g : KeysOf(g)' = KeysOf(g)) /\ Clean' = Clean
    BY <2>3 DEF KeysOf, Clean, Present
  <2>6. CASE Invalid \in Range(disk[f]) /\ ~option
    <3>1. rejected' = TRUE /\ objects' = objects
      BY <1>2, <2>6 DEF ParseFile, f
    <3>2. ~Clean BY <1>0, <2>1, <2>6, CleanInserted
    <3>. QED BY <2>0, <2>3, <2>4, <2>5, <2>6, <3>1, <3>2 DEF SourceInv
  <2>7. CASE ~(Invalid \in Range(disk[f]) /\ ~option)
    <3>1. rejected' = rejected /\ objects' = Inserted(f)
      BY <1>2, <2>7 DEF ParseFile, f
    <3>2. /\ DOMAIN objects' = DOMAIN objects \cup KeysOf(f)
          /\ \A k \in KeysOf(f) :
               objects'[k].place = Place(f, IndexOf(f, LastOf(f, k)))
          /\ \A k \in DOMAIN objects \ KeysOf(f) : objects'[k] = objects[k]
      BY <1>0, <2>1, <2>2, <3>1, InsertedType
    <3>3. \A k \in DOMAIN objects' : objects'[k].place.file \in Read'
      <4>. TAKE k \in DOMAIN objects'
      <4>1. CASE k \in KeysOf(f)
          <5>1. objects'[k].place = Place(f, IndexOf(f, LastOf(f, k))) BY <3>2, <4>1
          <5>2. objects'[k].place.file = f BY <5>1 DEF Place
          <5>. QED BY <2>4, <5>2
      <4>2. CASE k \notin KeysOf(f)
        BY <2>0, <2>4, <3>2, <4>2 DEF SourceInv
      <4>. QED BY <4>1, <4>2
    <3>4. rejected' => \E g \in Read' : Invalid \in Range(disk'[g])
      BY <2>0, <2>3, <2>4, <3>1 DEF SourceInv
    <3>5. ASSUME Clean
          PROVE  /\ DOMAIN objects' = UNION {KeysOf(g)' : g \in Read'}
                 /\ \A g \in Read' : \A i \in DOMAIN disk'[g] :
                      objects'[disk'[g][i].key].place = Place(g, i - 1)
      <4>1. DOMAIN objects' = UNION {KeysOf(g)' : g \in Read'}
        BY <2>0, <2>4, <2>5, <3>2, <3>5 DEF SourceInv
      <4>2. ASSUME NEW g \in Read', NEW i \in DOMAIN disk'[g]
            PROVE  objects'[disk'[g][i].key].place = Place(g, i - 1)
        <5>1. CASE g = f
          BY <1>0, <2>1, <2>3, <3>1, <3>5, <5>1, CleanInserted
        <5>2. CASE g # f
          <6>1. g \in Read /\ g \in Present BY <2>4, <5>2 DEF Read
          <6>2. disk[g][i].key \notin KeysOf(f)
            BY <1>0, <2>1, <2>3, <3>5, <5>2, <6>1, CleanInserted
          <6>3. disk[g][i].key \in KeysOf(g)
            BY <1>0, <2>3, <3>5, <6>1, CleanInserted
          <6>4. disk[g][i].key \in DOMAIN objects
            BY <2>0, <3>5, <6>1, <6>3 DEF SourceInv
          <6>. QED BY <2>0, <2>3, <3>2, <3>5, <6>1, <6>2, <6>4 DEF SourceInv
        <5>. QED BY <5>1, <5>2
      <4>. QED BY <4>1, <4>2
    <3>. QED BY <2>0, <2>3, <2>5, <3>3, <3>4, <3>5 DEF SourceInv
  <2>. QED BY <2>6, <2>7
<1>3. CASE UNCHANGED vars
  <2>1. /\ disk' = disk /\ phase = "source" /\ Present' = Present /\ Read' = Read
        /\ UNCHANGED <<objects, rejected, todo, toDelete>>
    BY <1>3 DEF vars, Present, Read
  <2>2. (\A g : KeysOf(g)' = KeysOf(g)) /\ Clean' = Clean
    BY <2>1 DEF KeysOf, Clean, Present
  <2>. QED BY <2>1, <2>2 DEF SourceInv, IInv
<1>4. ~(Function \/ User \/ Sink \/ SourceReturns \/ SourceFails)
  BY DEF Function, User, Sink, SourceReturns, SourceFails, Exit, WriteFile,
     TearFile, DeleteFile, SinkReturns, SinkFails
<1>5. \A with \in BOOLEAN : ~StartSink(with) BY DEF StartSink, Start
<1>. QED BY <1>1, <1>2, <1>3, <1>4, <1>5 DEF Next, Source, SourceInv

(* In a step of the sink the input stays as it is. *)
LEMMA StepSink == IInv /\ [Next]_vars => SinkInv'
<1>. SUFFICES ASSUME IInv, [Next]_vars, phase' = "sink" PROVE SinkInv'
  BY DEF SinkInv
<1>0. TypeOK BY DEF IInv
<1>1. ASSUME objects' = objects
      PROVE  /\ Groups' = Groups
             /\ \A f : Documents(f)' = Documents(f)
  <2>1. \A k : Path(k)' = Path(k) BY <1>1 DEF Path
  <2>2. \A f : Group(f)' = Group(f) BY <1>1, <2>1 DEF Group
  <2>3. \A k : Rank(k)' = Rank(k) BY <1>1, <2>1, <2>2 DEF Rank, Before
  <2>4. \A f, i : KeyAt(f, i)' = KeyAt(f, i) BY <2>2, <2>3 DEF KeyAt
  <2>5. \A k : ResourceId(k)' = ResourceId(k) BY <1>1 DEF ResourceId
  <2>. QED BY <1>1, <2>1, <2>2, <2>4, <2>5 DEF Groups, Documents
<1>2. ASSUME NEW with \in BOOLEAN, StartSink(with) PROVE SinkInv'
  <2>1. /\ todo' = Groups /\ Groups' = Groups /\ toDelete' = Present
        /\ Present' = Present /\ option' = with
        /\ with \/ Present = {}
    BY <1>1, <1>2 DEF StartSink, Start, Present
  <2>. QED BY <2>1 DEF SinkInv
<1>3. CASE WriteFile
  <2>. DEFINE f == NextGroup
  <2>1. phase = "sink" /\ SinkInv /\ todo # {} BY <1>3 DEF WriteFile, IInv
  <2>2. f \in todo /\ f \in Files
    BY <1>0, <2>1, NextGroupIsDue DEF SinkInv
  <2>3. Documents(f) \in Seq(Docs) BY <1>0, DocumentsType
  <2>4. disk' = WithFile(f, Documents(f)) /\ todo' = todo \ {f}
        /\ toDelete' = toDelete \ {f} /\ option' = option /\ objects' = objects
    BY <1>3 DEF WriteFile
  <2>. HIDE DEF f
  <2>5. /\ Present' = Present \cup {f} /\ disk'[f] = Documents(f)
        /\ \A g \in Present : g # f => disk'[g] = disk[g]
    BY <1>0, <2>2, <2>3, <2>4, WithFileType DEF Present
  <2>6. Groups' = Groups /\ \A g : Documents(g)' = Documents(g) BY <1>1, <2>4
  <2>. QED BY <2>1, <2>2, <2>4, <2>5, <2>6 DEF SinkInv
<1>4. CASE DeleteFile
  <2>. DEFINE f == Least(toDelete)
  <2>1. phase = "sink" /\ SinkInv /\ todo = {} /\ toDelete # {}
    BY <1>4 DEF DeleteFile, IInv
  <2>2. f \in toDelete
    <3>1. toDelete \subseteq Nat BY <1>0, BoundsAssumption DEF TypeOK, Files
    <3>. QED BY <2>1, <3>1, LeastIsIn
  <2>3. disk' = [g \in Present \ {f} |-> disk[g]] /\ toDelete' = toDelete \ {f}
        /\ UNCHANGED <<todo, option, objects>>
    BY <1>4 DEF DeleteFile
  <2>. HIDE DEF f
  <2>4. Present' = Present \ {f} /\ \A g \in Present' : disk'[g] = disk[g]
    BY <2>3 DEF Present
  <2>5. Groups' = Groups /\ \A g : Documents(g)' = Documents(g) BY <1>1, <2>3
  <2>. QED BY <2>1, <2>2, <2>3, <2>4, <2>5 DEF SinkInv
<1>5. CASE UNCHANGED vars
  <2>1. Present' = Present /\ UNCHANGED <<disk, phase, todo, toDelete, option, objects>>
    BY <1>5 DEF vars, Present
  <2>2. Groups' = Groups /\ \A g : Documents(g)' = Documents(g) BY <1>1, <2>1
  <2>. QED BY <2>1, <2>2 DEF SinkInv, IInv
<1>6. ~(Function \/ User \/ Source \/ TearFile \/ SinkReturns \/ SinkFails)
  BY DEF Function, User, Source, ParseFile, SourceReturns, SourceFails, Exit,
     TearFile, SinkReturns, SinkFails
<1>7. \A with \in BOOLEAN : ~StartSource(with) BY DEF StartSource, Start
<1>. QED BY <1>2, <1>3, <1>4, <1>5, <1>6, <1>7 DEF Next, Sink

LEMMA StepIdle == IInv /\ [Next]_vars => IdleInv'
<1>. SUFFICES ASSUME IInv, [Next]_vars, phase' = "idle" PROVE IdleInv'
  BY DEF IdleInv
<1>1. CASE UNCHANGED vars BY <1>1 DEF vars, IInv, IdleInv
<1>2. CASE Function \/ User BY <1>2 DEF Function, User, IInv, IdleInv
<1>3. CASE SourceReturns \/ SourceFails \/ TearFile \/ SinkReturns \/ SinkFails
  BY <1>3 DEF SourceReturns, SourceFails, TearFile, SinkReturns, SinkFails, Exit,
     IdleInv
<1>4. ~ParseFile /\ ~WriteFile /\ ~DeleteFile
  BY DEF ParseFile, WriteFile, DeleteFile
<1>5. \A with \in BOOLEAN : ~StartSource(with) /\ ~StartSink(with)
  BY DEF StartSource, StartSink, Start
<1>. QED BY <1>1, <1>2, <1>3, <1>4, <1>5 DEF Next, Source, Sink

(***************************************************************************)
(* The invariant holds for any number of files, objects and documents:     *)
(* what readYaml has inserted is what it has read, and what writeYaml has  *)
(* got through is on disk and not to be deleted.                           *)
(***************************************************************************)
THEOREM DirectoryInvariant == Spec => []IInv
<1>1. IInv /\ [Next]_vars => IInv'
  BY StepType, StepSource, StepSink, StepIdle DEF IInv
<1>. QED BY InitInv, <1>1, PTL DEF Spec

-----------------------------------------------------------------------------
(* What the sink does to the directory *)

(* The documents of a file are its objects, each once, by their indices. *)
LEMMA DocumentsInOrder ==
  ASSUME TypeOK, NEW f
  PROVE  /\ DOMAIN KeysIn(Documents(f)) = 1..Cardinality(Group(f))
         /\ \A i \in 1..Cardinality(Group(f)) :
              KeysIn(Documents(f))[i] = KeyAt(f, i)
         /\ Range(KeysIn(Documents(f))) = Group(f)
         /\ \A i, j \in DOMAIN KeysIn(Documents(f)) : i < j =>
              /\ KeyAt(f, i) # KeyAt(f, j)
              /\ objects[KeyAt(f, i)].place.index <= objects[KeyAt(f, j)].place.index
<1>. DEFINE n == Cardinality(Group(f))
            k == KeysIn(Documents(f))
<1>1. DOMAIN k = 1..n /\ \A i \in 1..n : k[i] = KeyAt(f, i)
  BY DEF KeysIn, Documents, Doc
<1>2. /\ n \in Nat
      /\ \A i \in 1..n : KeyAt(f, i) \in Group(f) /\ Rank(KeyAt(f, i)) = i - 1
      /\ \A l \in Group(f) : \E i \in 1..n : l = KeyAt(f, i)
      /\ \A l, m \in Group(f) : Rank(l) < Rank(m) => Before(l, m)
  BY DocumentsSorted
<1>. HIDE DEF n, k
<1>3. Range(k) = Group(f)
  <2>1. \A x \in Range(k) : x \in Group(f) BY <1>1, <1>2 DEF Range
  <2>2. ASSUME NEW x \in Group(f) PROVE x \in Range(k)
    <3>1. PICK i \in 1..n : x = KeyAt(f, i) BY <1>2
    <3>2. i \in DOMAIN k /\ x = k[i] BY <1>1, <3>1
    <3>. QED BY <3>2 DEF Range
  <2>. QED BY <2>1, <2>2
<1>4. ASSUME NEW i \in DOMAIN k, NEW j \in DOMAIN k, i < j
      PROVE  /\ KeyAt(f, i) # KeyAt(f, j)
             /\ objects[KeyAt(f, i)].place.index <= objects[KeyAt(f, j)].place.index
  <2>1. Rank(KeyAt(f, i)) < Rank(KeyAt(f, j)) BY <1>1, <1>2, <1>4
  <2>2. KeyAt(f, i) # KeyAt(f, j) BY <1>1, <1>2, <1>4
  <2>3. Before(KeyAt(f, i), KeyAt(f, j)) BY <1>1, <1>2, <2>1
  <2>4. KeyAt(f, i) \in DOMAIN objects /\ KeyAt(f, j) \in DOMAIN objects
    BY <1>1, <1>2 DEF Group
  <2>5. /\ objects[KeyAt(f, i)].place.index \in Nat
        /\ objects[KeyAt(f, j)].place.index \in Nat
    BY <2>4, PathIsFile
  <2>. QED BY <2>2, <2>3, <2>5 DEF Before
<1>. QED BY <1>1, <1>3, <1>4 DEF n, k

(***************************************************************************)
(* When writeYaml returns, the files are those of its input, and each has  *)
(* its objects once and in the order of their indices, whatever the        *)
(* directory was like and whatever went wrong in earlier runs.             *)
(***************************************************************************)
THEOREM DirectoryBecomesInput == Spec => DirectoryIsInput
<1>1. IInv /\ SinkReturns => IsInput
  <2>. SUFFICES ASSUME IInv, SinkReturns PROVE IsInput OBVIOUS
  <2>1. TypeOK /\ SinkInv /\ phase = "sink" /\ todo = {} /\ toDelete = {}
    BY DEF IInv, SinkReturns
  <2>2. Present = Groups /\ \A f \in Present : disk[f] = Documents(f)
    BY <2>1 DEF SinkInv
  <2>3. ASSUME NEW f \in Present
        PROVE  /\ Range(KeysIn(disk[f])) = Group(f)
               /\ \A i, j \in DOMAIN KeysIn(disk[f]) :
                    i < j => /\ KeysIn(disk[f])[i] # KeysIn(disk[f])[j]
                             /\ objects[KeysIn(disk[f])[i]].place.index
                                  <= objects[KeysIn(disk[f])[j]].place.index
    <3>1. disk[f] = Documents(f) BY <2>2
    <3>. DEFINE k == KeysIn(Documents(f))
    <3>2. /\ DOMAIN k = 1..Cardinality(Group(f))
          /\ \A i \in 1..Cardinality(Group(f)) : k[i] = KeyAt(f, i)
          /\ Range(k) = Group(f)
          /\ \A i, j \in DOMAIN k : i < j =>
               /\ KeyAt(f, i) # KeyAt(f, j)
               /\ objects[KeyAt(f, i)].place.index <= objects[KeyAt(f, j)].place.index
      BY <2>1, DocumentsInOrder
    <3>3. KeysIn(disk[f]) = k BY <3>1
    <3>. HIDE DEF k
    <3>4. \A i \in DOMAIN k : k[i] = KeyAt(f, i) BY <3>2
    <3>5. \A i, j \in DOMAIN k :
            i < j => /\ k[i] # k[j]
                     /\ objects[k[i]].place.index <= objects[k[j]].place.index
      BY <3>2, <3>4
    <3>. QED BY <3>2, <3>3, <3>5
  <2>. QED BY <2>2, <2>3 DEF IsInput
<1>2. IInv /\ [Next]_vars => [SinkReturns => IsInput]_vars BY <1>1
<1>. QED BY <1>2, DirectoryInvariant, PTL DEF Spec, DirectoryIsInput

(* Writing a file or tearing it takes no file away. *)
LEMMA OnlyDeleteFileDeletes ==
  ASSUME IInv, Next, phase = "sink", ~DeleteFile
  PROVE  Present \subseteq Present'
<1>1. CASE WriteFile BY <1>1 DEF WriteFile, WithFile, Present
<1>2. CASE TearFile BY <1>2 DEF TearFile, WithFile, Present
<1>3. CASE SinkReturns \/ SinkFails
  BY <1>3 DEF SinkReturns, SinkFails, Present
<1>4. ~(Function \/ User \/ Source)
  BY DEF Function, User, Source, ParseFile, SourceReturns, SourceFails
<1>5. \A with \in BOOLEAN : ~StartSource(with) /\ ~StartSink(with)
  BY DEF StartSource, StartSink, Start
<1>. QED BY <1>1, <1>2, <1>3, <1>4, <1>5 DEF Next, Sink

(***************************************************************************)
(* writeYaml deletes a file only when every object of the input is on disk *)
(* in its own file, which is not the one deleted.                          *)
(***************************************************************************)
THEOREM NeverDeletedEarly == Spec => NothingDeletedEarly
<1>1. ASSUME IInv, Next, phase = "sink", NEW f \in Present \ Present'
      PROVE  /\ f \notin Groups
             /\ \A k \in DOMAIN objects :
                  Path(k) \in Present /\ k \in Range(KeysIn(disk[Path(k)]))
  <2>1. DeleteFile BY <1>1, OnlyDeleteFileDeletes
  <2>2. TypeOK /\ SinkInv /\ phase = "sink" /\ todo = {} /\ toDelete # {}
    BY <1>1, <2>1 DEF IInv, DeleteFile
  <2>3. f = Least(toDelete) BY <1>1, <2>1 DEF DeleteFile, Present
  <2>4. f \in toDelete
    <3>1. toDelete \subseteq Nat BY <2>2, BoundsAssumption DEF TypeOK, Files
    <3>. QED BY <2>2, <2>3, <3>1, LeastIsIn
  <2>5. f \notin Groups BY <2>2, <2>4 DEF SinkInv
  <2>6. ASSUME NEW k \in DOMAIN objects
        PROVE  Path(k) \in Present /\ k \in Range(KeysIn(disk[Path(k)]))
    <3>1. Path(k) \in Groups /\ k \in Group(Path(k)) BY DEF Groups, Group
    <3>2. Path(k) \in Present /\ disk[Path(k)] = Documents(Path(k))
      BY <2>2, <3>1 DEF SinkInv
    <3>3. Range(KeysIn(Documents(Path(k)))) = Group(Path(k))
      BY <2>2, DocumentsInOrder
    <3>. QED BY <3>1, <3>2, <3>3
  <2>. QED BY <2>5, <2>6
<1>2. IInv /\ [Next]_vars =>
        [phase = "sink" =>
           \A f \in Present \ Present' :
             /\ f \notin Groups
             /\ \A k \in DOMAIN objects :
                  Path(k) \in Present /\ k \in Range(KeysIn(disk[Path(k)]))]_vars
  BY <1>1
<1>. QED BY <1>2, DirectoryInvariant, PTL DEF Spec, NothingDeletedEarly

(***************************************************************************)
(* Without overwrite, no file that writeYaml has not made itself in this   *)
(* run is changed or deleted, not even if the run fails.                   *)
(***************************************************************************)
THEOREM AlwaysKeptWithoutOverwrite == Spec => KeptWithoutOverwrite
<1>1. ASSUME IInv, Next, phase = "sink", ~option, NEW f \in Present
      PROVE  f \in Present' /\ disk'[f] = disk[f]
  <2>1. TypeOK /\ SinkInv /\ toDelete = {} /\ f \notin todo
    BY <1>1 DEF IInv, SinkInv
  <2>2. ASSUME NEW docs \in Seq(Docs), todo # {}, disk' = WithFile(NextGroup, docs)
        PROVE  f \in Present' /\ disk'[f] = disk[f]
    <3>1. NextGroup \in todo /\ NextGroup \in Files
      BY <1>1, <2>1, <2>2, NextGroupIsDue DEF SinkInv
    <3>2. /\ DOMAIN WithFile(NextGroup, docs) = Present \cup {NextGroup}
          /\ \A g \in Present : g # NextGroup =>
               WithFile(NextGroup, docs)[g] = disk[g]
      BY <2>1, <3>1, WithFileType
    <3>3. f # NextGroup BY <2>1, <3>1
    <3>. QED BY <2>2, <3>2, <3>3 DEF Present
  <2>3. CASE WriteFile BY <2>1, <2>2, <2>3, DocumentsType DEF WriteFile
  <2>4. CASE TearFile
    <3>1. <<Torn>> \in Seq(Docs) BY DEF Docs
    <3>. QED BY <2>2, <2>4, <3>1 DEF TearFile
  <2>5. ~DeleteFile BY <2>1 DEF DeleteFile
  <2>6. CASE SinkReturns \/ SinkFails
    BY <2>6 DEF SinkReturns, SinkFails, Present
  <2>7. ~(Function \/ User \/ Source)
    BY <1>1 DEF Function, User, Source, ParseFile, SourceReturns, SourceFails
  <2>8. \A with \in BOOLEAN : ~StartSource(with) /\ ~StartSink(with)
    BY <1>1 DEF StartSource, StartSink, Start
  <2>. QED BY <1>1, <2>3, <2>4, <2>5, <2>6, <2>7, <2>8 DEF Next, Sink
<1>2. IInv /\ [Next]_vars =>
        [phase = "sink" /\ ~option =>
           \A f \in Present : f \in Present' /\ disk'[f] = disk[f]]_vars
  BY <1>1
<1>. QED BY <1>2, DirectoryInvariant, PTL DEF Spec, KeptWithoutOverwrite

(***************************************************************************)
(* writeYaml leaves a directory alone that is what it would write.         *)
(***************************************************************************)
THEOREM SecondRunNeverChanges == Spec => SecondRunChangesNothing
<1>1. ASSUME IInv, Next, phase = "sink", UpToDate PROVE disk' = disk
  <2>1. /\ TypeOK /\ SinkInv /\ Present = Groups
        /\ \A f \in Groups : disk[f] = Documents(f)
    BY <1>1 DEF IInv, UpToDate
  <2>2. disk = [f \in Present |-> disk[f]] BY <2>1 DEF TypeOK
  <2>3. CASE WriteFile
    <3>1. NextGroup \in Groups /\ NextGroup \in Present
      BY <1>1, <2>1, <2>3, NextGroupIsDue DEF WriteFile, SinkInv
    <3>2. disk[NextGroup] = Documents(NextGroup) BY <2>1, <3>1
    <3>3. disk' = [g \in Present \cup {NextGroup} |->
                     IF g = NextGroup THEN Documents(NextGroup) ELSE disk[g]]
      BY <2>3 DEF WriteFile, WithFile
    <3>. QED BY <2>2, <3>1, <3>2, <3>3
  <2>4. ~TearFile
    <3>. SUFFICES ASSUME TearFile PROVE FALSE OBVIOUS
    <3>1. NextGroup \in Groups /\ NextGroup \in Present
      BY <1>1, <2>1, NextGroupIsDue DEF TearFile, SinkInv
    <3>. QED BY <2>1, <3>1 DEF TearFile
  <2>5. ~DeleteFile
    <3>. SUFFICES ASSUME DeleteFile PROVE FALSE OBVIOUS
    <3>1. todo = {} /\ toDelete # {} BY DEF DeleteFile
    <3>. QED BY <1>1, <2>1, <3>1 DEF SinkInv
  <2>6. CASE SinkReturns \/ SinkFails BY <2>6 DEF SinkReturns, SinkFails
  <2>7. ~(Function \/ User \/ Source)
    BY <1>1 DEF Function, User, Source, ParseFile, SourceReturns, SourceFails
  <2>8. \A with \in BOOLEAN : ~StartSource(with) /\ ~StartSink(with)
    BY <1>1 DEF StartSource, StartSink, Start
  <2>. QED BY <1>1, <2>3, <2>4, <2>5, <2>6, <2>7, <2>8 DEF Next, Sink
<1>2. IInv /\ [Next]_vars => [phase = "sink" /\ disk' # disk => ~UpToDate]_vars
  BY <1>1
<1>. QED BY <1>2, DirectoryInvariant, PTL DEF Spec, SecondRunChangesNothing

-----------------------------------------------------------------------------
(* Source and sink are inverse. *)

(* A sequence without repetitions has as many elements as its length. *)
LEMMA CountDistinct ==
  ASSUME NEW n \in Nat, NEW s, \A i, j \in 1..n : s[i] = s[j] => i = j,
         NEW T, \A t \in T : \E i \in 1..n : s[i] = t,
         \A i \in 1..n : s[i] \in T
  PROVE  IsFiniteSet(T) /\ Cardinality(T) = n
<1>. DEFINE F == [i \in 1..n |-> s[i]]
<1>1. F \in [1..n -> T] OBVIOUS
<1>2. \A i, j \in 1..n : F[i] = F[j] => i = j OBVIOUS
<1>3. \A t \in T : \E i \in 1..n : F[i] = t OBVIOUS
<1>4. F \in Bijection(1..n, T)
  <2>. HIDE DEF F
  <2>. QED BY <1>1, <1>2, <1>3, Fun_IsBij
<1>5. ExistsBijection(1..n, T) BY <1>4 DEF ExistsBijection
<1>. QED BY <1>5, FS_NatBijection, FS_CountingElements

(* Once readYaml has read a clean directory, it is what would be written. *)
LEMMA CleanIsDocuments ==
  ASSUME IInv, phase = "source", todo = {}, Clean
  PROVE  /\ ~rejected /\ Groups = Present
         /\ \A k \in DOMAIN objects : objects[k].place # NoPlace
         /\ \A f \in Present : /\ Cardinality(Group(f)) = Len(disk[f])
                               /\ \A i \in DOMAIN disk[f] :
                                    KeyAt(f, i) = disk[f][i].key
<1>1. /\ TypeOK /\ Read = Present
      /\ \A k \in DOMAIN objects : objects[k].place.file \in Present
      /\ rejected => \E f \in Present : Invalid \in Range(disk[f])
      /\ DOMAIN objects = UNION {KeysOf(f) : f \in Present}
      /\ \A f \in Present : \A i \in DOMAIN disk[f] :
           objects[disk[f][i].key].place = Place(f, i - 1)
  BY DEF IInv, SourceInv, Read
<1>2. ~rejected BY <1>1, CleanInserted
<1>3. \A k \in DOMAIN objects : objects[k].place # NoPlace
  <2>1. 0 \notin Present BY <1>1 DEF TypeOK, Files
  <2>2. NoPlace.file = 0 BY DEF NoPlace, Place
  <2>. QED BY <1>1, <2>1, <2>2
<1>4. \A k \in DOMAIN objects : Path(k) = objects[k].place.file BY <1>3 DEF Path
<1>5. ASSUME NEW f \in Present, NEW i \in DOMAIN disk[f]
      PROVE  /\ disk[f][i].key \in DOMAIN objects
             /\ Path(disk[f][i].key) = f
             /\ objects[disk[f][i].key].place.index = i - 1
  <2>1. disk[f][i].key \in KeysOf(f) BY <1>1, CleanInserted
  <2>2. disk[f][i].key \in DOMAIN objects BY <1>1, <2>1
  <2>3. objects[disk[f][i].key].place = Place(f, i - 1) BY <1>1
  <2>. QED BY <1>4, <2>2, <2>3 DEF Place
<1>6. ASSUME NEW f \in Present
      PROVE  Group(f) = {disk[f][i].key : i \in DOMAIN disk[f]}
  <2>1. ASSUME NEW k \in Group(f)
        PROVE  k \in {disk[f][i].key : i \in DOMAIN disk[f]}
    <3>1. k \in DOMAIN objects /\ Path(k) = f BY DEF Group
    <3>2. PICK g \in Present : k \in KeysOf(g) BY <1>1, <3>1
    <3>3. PICK i \in DOMAIN disk[g] : k = disk[g][i].key
      BY <1>1, <3>2, CleanInserted
    <3>4. f = g BY <1>5, <3>1, <3>3
    <3>. QED BY <3>3, <3>4
  <2>2. \A i \in DOMAIN disk[f] : disk[f][i].key \in Group(f) BY <1>5 DEF Group
  <2>. QED BY <2>1, <2>2
<1>7. Groups = Present
  <2>1. Groups \subseteq Present BY <1>1, <1>4 DEF Groups
  <2>2. ASSUME NEW f \in Present PROVE f \in Groups
    <3>1. disk[f] \in Seq(Docs) /\ disk[f] # <<>> BY <1>1 DEF TypeOK, Clean
    <3>2. 1 \in DOMAIN disk[f] BY <3>1
    <3>. QED BY <1>5, <3>2 DEF Groups
  <2>. QED BY <2>1, <2>2
<1>8. ASSUME NEW f \in Present
      PROVE  /\ Cardinality(Group(f)) = Len(disk[f])
             /\ \A i \in DOMAIN disk[f] : KeyAt(f, i) = disk[f][i].key
  <2>. DEFINE n == Len(disk[f])
              key == KeysIn(disk[f])
  <2>1. n \in Nat /\ DOMAIN disk[f] = 1..n BY <1>1 DEF TypeOK
  <2>2. \A i \in 1..n : key[i] = disk[f][i].key BY <2>1 DEF KeysIn
  <2>. HIDE DEF n, key
  <2>3. \A i, j \in 1..n : key[i] = key[j] => i = j BY <2>1, <2>2 DEF Clean
  <2>4. Group(f) = {key[i] : i \in 1..n} BY <1>6, <2>1, <2>2
  <2>5. Cardinality(Group(f)) = n
    <3>1. /\ \A k \in Group(f) : \E i \in 1..n : key[i] = k
          /\ \A i \in 1..n : key[i] \in Group(f)
      BY <2>4
    <3>. QED BY <2>1, <2>3, <3>1, CountDistinct
  <2>6. ASSUME NEW i \in 1..n PROVE Rank(key[i]) = i - 1
    <3>1. \A j \in 1..n : Before(key[j], key[i]) <=> j < i
      <4>. TAKE j \in 1..n
      <4>1. /\ objects[key[j]].place.index = j - 1
            /\ objects[key[i]].place.index = i - 1
        BY <1>5, <2>1, <2>2
      <4>2. i = j => ~(key[j] < key[i])
        <5>1. key[i] \in Keys
          BY <1>1, <1>5, <2>1, <2>2 DEF TypeOK
        <5>. QED BY <5>1 DEF Keys
      <4>. QED BY <2>1, <4>1, <4>2 DEF Before
    <3>2. Path(key[i]) = f BY <1>5, <2>1, <2>2
    <3>3. {l \in Group(Path(key[i])) : Before(l, key[i])}
            = {key[j] : j \in 1..i - 1}
      <4>1. \A j \in 1..n : j < i <=> j \in 1..i - 1 BY <2>1
      <4>2. 1..i - 1 \subseteq 1..n BY <2>1
      <4>. QED BY <2>4, <3>1, <3>2, <4>1, <4>2
    <3>4. Cardinality({key[j] : j \in 1..i - 1}) = i - 1
      <4>. DEFINE m == i - 1
                  T == {key[j] : j \in 1..m}
      <4>1. m \in Nat /\ 1..m \subseteq 1..n BY <2>1
      <4>2. \A j, l \in 1..m : key[j] = key[l] => j = l BY <2>3, <4>1
      <4>3. /\ \A t \in T : \E j \in 1..m : key[j] = t
            /\ \A j \in 1..m : key[j] \in T
        OBVIOUS
      <4>. HIDE DEF m, T
      <4>4. Cardinality(T) = m BY <4>1, <4>2, <4>3, CountDistinct
      <4>. QED BY <4>4 DEF m, T
    <3>. QED BY <3>3, <3>4 DEF Rank
  <2>7. ASSUME NEW i \in 1..n PROVE KeyAt(f, i) = key[i]
    <3>1. KeyAt(f, i) \in Group(f) /\ Rank(KeyAt(f, i)) = i - 1
      BY <1>1, <2>5, DocumentsSorted
    <3>2. PICK j \in 1..n : KeyAt(f, i) = key[j] BY <2>4, <3>1
    <3>3. j - 1 = i - 1 BY <2>6, <3>1, <3>2
    <3>. QED BY <2>1, <3>2, <3>3
  <2>. QED BY <2>1, <2>2, <2>5, <2>7 DEF n
<1>. QED BY <1>2, <1>3, <1>7, <1>8

(***************************************************************************)
(* What readYaml returns of a directory without duplicates, writeYaml      *)
(* would write to the same files in the same order, for any number of      *)
(* files and documents.                                                    *)
(***************************************************************************)
THEOREM AlwaysRoundTrip == Spec => RoundTrip
<1>1. ASSUME IInv, SourceReturns, Clean
      PROVE  /\ Groups' = Present
             /\ \A f \in Present : KeysIn(Documents(f)') = KeysIn(disk[f])
  <2>1. phase = "source" /\ todo = {} BY <1>1 DEF SourceReturns
  <2>2. /\ ~rejected /\ Groups = Present
        /\ \A k \in DOMAIN objects : objects[k].place # NoPlace
        /\ \A f \in Present : /\ Cardinality(Group(f)) = Len(disk[f])
                              /\ \A i \in DOMAIN disk[f] :
                                   KeyAt(f, i) = disk[f][i].key
    BY <1>1, <2>1, CleanIsDocuments
  <2>3. /\ DOMAIN objects' = DOMAIN objects
        /\ \A k \in DOMAIN objects : objects'[k].place = objects[k].place
    BY <1>1, <2>2 DEF SourceReturns, Object
  <2>4. \A k \in DOMAIN objects : Path(k)' = Path(k) BY <2>2, <2>3 DEF Path
  <2>5. Groups' = Groups /\ \A f : Group(f)' = Group(f)
    BY <2>3, <2>4 DEF Groups, Group
  <2>6. \A k \in DOMAIN objects : Rank(k)' = Rank(k)
    <3>. TAKE k \in DOMAIN objects
    <3>1. \A l \in DOMAIN objects : Before(l, k)' <=> Before(l, k)
      BY <2>3 DEF Before
    <3>2. Group(Path(k))' = Group(Path(k)) /\ Group(Path(k)) \subseteq DOMAIN objects
      BY <2>4, <2>5 DEF Group
    <3>3. {l \in Group(Path(k)) : Before(l, k)}'
            = {l \in Group(Path(k)) : Before(l, k)}
      BY <3>1, <3>2
    <3>. QED BY <3>3 DEF Rank
  <2>7. ASSUME NEW f \in Present
        PROVE  KeysIn(Documents(f)') = KeysIn(disk[f])
    <3>1. \A i : KeyAt(f, i)' = KeyAt(f, i)
      <4>1. \A k \in Group(f) : Rank(k)' = Rank(k) BY <2>6 DEF Group
      <4>. QED BY <2>5, <4>1 DEF KeyAt
    <3>2. DOMAIN disk[f] = 1..Cardinality(Group(f))
      BY <1>1, <2>2 DEF IInv, TypeOK
    <3>3. KeysIn(Documents(f)') = [i \in 1..Cardinality(Group(f)) |-> KeyAt(f, i)]
      BY <2>5, <3>1 DEF KeysIn, Documents, Doc
    <3>4. KeysIn(disk[f]) = [i \in 1..Cardinality(Group(f)) |-> KeyAt(f, i)]
      BY <2>2, <3>2 DEF KeysIn
    <3>. QED BY <3>3, <3>4
  <2>. QED BY <2>2, <2>5, <2>7
<1>2. IInv /\ [Next]_vars =>
        [SourceReturns /\ Clean =>
           /\ Groups' = Present
           /\ \A f \in Present : KeysIn(Documents(f)') = KeysIn(disk[f])]_vars
  BY <1>1
<1>. QED BY <1>2, DirectoryInvariant, PTL DEF Spec, RoundTrip
=============================================================================
