--------------------------- MODULE Configs_proofs ---------------------------
(***************************************************************************)
(* Proofs about the document store of the TypeScript SDK, for every set of *)
(* objects, every ordered set of keys and calls of any number of arguments.*)
(***************************************************************************)
EXTENDS Configs, SequenceTheorems, TLAPS

\* What splice returns when it puts one element in.
LEMMA SpliceIn ==
  ASSUME NEW S, NEW array \in Seq(S), NEW e \in S, NEW index \in 0..Len(array)
  PROVE  /\ Splice(array, index, 0, <<e>>) \in Seq(S)
         /\ Len(Splice(array, index, 0, <<e>>)) = Len(array) + 1
         /\ \A i \in 1..Len(array) + 1 :
              /\ i <= index => Splice(array, index, 0, <<e>>)[i] = array[i]
              /\ i = index + 1 => Splice(array, index, 0, <<e>>)[i] = e
              /\ i > index + 1 => Splice(array, index, 0, <<e>>)[i] = array[i - 1]
<1> DEFINE front == SubSeq(array, 1, index)
           mid == front \o <<e>>
           back == SubSeq(array, index + 1, Len(array))
           s == mid \o back
<1>1. /\ front \in Seq(S) /\ Len(front) = index
      /\ \A i \in 1..index : front[i] = array[i]
  BY SubSeqProperties
<1>2. /\ back \in Seq(S) /\ Len(back) = Len(array) - index
      /\ \A i \in 1..Len(back) : back[i] = array[index + i]
  BY SubSeqProperties
<1>3. Splice(array, index, 0, <<e>>) = s
  <2>1. index + 0 + 1 = index + 1
    OBVIOUS
  <2> QED
    BY <2>1 DEF Splice
<1> HIDE DEF front, back
<1>4. /\ mid \in Seq(S) /\ Len(mid) = index + 1
      /\ \A i \in 1..index + 1 :
           mid[i] = IF i <= index THEN front[i] ELSE <<e>>[i - index]
  BY <1>1, ConcatProperties
<1>5. mid[index + 1] = e
  BY <1>4
<1> HIDE DEF mid
<1>6. /\ s \in Seq(S)
      /\ Len(s) = Len(array) + 1
      /\ \A i \in 1..Len(array) + 1 :
           s[i] = IF i <= index + 1 THEN mid[i] ELSE back[i - (index + 1)]
  BY <1>2, <1>4, ConcatProperties
<1> HIDE DEF s
<1>7. ASSUME NEW i \in 1..Len(array) + 1
      PROVE  /\ i <= index => s[i] = array[i]
             /\ i = index + 1 => s[i] = e
             /\ i > index + 1 => s[i] = array[i - 1]
  <2>1. i <= index => s[i] = array[i]
    BY <1>1, <1>4, <1>6
  <2>2. i = index + 1 => s[i] = e
    BY <1>5, <1>6
  <2>3. ASSUME i > index + 1
        PROVE  s[i] = array[i - 1]
    <3>1. i - (index + 1) \in 1..Len(back)
      BY <2>3, <1>2
    <3>2. back[i - (index + 1)] = array[index + (i - (index + 1))]
      BY <3>1, <1>2
    <3>3. index + (i - (index + 1)) = i - 1
      OBVIOUS
    <3> QED
      BY <2>3, <3>2, <3>3, <1>6
  <2> QED
    BY <2>1, <2>2, <2>3
<1> QED
  BY <1>3, <1>6, <1>7

\* What splice returns when it puts one element in the place of another.
LEMMA SpliceOver ==
  ASSUME NEW S, NEW array \in Seq(S), NEW e \in S,
         NEW index \in 0..Len(array) - 1
  PROVE  /\ Splice(array, index, 1, <<e>>) = [array EXCEPT ![index + 1] = e]
         /\ Splice(array, index, 1, <<e>>) \in Seq(S)
<1> DEFINE front == SubSeq(array, 1, index)
           mid == front \o <<e>>
           back == SubSeq(array, index + 2, Len(array))
           s == mid \o back
           t == [array EXCEPT ![index + 1] = e]
<1>1. /\ front \in Seq(S) /\ Len(front) = index
      /\ \A i \in 1..index : front[i] = array[i]
  BY SubSeqProperties
<1>2. /\ back \in Seq(S) /\ Len(back) = Len(array) - index - 1
      /\ \A i \in 1..Len(back) : back[i] = array[index + 1 + i]
  BY SubSeqProperties
<1>3. Splice(array, index, 1, <<e>>) = s
  <2>1. index + 1 + 1 = index + 2
    OBVIOUS
  <2> QED
    BY <2>1 DEF Splice
<1>4. /\ t \in Seq(S) /\ Len(t) = Len(array)
      /\ t[index + 1] = e
      /\ \A i \in 1..Len(array) : i # index + 1 => t[i] = array[i]
  BY ExceptSeq
<1> HIDE DEF front, back, t
<1>5. /\ mid \in Seq(S) /\ Len(mid) = index + 1
      /\ \A i \in 1..index + 1 :
           mid[i] = IF i <= index THEN front[i] ELSE <<e>>[i - index]
  BY <1>1, ConcatProperties
<1>6. mid[index + 1] = e
  BY <1>5
<1> HIDE DEF mid
<1>7. /\ s \in Seq(S)
      /\ Len(s) = Len(array)
      /\ \A i \in 1..Len(array) :
           s[i] = IF i <= index + 1 THEN mid[i] ELSE back[i - (index + 1)]
  <2>1. /\ s \in Seq(S)
        /\ Len(s) = Len(mid) + Len(back)
        /\ \A i \in 1..Len(mid) + Len(back) :
             s[i] = IF i <= Len(mid) THEN mid[i] ELSE back[i - Len(mid)]
    BY <1>2, <1>5, ConcatProperties
  <2>2. Len(mid) = index + 1 /\ Len(mid) + Len(back) = Len(array)
    BY <1>2, <1>5
  <2> HIDE DEF s
  <2> QED
    BY <2>1, <2>2
<1> HIDE DEF s
<1>8. ASSUME NEW i \in 1..Len(array)
      PROVE  s[i] = t[i]
  <2>1. i <= index => s[i] = t[i]
    BY <1>1, <1>4, <1>5, <1>7
  <2>2. i = index + 1 => s[i] = t[i]
    BY <1>4, <1>6, <1>7
  <2>3. ASSUME i > index + 1
        PROVE  s[i] = t[i]
    <3>1. i - (index + 1) \in 1..Len(back)
      BY <2>3, <1>2
    <3>2. back[i - (index + 1)] = array[index + 1 + (i - (index + 1))]
      BY <3>1, <1>2
    <3>3. index + 1 + (i - (index + 1)) = i
      OBVIOUS
    <3>4. s[i] = back[i - (index + 1)]
      BY <2>3, <1>7
    <3>5. t[i] = array[i]
      BY <2>3, <1>4
    <3> QED
      BY <3>2, <3>3, <3>4, <3>5
  <2> QED
    BY <2>1, <2>2, <2>3
<1>9. s = t
  BY <1>4, <1>7, <1>8, SeqEqual
<1> QED
  BY <1>3, <1>7, <1>9 DEF t

\* What splice returns when it takes one element out.
LEMMA SpliceOut ==
  ASSUME NEW S, NEW array \in Seq(S), NEW index \in 0..Len(array) - 1
  PROVE  /\ Splice(array, index, 1, <<>>) \in Seq(S)
         /\ Len(Splice(array, index, 1, <<>>)) = Len(array) - 1
         /\ \A i \in 1..Len(array) - 1 :
              /\ i <= index => Splice(array, index, 1, <<>>)[i] = array[i]
              /\ i > index => Splice(array, index, 1, <<>>)[i] = array[i + 1]
<1> DEFINE front == SubSeq(array, 1, index)
           back == SubSeq(array, index + 2, Len(array))
           s == front \o back
<1>1. /\ front \in Seq(S) /\ Len(front) = index
      /\ \A i \in 1..index : front[i] = array[i]
  BY SubSeqProperties
<1>2. /\ back \in Seq(S) /\ Len(back) = Len(array) - index - 1
      /\ \A i \in 1..Len(back) : back[i] = array[index + 1 + i]
  BY SubSeqProperties
<1>3. Splice(array, index, 1, <<>>) = s
  <2>1. front \o <<>> = front
    BY <1>1, ConcatEmptySeq
  <2>2. index + 1 + 1 = index + 2
    OBVIOUS
  <2> QED
    BY <2>1, <2>2 DEF Splice
<1> HIDE DEF front, back
<1>4. /\ s \in Seq(S)
      /\ Len(s) = Len(array) - 1
      /\ \A i \in 1..Len(array) - 1 :
           s[i] = IF i <= index THEN front[i] ELSE back[i - index]
  <2>1. /\ s \in Seq(S)
        /\ Len(s) = Len(front) + Len(back)
        /\ \A i \in 1..Len(front) + Len(back) :
             s[i] = IF i <= Len(front) THEN front[i] ELSE back[i - Len(front)]
    BY <1>1, <1>2, ConcatProperties
  <2>2. Len(front) = index /\ Len(front) + Len(back) = Len(array) - 1
    BY <1>1, <1>2
  <2> HIDE DEF s
  <2> QED
    BY <2>1, <2>2
<1> HIDE DEF s
<1>5. ASSUME NEW i \in 1..Len(array) - 1
      PROVE  /\ i <= index => s[i] = array[i]
             /\ i > index => s[i] = array[i + 1]
  <2>1. i <= index => s[i] = array[i]
    BY <1>1, <1>4
  <2>2. ASSUME i > index
        PROVE  s[i] = array[i + 1]
    <3>1. i - index \in 1..Len(back)
      BY <2>2, <1>2
    <3>2. back[i - index] = array[index + 1 + (i - index)]
      BY <3>1, <1>2
    <3>3. index + 1 + (i - index) = i + 1
      OBVIOUS
    <3> QED
      BY <2>2, <3>2, <3>3, <1>4
  <2> QED
    BY <2>1, <2>2
<1> QED
  BY <1>3, <1>4, <1>5

-----------------------------------------------------------------------------
(* insert and delete keep the array sorted, given what indexOf found out. *)

\* The keys of the entries are natural numbers.
LEMMA EntryKeys ==
  ASSUME NEW array \in Seq(Entry)
  PROVE  \A i \in 1..Len(array) :
           array[i] \in Entry /\ array[i].key \in Nat /\ array[i].obj \in Objects
<1>1. \A i \in 1..Len(array) : array[i] \in Entry
  OBVIOUS
<1> QED
  BY <1>1, KeysAssumption DEF Entry

\* A sorted array stays sorted when an entry goes in between smaller and
\* larger ones.
LEMMA SortedIn ==
  ASSUME NEW array \in Seq(Entry), NEW e \in Entry, NEW index \in 0..Len(array),
         Sorted(array),
         \A i \in 1..Len(array) : i <= index => array[i].key < e.key,
         \A i \in 1..Len(array) : i > index => array[i].key > e.key
  PROVE  Sorted(Splice(array, index, 0, <<e>>))
<1> DEFINE s == Splice(array, index, 0, <<e>>)
<1>1. /\ s \in Seq(Entry)
      /\ Len(s) = Len(array) + 1
      /\ \A i \in 1..Len(array) + 1 :
           /\ i <= index => s[i] = array[i]
           /\ i = index + 1 => s[i] = e
           /\ i > index + 1 => s[i] = array[i - 1]
  BY SpliceIn
<1> HIDE DEF s
<1>2. ASSUME NEW i \in DOMAIN s, NEW j \in DOMAIN s, i < j
      PROVE  s[i].key < s[j].key
  <2>0. e.key \in Nat
    BY KeysAssumption DEF Entry
  <2>1. /\ i \in 1..Len(array) + 1 /\ j \in 1..Len(array) + 1
        /\ i < j /\ index \in Nat /\ e.key \in Nat
    BY <1>1, <1>2, <2>0
  <2>2. CASE j <= index
    <3>1. s[i] = array[i] /\ s[j] = array[j]
      BY <2>1, <2>2, <1>1
    <3> QED
      BY <2>1, <2>2, <3>1 DEF Sorted
  <2>3. CASE i <= index /\ j = index + 1
    <3>1. s[i] = array[i] /\ s[j] = e
      BY <2>1, <2>3, <1>1
    <3>2. i \in 1..Len(array)
      BY <2>1, <2>3
    <3> QED
      BY <2>3, <3>1, <3>2
  <2>4. CASE i <= index /\ j > index + 1
    <3>1. s[i] = array[i] /\ s[j] = array[j - 1]
      BY <2>1, <2>4, <1>1
    <3>2. i \in 1..Len(array) /\ j - 1 \in 1..Len(array) /\ i < j - 1
      BY <2>1, <2>4
    <3> QED
      BY <3>1, <3>2 DEF Sorted
  <2>5. CASE i = index + 1
    <3>1. s[i] = e /\ s[j] = array[j - 1]
      BY <2>1, <2>5, <1>1
    <3>2. j - 1 \in 1..Len(array) /\ j - 1 > index
      BY <2>1, <2>5
    <3>3. array[j - 1].key \in Nat
      BY <3>2, EntryKeys
    <3> QED
      BY <2>1, <3>1, <3>2, <3>3
  <2>6. CASE i > index + 1
    <3>1. s[i] = array[i - 1] /\ s[j] = array[j - 1]
      BY <2>1, <2>6, <1>1
    <3>2. i - 1 \in 1..Len(array) /\ j - 1 \in 1..Len(array) /\ i - 1 < j - 1
      BY <2>1, <2>6
    <3> QED
      BY <3>1, <3>2 DEF Sorted
  <2> QED
    BY <2>1, <2>2, <2>3, <2>4, <2>5, <2>6
<1> QED
  BY <1>2 DEF Sorted, s

\* ... when an entry is replaced by one of the same key.
LEMMA SortedOver ==
  ASSUME NEW array \in Seq(Entry), NEW e \in Entry,
         NEW index \in 0..Len(array) - 1,
         Sorted(array), array[index + 1].key = e.key
  PROVE  Sorted(Splice(array, index, 1, <<e>>))
<1>1. Splice(array, index, 1, <<e>>) = [array EXCEPT ![index + 1] = e]
  BY SpliceOver
<1> QED
  BY <1>1 DEF Sorted

\* ... and when an entry is taken out.
LEMMA SortedOut ==
  ASSUME NEW array \in Seq(Entry), NEW index \in 0..Len(array) - 1,
         Sorted(array)
  PROVE  Sorted(Splice(array, index, 1, <<>>))
<1> DEFINE s == Splice(array, index, 1, <<>>)
           old(i) == IF i <= index THEN i ELSE i + 1
<1>1. /\ s \in Seq(Entry)
      /\ Len(s) = Len(array) - 1
      /\ \A i \in 1..Len(array) - 1 :
           /\ i <= index => s[i] = array[i]
           /\ i > index => s[i] = array[i + 1]
  BY SpliceOut
<1> HIDE DEF s
<1>2. ASSUME NEW i \in DOMAIN s, NEW j \in DOMAIN s, i < j
      PROVE  s[i].key < s[j].key
  <2>1. /\ i \in 1..Len(array) - 1 /\ j \in 1..Len(array) - 1
        /\ i < j /\ index \in Nat
    BY <1>1, <1>2
  <2>2. s[i] = array[old(i)] /\ s[j] = array[old(j)]
    <3>1. ASSUME NEW m \in 1..Len(array) - 1
          PROVE  s[m] = array[old(m)]
      <4>1. m <= index => s[m] = array[m]
        BY <1>1
      <4>2. ~(m <= index) => s[m] = array[m + 1]
        BY <1>1
      <4> QED
        BY <4>1, <4>2
    <3> QED
      BY <2>1, <3>1
  <2>3. /\ old(i) \in 1..Len(array) /\ old(j) \in 1..Len(array)
        /\ old(i) < old(j)
    BY <2>1
  <2> QED
    BY <2>2, <2>3 DEF Sorted
<1> QED
  BY <1>2 DEF Sorted, s

-----------------------------------------------------------------------------
(* One recursive call of indexOf. *)

\* The middle of a search window that is not empty lies inside it.
LEMMA MidInWindow ==
  ASSUME TypeOK, SearchedOutside, window.len > 0
  PROVE  /\ Mid \in 1..Len(objects)
         /\ Mid > window.offset
         /\ Mid <= window.offset + window.len
         /\ window.len \div 2 \in Nat
         /\ window.offset + (window.len \div 2) = Mid - 1
<1>1. /\ window.offset \in Nat /\ window.len \in Nat /\ Len(objects) \in Nat
      /\ window.offset + window.len <= Len(objects)
  BY DEF TypeOK, SearchedOutside
<1>2. window.len \div 2 \in Nat /\ window.len \div 2 < window.len
  BY <1>1
<1>3. Mid = window.offset + (window.len \div 2) + 1
  BY DEF Mid
<1> DEFINE half == window.len \div 2
<1>4. half \in Nat /\ half < window.len /\ Mid = window.offset + half + 1
  BY <1>2, <1>3
<1> HIDE DEF half
<1>5. /\ Mid \in 1..Len(objects)
      /\ Mid > window.offset /\ Mid <= window.offset + window.len
      /\ window.offset + half = Mid - 1
  BY <1>1, <1>4
<1> QED
  BY <1>4, <1>5 DEF half

-----------------------------------------------------------------------------
\* The invariant holds of the empty store the constructor starts from.
LEMMA InitIInv == Init => IInv
<1> SUFFICES ASSUME Init
             PROVE  IInv
  OBVIOUS
<1>1. TypeOK
  BY DEF Init, TypeOK, NoCall, Ops, Whole
<1>2. SortedByKey
  BY DEF Init, SortedByKey, Sorted
<1>3. SearchedOutside
  BY DEF Init, SearchedOutside, NoCall, Whole
<1> QED
  BY <1>1, <1>2, <1>3 DEF IInv

\* A search that has just begun has excluded nothing.
LEMMA FreshSearch ==
  ASSUME NEW array \in Seq(Entry)
  PROVE  /\ Whole(array) \in [offset : Nat, len : Nat]
         /\ Whole(array).offset + Whole(array).len = Len(array)
         /\ \A i \in 1..Len(array) :
              /\ ~(i <= Whole(array).offset)
              /\ ~(i > Whole(array).offset + Whole(array).len)
  BY DEF Whole

\* Every step keeps the types.
LEMMA StepType == IInv /\ [Next]_vars => TypeOK'
<1> SUFFICES ASSUME IInv, [Next]_vars
             PROVE  TypeOK'
  OBVIOUS
<1> USE DEF IInv
<1>1. ASSUME NEW o \in Objects, NEW k \in Keys, Rename(o, k)
      PROVE  TypeOK'
  BY <1>1 DEF Rename, TypeOK
<1>2. ASSUME NEW args \in Args, Insert(args) \/ Delete(args)
      PROVE  TypeOK'
  <2>1. args \in Seq(Objects)
    BY MaxArgsAssumption DEF Args
  <2> QED
    BY <1>2, <2>1, FreshSearch DEF Insert, Delete, Begin, TypeOK, Ops
<1>3. ASSUME DeleteAll
      PROVE  TypeOK'
  BY <1>3 DEF DeleteAll, TypeOK, Whole
<1>4. ASSUME DeepCopy
      PROVE  TypeOK'
  <2>1. [i \in DOMAIN objects |-> objects[i].obj] \in Seq(Objects)
    BY EntryKeys DEF TypeOK
  <2> QED
    BY <1>4, <2>1 DEF DeepCopy, Begin, TypeOK, Ops, Whole
<1>5. ASSUME LookBefore
      PROVE  TypeOK'
  BY <1>5, MidInWindow DEF LookBefore, TypeOK
<1>6. ASSUME LookAfter
      PROVE  TypeOK'
  <2>1. Mid \in Nat /\ window.offset + window.len - Mid \in Nat
    <3>1. window.offset \in Nat /\ window.len \in Nat /\ Len(objects) \in Nat
      BY DEF TypeOK
    <3>2. Mid \in 1..Len(objects) /\ Mid <= window.offset + window.len
      BY <1>6, MidInWindow DEF LookAfter
    <3> QED
      BY <3>1, <3>2
  <2>2. window' \in [offset : Nat, len : Nat]
    BY <1>6, <2>1 DEF LookAfter
  <2> QED
    BY <1>6, <2>2 DEF LookAfter, TypeOK
<1>7. ASSUME NextArgument, objects' \in Seq(Entry), call.args # <<>>
      PROVE  TypeOK'
  <2>1. Tail(call.args) \in Seq(Objects)
    BY <1>7 DEF TypeOK
  <2>2. call' \in [op : Ops, args : Seq(Objects)]
    <3>1. CASE Len(call.args) = 1
      BY <1>7, <3>1 DEF NextArgument, NoCall, Ops
    <3>2. CASE Len(call.args) # 1
      <4>1. call' = [call EXCEPT !.args = Tail(call.args)]
        BY <1>7, <3>2 DEF NextArgument
      <4> QED
        BY <2>1, <4>1 DEF TypeOK
    <3> QED
      BY <3>1, <3>2
  <2>3. window' \in [offset : Nat, len : Nat]
    BY <1>7 DEF NextArgument, Whole
  <2> QED
    BY <1>7, <2>2, <2>3 DEF NextArgument, TypeOK
<1>8. ASSUME InsertHere
      PROVE  TypeOK'
  <2> DEFINE e == [key |-> Sought, obj |-> Head(call.args)]
  <2>1. call.args # <<>> /\ e \in Entry
    BY <1>8 DEF InsertHere, SearchedOutside, TypeOK, Entry, Sought
  <2>2. window.offset \in 0..Len(objects)
    BY DEF TypeOK, SearchedOutside
  <2>3. CASE Found
    <3>1. Mid - 1 \in 0..Len(objects) - 1
      BY <2>3, MidInWindow DEF Found
    <3>2. objects' = Splice(objects, Mid - 1, 1, <<e>>)
      BY <1>8, <2>3 DEF InsertHere, Index
    <3>3. objects' \in Seq(Entry)
      BY <2>1, <3>1, <3>2, SpliceOver DEF TypeOK
    <3> QED
      BY <1>7, <1>8, <2>1, <3>3 DEF InsertHere
  <2>4. CASE ~Found
    <3>1. objects' = Splice(objects, window.offset, 0, <<e>>)
      BY <1>8, <2>4 DEF InsertHere, Index
    <3>2. objects' \in Seq(Entry)
      BY <2>1, <2>2, <3>1, SpliceIn DEF TypeOK
    <3> QED
      BY <1>7, <1>8, <2>1, <3>2 DEF InsertHere
  <2> QED
    BY <2>3, <2>4
<1>9. ASSUME DeleteHere
      PROVE  TypeOK'
  <2>1. call.args # <<>>
    BY <1>9 DEF DeleteHere, SearchedOutside
  <2>2. CASE Found
    <3>1. Mid - 1 \in 0..Len(objects) - 1
      BY <2>2, MidInWindow DEF Found
    <3>2. objects' = Splice(objects, Mid - 1, 1, <<>>)
      BY <1>9, <2>2 DEF DeleteHere, Index
    <3>3. objects' \in Seq(Entry)
      BY <3>1, <3>2, SpliceOut DEF TypeOK
    <3> QED
      BY <1>7, <1>9, <2>1, <3>3 DEF DeleteHere
  <2>3. CASE ~Found
    BY <1>7, <1>9, <2>1, <2>3 DEF DeleteHere, TypeOK
  <2> QED
    BY <2>2, <2>3
<1>10. CASE UNCHANGED vars
  BY <1>10 DEF TypeOK, vars
<1> QED
  BY <1>1, <1>2, <1>3, <1>4, <1>5, <1>6, <1>8, <1>9, <1>10
     DEF Next, Caller, Step

\* Every step keeps the array sorted.
LEMMA StepSorted == IInv /\ [Next]_vars => SortedByKey'
<1> SUFFICES ASSUME IInv, [Next]_vars
             PROVE  Sorted(objects')
  BY DEF SortedByKey
<1> USE DEF IInv
<1>1. CASE UNCHANGED objects
  BY <1>1 DEF SortedByKey
<1>2. CASE objects' = <<>>
  BY <1>2 DEF Sorted
<1>3. ASSUME Found, call.op # "none"
      PROVE  /\ Mid - 1 \in 0..Len(objects) - 1
             /\ objects[Mid - 1 + 1].key = Sought
  <2>1. Mid \in 1..Len(objects)
    BY <1>3, MidInWindow DEF Found
  <2> QED
    BY <1>3, <2>1 DEF Found
<1>4. ASSUME InsertHere
      PROVE  Sorted(objects')
  <2> DEFINE e == [key |-> Sought, obj |-> Head(call.args)]
  <2>1. e \in Entry /\ call.op # "none"
    BY <1>4 DEF InsertHere, SearchedOutside, TypeOK, Entry, Sought
  <2>2. CASE Found
    <3>1. objects' = Splice(objects, Mid - 1, 1, <<e>>)
      BY <1>4, <2>2 DEF InsertHere, Index
    <3>2. objects[Mid - 1 + 1].key = e.key
      BY <1>3, <2>1, <2>2
    <3> QED
      BY <1>3, <2>1, <2>2, <3>1, <3>2, SortedOver DEF TypeOK, SortedByKey
  <2>3. CASE ~Found
    <3>1. objects' = Splice(objects, window.offset, 0, <<e>>)
      BY <1>4, <2>3 DEF InsertHere, Index
    <3>2. window.len = 0
      BY <1>4, <2>3 DEF InsertHere, Missing
    <3>3. /\ window.offset \in 0..Len(objects)
          /\ \A i \in 1..Len(objects) : i <= window.offset => objects[i].key < e.key
          /\ \A i \in 1..Len(objects) : i > window.offset => objects[i].key > e.key
      BY <2>1, <3>2 DEF TypeOK, SearchedOutside
    <3> QED
      BY <2>1, <3>1, <3>3, SortedIn DEF TypeOK, SortedByKey
  <2> QED
    BY <2>2, <2>3
<1>5. ASSUME DeleteHere, Found
      PROVE  Sorted(objects')
  <2>1. objects' = Splice(objects, Mid - 1, 1, <<>>)
    BY <1>5 DEF DeleteHere, Index
  <2>2. Mid - 1 \in 0..Len(objects) - 1
    BY <1>3, <1>5 DEF DeleteHere
  <2> QED
    BY <2>1, <2>2, SortedOut DEF TypeOK, SortedByKey
<1> QED
  BY <1>1, <1>2, <1>4, <1>5
     DEF Next, Caller, Step, Rename, Insert, Delete, Begin, DeleteAll, DeepCopy,
         LookBefore, LookAfter, DeleteHere, vars

\* Every step of indexOf keeps the sought key out of what it has excluded.
LEMMA StepSearched == IInv /\ [Next]_vars => SearchedOutside'
<1> SUFFICES ASSUME IInv, [Next]_vars
             PROVE  SearchedOutside'
  OBVIOUS
<1> USE DEF IInv
<1>1. TypeOK'
  BY StepType
\* A search that starts on the new array.
<1>2. ASSUME window' = Whole(objects'), call'.op # "none" => call'.args # <<>>
      PROVE  SearchedOutside'
  <2>1. objects' \in Seq(Entry)
    BY <1>1 DEF TypeOK
  <2>2. /\ window'.offset + window'.len = Len(objects')
        /\ Len(objects') \in Nat
        /\ DOMAIN objects' = 1..Len(objects')
        /\ \A i \in 1..Len(objects') :
             ~(i <= window'.offset) /\ ~(i > window'.offset + window'.len)
    BY <1>2, <2>1, FreshSearch
  <2> QED
    BY <1>2, <2>2 DEF SearchedOutside
<1>3. ASSUME NextArgument
      PROVE  SearchedOutside'
  <2>1. CASE Len(call.args) = 1
    BY <1>2, <1>3, <2>1 DEF NextArgument, NoCall
  <2>2. CASE Len(call.args) # 1
    <3>1. call' = [call EXCEPT !.args = Tail(call.args)]
      BY <1>3, <2>2 DEF NextArgument
    <3>2. ASSUME call.op # "none"
          PROVE  call'.args # <<>>
      <4>1. call.args \in Seq(Objects) /\ call.args # <<>>
        BY <3>2 DEF TypeOK, SearchedOutside
      <4>2. Len(Tail(call.args)) # 0
        BY <2>2, <4>1, HeadTailProperties
      <4>3. call'.args = Tail(call.args)
        BY <3>1 DEF TypeOK
      <4>4. Len(<<>>) = 0
        OBVIOUS
      <4> QED
        BY <4>2, <4>3, <4>4
    <3> QED
      BY <1>2, <1>3, <3>1, <3>2 DEF NextArgument, TypeOK
  <2> QED
    BY <2>1, <2>2
<1>4. ASSUME NEW o \in Objects, NEW k \in Keys, Rename(o, k)
      PROVE  SearchedOutside'
  BY <1>4 DEF Rename, SearchedOutside, NoCall
<1>5. ASSUME NEW args \in Args, Insert(args) \/ Delete(args)
      PROVE  SearchedOutside'
  <2>1. args # <<>>
    BY MaxArgsAssumption DEF Args
  <2> QED
    BY <1>2, <1>5, <2>1 DEF Insert, Delete, Begin
<1>6. ASSUME DeleteAll
      PROVE  SearchedOutside'
  BY <1>2, <1>6 DEF DeleteAll, NoCall
<1>7. ASSUME DeepCopy
      PROVE  SearchedOutside'
  <2>1. [i \in DOMAIN objects |-> objects[i].obj] # <<>>
    BY <1>7 DEF DeepCopy, TypeOK
  <2> QED
    BY <1>2, <1>7, <2>1 DEF DeepCopy, Begin
<1>8. ASSUME LookBefore \/ LookAfter
      PROVE  SearchedOutside'
  <2>1. /\ Mid \in 1..Len(objects) /\ Mid > window.offset
        /\ Mid <= window.offset + window.len
        /\ window.offset + (window.len \div 2) = Mid - 1
        /\ window.len \div 2 \in Nat
    BY <1>8, MidInWindow DEF LookBefore, LookAfter
  <2>2. Sought \in Nat /\ call.op # "none" /\ call.args # <<>>
    BY <1>8, KeysAssumption DEF LookBefore, LookAfter, TypeOK, SearchedOutside, Sought
  <2>3. UNCHANGED <<call, objects>> /\ Sought' = Sought
    BY <1>8 DEF LookBefore, LookAfter, Sought
  <2>4. /\ \A i \in 1..Len(objects) : objects[i].key \in Nat
        /\ \A i, j \in 1..Len(objects) :
             i < j => objects[i].key < objects[j].key
    <3>1. objects \in Seq(Entry) /\ Sorted(objects)
      BY DEF SortedByKey, TypeOK
    <3>2. DOMAIN objects = 1..Len(objects)
      BY <3>1
    <3>3. \A i \in 1..Len(objects) : objects[i].key \in Nat
      BY <3>1, EntryKeys
    <3> QED
      BY <3>1, <3>2, <3>3 DEF Sorted
  <2>5. CASE LookBefore
    <3>1. window'.offset = window.offset /\ window'.len = window.len \div 2
      BY <2>5 DEF LookBefore, TypeOK
    <3>2. ASSUME NEW i \in 1..Len(objects), i > Mid - 1
          PROVE  objects[i].key > Sought
      <4>1. objects[i].key >= objects[Mid].key
        BY <2>1, <2>4, <3>2
      <4>2. Sought < objects[Mid].key
        BY <2>5 DEF LookBefore
      <4> QED
        BY <2>1, <2>2, <2>4, <4>1, <4>2
    <3>3. /\ window'.offset + window'.len = Mid - 1
          /\ Mid - 1 <= Len(objects)
      BY <2>1, <3>1
    <3> QED
      BY <2>2, <2>3, <3>1, <3>2, <3>3 DEF SearchedOutside, TypeOK
  <2>6. CASE LookAfter
    <3>1. window'.offset = Mid /\ window'.len = window.offset + window.len - Mid
      BY <2>6 DEF LookAfter, TypeOK
    <3>2. ASSUME NEW i \in 1..Len(objects), i <= Mid
          PROVE  objects[i].key < Sought
      <4>1. objects[i].key <= objects[Mid].key
        BY <2>1, <2>4, <3>2
      <4>2. Sought > objects[Mid].key
        BY <2>6 DEF LookAfter
      <4> QED
        BY <2>1, <2>2, <2>4, <4>1, <4>2
    <3>3. window'.offset + window'.len = window.offset + window.len
      BY <2>1, <3>1 DEF TypeOK
    <3> QED
      BY <2>2, <2>3, <3>1, <3>2, <3>3 DEF SearchedOutside, TypeOK
  <2> QED
    BY <1>8, <2>5, <2>6
<1>9. CASE UNCHANGED vars
  BY <1>9 DEF vars, SearchedOutside, Sought
<1> QED
  BY <1>3, <1>4, <1>5, <1>6, <1>7, <1>8, <1>9
     DEF Next, Caller, Step, InsertHere, DeleteHere

(***************************************************************************)
(* Whatever the function inserts, deletes, renames or copies, the array of *)
(* the store is sorted by the keys in it and indexOf looks where the key   *)
(* must be.                                                                *)
(***************************************************************************)
THEOREM StoreInvariant == Spec => []IInv
<1>1. Init => IInv
  BY InitIInv
<1>2. IInv /\ [Next]_vars => IInv'
  BY StepType, StepSorted, StepSearched DEF IInv
<1> QED
  BY <1>1, <1>2, PTL DEF Spec

(***************************************************************************)
(* The array is strictly sorted by its keys in every state, whatever the   *)
(* function renames.                                                       *)
(***************************************************************************)
THEOREM AlwaysSorted == Spec => []SortedByKey
<1>1. IInv => SortedByKey
  BY DEF IInv
<1> QED
  BY <1>1, StoreInvariant, PTL

(***************************************************************************)
(* While indexOf narrows its slice, the key it looks for is not outside of *)
(* it, whatever the function has renamed before the call: both answers of  *)
(* the search, an index and "not found", are right.                        *)
(***************************************************************************)
THEOREM AlwaysSearchedOutside == Spec => []SearchedOutside
<1>1. IInv => SearchedOutside
  BY DEF IInv
<1> QED
  BY <1>1, StoreInvariant, PTL
=============================================================================
