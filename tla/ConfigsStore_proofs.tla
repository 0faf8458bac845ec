------------------------- MODULE ConfigsStore_proofs -------------------------
(***************************************************************************)
(* The array of Configs seen as the set of its entries: what a call makes  *)
(* of that set, that Configs implements KeyedStore, and what insert,       *)
(* delete and deepCopy leave behind, whatever objects have been renamed.   *)
(***************************************************************************)
EXTENDS Configs_proofs

Entries(array) == {array[i] : i \in DOMAIN array}

\* In a sorted array the key of an entry identifies it.
LEMMA OneEntryPerKey ==
  ASSUME NEW array \in Seq(Entry), Sorted(array),
         NEW i \in 1..Len(array), NEW j \in 1..Len(array),
         array[i].key = array[j].key
  PROVE  i = j
<1>1. array[i].key \in Nat /\ array[j].key \in Nat
  BY EntryKeys
<1>2. ~(i < j)
  BY <1>1 DEF Sorted
<1>3. ~(j < i)
  BY <1>1 DEF Sorted
<1> QED
  BY <1>2, <1>3

\* The entries of the array after one went in.
LEMMA EntriesIn ==
  ASSUME NEW array \in Seq(Entry), NEW e \in Entry, NEW index \in 0..Len(array)
  PROVE  Entries(Splice(array, index, 0, <<e>>)) = Entries(array) \cup {e}
<1> DEFINE s == Splice(array, index, 0, <<e>>)
<1>1. /\ s \in Seq(Entry)
      /\ Len(s) = Len(array) + 1
      /\ \A i \in 1..Len(array) + 1 :
           /\ i <= index => s[i] = array[i]
           /\ i = index + 1 => s[i] = e
           /\ i > index + 1 => s[i] = array[i - 1]
  BY SpliceIn
<1> HIDE DEF s
<1>2. DOMAIN s = 1..Len(array) + 1 /\ DOMAIN array = 1..Len(array)
  BY <1>1
<1>3. ASSUME NEW i \in DOMAIN s
      PROVE  s[i] = e \/ \E j \in DOMAIN array : s[i] = array[j]
  <2>1. CASE i <= index
    BY <1>1, <1>2, <2>1
  <2>2. CASE i = index + 1
    BY <1>1, <1>2, <2>2
  <2>3. CASE i > index + 1
    <3>1. i - 1 \in DOMAIN array
      BY <1>2, <2>3
    <3> QED
      BY <1>1, <1>2, <2>3, <3>1
  <2> QED
    BY <1>2, <2>1, <2>2, <2>3
<1>4. ASSUME NEW j \in DOMAIN array
      PROVE  \E i \in DOMAIN s : s[i] = array[j]
  <2>1. CASE j <= index
    BY <1>1, <1>2, <2>1
  <2>2. CASE j > index
    <3>1. j + 1 \in DOMAIN s /\ j + 1 > index + 1 /\ j + 1 - 1 = j
      BY <1>2, <2>2
    <3> QED
      BY <1>1, <1>2, <3>1
  <2> QED
    BY <1>2, <2>1, <2>2
<1>5. \E i \in DOMAIN s : s[i] = e
  <2>1. index + 1 \in DOMAIN s
    BY <1>2
  <2> QED
    BY <1>1, <1>2, <2>1
<1>6. Entries(s) \subseteq Entries(array) \cup {e}
  BY <1>3 DEF Entries
<1>7. Entries(array) \cup {e} \subseteq Entries(s)
  BY <1>4, <1>5 DEF Entries
<1> QED
  BY <1>6, <1>7 DEF s

\* ... after one was replaced by another.
LEMMA EntriesOver ==
  ASSUME NEW array \in Seq(Entry), Sorted(array), NEW e \in Entry,
         NEW index \in 0..Len(array) - 1, array[index + 1].key = e.key
  PROVE  Entries(Splice(array, index, 1, <<e>>)) =
           {x \in Entries(array) : x.key # e.key} \cup {e}
<1> DEFINE s == [array EXCEPT ![index + 1] = e]
<1>1. Splice(array, index, 1, <<e>>) = s
  BY SpliceOver
<1>2. /\ DOMAIN s = DOMAIN array /\ index + 1 \in DOMAIN array
      /\ s[index + 1] = e
      /\ \A i \in DOMAIN array : i # index + 1 => s[i] = array[i]
  OBVIOUS
<1>3. \A i \in DOMAIN array : array[i].key = e.key <=> i = index + 1
  BY OneEntryPerKey
<1> HIDE DEF s
<1>4. Entries(s) \subseteq {x \in Entries(array) : x.key # e.key} \cup {e}
  BY <1>2, <1>3 DEF Entries
<1>5. {x \in Entries(array) : x.key # e.key} \cup {e} \subseteq Entries(s)
  BY <1>2, <1>3 DEF Entries
<1> QED
  BY <1>1, <1>4, <1>5

\* ... and after one was taken out.
LEMMA EntriesOut ==
  ASSUME NEW array \in Seq(Entry), Sorted(array),
         NEW index \in 0..Len(array) - 1
  PROVE  Entries(Splice(array, index, 1, <<>>)) =
           {x \in Entries(array) : x.key # array[index + 1].key}
<1> DEFINE s == Splice(array, index, 1, <<>>)
           k == array[index + 1].key
<1>1. /\ s \in Seq(Entry)
      /\ Len(s) = Len(array) - 1
      /\ \A i \in 1..Len(array) - 1 :
           /\ i <= index => s[i] = array[i]
           /\ i > index => s[i] = array[i + 1]
  BY SpliceOut
<1>2. \A i \in 1..Len(array) : array[i].key = k <=> i = index + 1
  BY OneEntryPerKey
<1> HIDE DEF s, k
<1>3. DOMAIN s = 1..Len(array) - 1 /\ DOMAIN array = 1..Len(array)
  BY <1>1
<1>4. ASSUME NEW i \in DOMAIN s
      PROVE  \E j \in DOMAIN array : s[i] = array[j] /\ array[j].key # k
  <2>1. CASE i <= index
    <3>1. i \in DOMAIN array /\ i # index + 1
      BY <1>3, <2>1
    <3> QED
      BY <1>1, <1>2, <1>3, <2>1, <3>1
  <2>2. CASE i > index
    <3>1. i + 1 \in DOMAIN array /\ i + 1 # index + 1
      BY <1>3, <2>2
    <3> QED
      BY <1>1, <1>2, <1>3, <2>2, <3>1
  <2> QED
    BY <1>3, <2>1, <2>2
<1>5. ASSUME NEW j \in DOMAIN array, array[j].key # k
      PROVE  \E i \in DOMAIN s : s[i] = array[j]
  <2>1. j # index + 1
    BY <1>2, <1>3, <1>5
  <2>2. CASE j <= index
    BY <1>1, <1>3, <2>2
  <2>3. CASE j > index
    <3>1. j - 1 \in DOMAIN s /\ j - 1 > index /\ j - 1 + 1 = j
      BY <1>3, <2>1, <2>3
    <3> QED
      BY <1>1, <1>3, <3>1
  <2> QED
    BY <1>3, <2>2, <2>3
<1>6. Entries(s) \subseteq {x \in Entries(array) : x.key # k}
  BY <1>4 DEF Entries
<1>7. {x \in Entries(array) : x.key # k} \subseteq Entries(s)
  BY <1>5 DEF Entries
<1> QED
  BY <1>6, <1>7 DEF s, k

-----------------------------------------------------------------------------
\* When the search ends on an empty slice the key is not in the array.
LEMMA MissingEntries ==
  ASSUME IInv, Missing, call.op # "none"
  PROVE  {x \in Entries(objects) : x.key # Sought} = Entries(objects)
<1> USE DEF IInv
<1>1. Sought \in Nat
  <2>1. call.args \in Seq(Objects) /\ call.args # <<>>
    BY DEF SearchedOutside, TypeOK
  <2>2. Head(call.args) \in Objects
    BY <2>1
  <2> QED
    BY <2>2, KeysAssumption DEF TypeOK, Sought
<1>2. ASSUME NEW i \in 1..Len(objects)
      PROVE  objects[i].key # Sought
  <2>1. objects[i].key \in Nat
    BY EntryKeys DEF TypeOK
  <2>2. \/ i <= window.offset /\ objects[i].key < Sought
        \/ i > window.offset /\ objects[i].key > Sought
    BY DEF SearchedOutside, TypeOK, Missing
  <2> QED
    BY <1>1, <2>1, <2>2
<1> QED
  BY <1>2 DEF Entries, TypeOK

\* What one argument of insert, and one of delete, does to the entries.
LEMMA InsertEntries ==
  ASSUME IInv, InsertHere
  PROVE  /\ Sought \in Keys /\ Head(call.args) \in Objects
         /\ Entries(objects') =
              {x \in Entries(objects) : x.key # Sought}
                \cup {[key |-> Sought, obj |-> Head(call.args)]}
<1> USE DEF IInv
<1> DEFINE e == [key |-> Sought, obj |-> Head(call.args)]
<1>1. Sought \in Keys /\ Head(call.args) \in Objects
  BY DEF InsertHere, SearchedOutside, TypeOK, Sought
<1>2. e \in Entry /\ e.key = Sought
  BY <1>1 DEF Entry
<1>3. CASE Found
  <2>1. objects' = Splice(objects, Mid - 1, 1, <<e>>)
    BY <1>3 DEF InsertHere, Index
  <2>2. Mid - 1 \in 0..Len(objects) - 1 /\ objects[Mid - 1 + 1].key = e.key
    <3>1. Mid \in 1..Len(objects)
      BY <1>3, MidInWindow DEF Found
    <3>2. Mid - 1 \in 0..Len(objects) - 1 /\ Mid - 1 + 1 = Mid
      BY <3>1, <1>1 DEF TypeOK
    <3>3. objects[Mid].key = e.key
      BY <1>2, <1>3 DEF Found
    <3> QED
      BY <3>2, <3>3
  <2>3. objects \in Seq(Entry) /\ Sorted(objects)
    BY DEF SortedByKey, TypeOK
  <2>4. Entries(Splice(objects, Mid - 1, 1, <<e>>)) =
          {x \in Entries(objects) : x.key # e.key} \cup {e}
    BY <1>2, <2>2, <2>3, EntriesOver
  <2> QED
    BY <1>1, <1>2, <2>1, <2>4
<1>4. CASE ~Found
  <2>1. objects' = Splice(objects, window.offset, 0, <<e>>)
    BY <1>4 DEF InsertHere, Index
  <2>2. window.offset \in 0..Len(objects)
    BY DEF TypeOK, SearchedOutside
  <2>3. {x \in Entries(objects) : x.key # Sought} = Entries(objects)
    BY <1>4, MissingEntries DEF InsertHere
  <2> QED
    BY <1>1, <1>2, <2>1, <2>2, <2>3, EntriesIn DEF TypeOK
<1> QED
  BY <1>3, <1>4

\* What one argument of delete does to the entries.
LEMMA DeleteEntries ==
  ASSUME IInv, DeleteHere
  PROVE  Entries(objects') = {x \in Entries(objects) : x.key # Sought}
<1> USE DEF IInv
<1>1. CASE Found
  <2>1. objects' = Splice(objects, Mid - 1, 1, <<>>)
    BY <1>1 DEF DeleteHere, Index
  <2>2. Mid - 1 \in 0..Len(objects) - 1 /\ objects[Mid - 1 + 1].key = Sought
    <3>1. Mid \in 1..Len(objects)
      BY <1>1, MidInWindow DEF Found
    <3>2. Mid - 1 \in 0..Len(objects) - 1 /\ Mid - 1 + 1 = Mid
      BY <3>1 DEF TypeOK
    <3> QED
      BY <1>1, <3>2 DEF Found
  <2>3. objects \in Seq(Entry) /\ Sorted(objects)
    BY DEF SortedByKey, TypeOK
  <2> QED
    BY <2>1, <2>2, <2>3, EntriesOut
<1>2. CASE ~Found
  BY <1>2, MissingEntries DEF DeleteHere
<1> QED
  BY <1>1, <1>2

-----------------------------------------------------------------------------
(* What the single calls promise. *)

\* The objects of an array are those of its entries.
LEMMA StoredEntries ==
  \A array : StoredObjects(array) = {x.obj : x \in Entries(array)}
BY DEF StoredObjects, Entries

\* Only the two steps that have found out where an argument belongs end its turn.
LEMMA ArgumentSteps ==
  ASSUME [Next]_vars, call # NoCall, call' # call
  PROVE  InsertHere \/ DeleteHere
BY DEF Next, Caller, Step, Rename, Insert, Delete, Begin, DeleteAll, DeepCopy,
       LookBefore, LookAfter, vars

(***************************************************************************)
(* Each argument of insert is in the store when its turn is over, and no   *)
(* other object of its key is that has not been renamed since it was       *)
(* inserted.                                                               *)
(***************************************************************************)
THEOREM InsertAlwaysReplaces == Spec => InsertReplaces
<1> DEFINE o == Head(call.args)
           Replaced == /\ o \in StoredObjects(objects')
                       /\ \A i \in DOMAIN objects' :
                            key[objects'[i].obj] = Sought =>
                              objects'[i].obj = o \/ Renamed(objects'[i])
<1>1. ASSUME IInv, [Next]_vars, call.op = "insert", call' # call
      PROVE  Replaced
  <2>1. InsertHere
    BY <1>1, ArgumentSteps DEF NoCall, DeleteHere
  <2>2. Entries(objects') = {x \in Entries(objects) : x.key # Sought}
                              \cup {[key |-> Sought, obj |-> o]}
    BY <1>1, <2>1, InsertEntries
  <2>3. \A x \in Entries(objects') : x.obj = o \/ x.key # Sought
    BY <2>2
  <2>4. \A x \in Entries(objects') :
          key[x.obj] = Sought => x.obj = o \/ Renamed(x)
    BY <2>3 DEF Renamed
  <2>5. o \in StoredObjects(objects')
    <3>1. [key |-> Sought, obj |-> o] \in Entries(objects')
      BY <2>2
    <3> HIDE DEF o
    <3> QED
      BY <3>1, StoredEntries
  <2> QED
    BY <2>4, <2>5 DEF Entries
<1>2. IInv /\ [Next]_vars => [call.op = "insert" /\ call' # call => Replaced]_vars
  BY <1>1
<1> QED
  BY <1>2, StoreInvariant, PTL DEF Spec, InsertReplaces

(***************************************************************************)
(* No object of the key of an argument of delete is in the store when its  *)
(* turn is over, unless it has been renamed since it was inserted.         *)
(***************************************************************************)
THEOREM DeleteAlwaysRemoves == Spec => DeleteRemovesUnrenamed
<1> DEFINE Removed == \A i \in DOMAIN objects' :
                        key[objects'[i].obj] = Sought => Renamed(objects'[i])
<1>1. ASSUME IInv, [Next]_vars, call.op = "delete", call' # call
      PROVE  Removed
  <2>1. DeleteHere
    BY <1>1, ArgumentSteps DEF NoCall, InsertHere
  <2>2. Entries(objects') = {x \in Entries(objects) : x.key # Sought}
    BY <1>1, <2>1, DeleteEntries
  <2>3. \A x \in Entries(objects') : key[x.obj] = Sought => Renamed(x)
    BY <2>2 DEF Renamed
  <2> QED
    BY <2>3 DEF Entries
<1>2. IInv /\ [Next]_vars => [call.op = "delete" /\ call' # call => Removed]_vars
  BY <1>1
<1> QED
  BY <1>2, StoreInvariant, PTL DEF Spec, DeleteRemovesUnrenamed

Arguments == {call.args[i] : i \in DOMAIN call.args}

\* What is in the copy has its present key and is of the original, as is all that is
\* still to come, and every object of the original comes or has its key taken.
CopyUnderWay ==
  call.op = "deepCopy" =>
    /\ \A x \in Entries(objects) :
         x.key = key[x.obj] /\ x.obj \in StoredObjects(source)
    /\ Arguments \subseteq StoredObjects(source)
    /\ \A o \in StoredObjects(source) :
         o \in Arguments \/ \E x \in Entries(objects) : x.key = key[o]

\* When an argument of deepCopy is inserted, its key is in the copy.
LEMMA CopiedEntries ==
  ASSUME IInv, CopyUnderWay, InsertHere, call.op = "deepCopy"
  PROVE  /\ \A x \in Entries(objects') :
              x.key = key[x.obj] /\ x.obj \in StoredObjects(source)
         /\ \E x \in Entries(objects') : x.key = key[Head(call.args)]
         /\ \A y \in Entries(objects) : \E x \in Entries(objects') : x.key = y.key
<1> DEFINE o == Head(call.args)
           e == [key |-> Sought, obj |-> o]
<1>1. call.args \in Seq(Objects) /\ call.args # <<>>
  BY DEF IInv, TypeOK, SearchedOutside, InsertHere
<1>2. o \in StoredObjects(source)
  <2>1. 1 \in DOMAIN call.args /\ o = call.args[1]
    BY <1>1
  <2> QED
    BY <2>1 DEF CopyUnderWay, Arguments
<1>3. Entries(objects') = {x \in Entries(objects) : x.key # Sought} \cup {e}
  BY InsertEntries
<1>4. e.key = key[o] /\ e.obj = o /\ e.key = Sought
  BY DEF Sought
<1> HIDE DEF o, e
<1>5. \A x \in Entries(objects') :
        x.key = key[x.obj] /\ x.obj \in StoredObjects(source)
  BY <1>2, <1>3, <1>4 DEF CopyUnderWay
<1>6. \E x \in Entries(objects') : x.key = key[o]
  BY <1>3, <1>4
<1>7. \A y \in Entries(objects) : \E x \in Entries(objects') : x.key = y.key
  BY <1>3, <1>4
<1> QED
  BY <1>5, <1>6, <1>7 DEF o

\* The arguments of a call: the one whose turn it is, and the rest.
LEMMA ArgumentAndRest ==
  ASSUME NEW args \in Seq(Objects), args # <<>>
  PROVE  /\ Len(args) = 1 => {args[i] : i \in DOMAIN args} = {Head(args)}
         /\ {args[i] : i \in DOMAIN args} =
              {Head(args)} \cup {Tail(args)[i] : i \in DOMAIN Tail(args)}
<1>1. /\ Len(args) \in Nat \ {0} /\ DOMAIN args = 1..Len(args)
      /\ Head(args) = args[1]
  OBVIOUS
<1>2. /\ DOMAIN Tail(args) = 1..Len(args) - 1
      /\ \A i \in 1..Len(args) - 1 : Tail(args)[i] = args[i + 1]
  OBVIOUS
<1> DEFINE tail == Tail(args)
           head == Head(args)
<1> HIDE DEF tail, head
<1>3. \A i \in 1..Len(args) : i = 1 \/ (i - 1 \in 1..Len(args) - 1 /\ i = (i - 1) + 1)
  BY <1>1
<1>4. \A i \in 1..Len(args) - 1 : i + 1 \in 1..Len(args)
  BY <1>1
<1>5. \A i \in 1..Len(args) : args[i] = head \/ \E j \in DOMAIN tail : args[i] = tail[j]
  BY <1>1, <1>2, <1>3 DEF tail, head
<1>6. \A j \in DOMAIN tail : \E i \in 1..Len(args) : tail[j] = args[i]
  BY <1>2, <1>4 DEF tail
<1>7. head = args[1] /\ 1 \in DOMAIN args
  BY <1>1 DEF head
<1>8. {args[i] : i \in DOMAIN args} = {head} \cup {tail[i] : i \in DOMAIN tail}
  BY <1>1, <1>5, <1>6, <1>7
<1>9. Len(args) = 1 => {args[i] : i \in DOMAIN args} = {head}
  BY <1>1, <1>7
<1> QED
  BY <1>8, <1>9 DEF tail, head

\* Every step keeps CopyUnderWay.
LEMMA CopyStep ==
  ASSUME IInv, CopyUnderWay, [Next]_vars
  PROVE  CopyUnderWay'
<1>1. CASE UNCHANGED <<key, objects, call, source>>
  <2>1. /\ Entries(objects)' = Entries(objects) /\ Arguments' = Arguments
        /\ StoredObjects(source)' = StoredObjects(source)
    BY <1>1 DEF StoredObjects, Entries, Arguments
  <2> QED
    BY <1>1, <2>1 DEF CopyUnderWay
<1>2. CASE call'.op # "deepCopy"
  BY <1>2 DEF CopyUnderWay
<1>3. CASE DeepCopy
  <2>1. /\ objects' = <<>> /\ source' = objects
        /\ call'.args = [i \in DOMAIN objects |-> objects[i].obj]
    BY <1>3 DEF DeepCopy, Begin
  <2>2. Entries(objects)' = {} /\ StoredObjects(source)' = StoredObjects(objects)
    BY <2>1 DEF StoredObjects, Entries
  <2>3. Arguments' = StoredObjects(objects)
    BY <2>1 DEF StoredObjects, Arguments
  <2> QED
    BY <2>2, <2>3 DEF CopyUnderWay
<1>4. CASE InsertHere /\ call'.op = "deepCopy"
  <2>1. Len(call.args) # 1
    BY <1>4 DEF InsertHere, NextArgument, NoCall
  <2>2. /\ call' = [call EXCEPT !.args = Tail(call.args)]
        /\ key' = key /\ source' = source
    BY <1>4, <2>1 DEF InsertHere, NextArgument
  <2>3. call.op = "deepCopy" /\ call'.args = Tail(call.args)
    BY <1>4, <2>2 DEF IInv, TypeOK
  <2>4. call.args \in Seq(Objects) /\ call.args # <<>>
    BY <2>3 DEF IInv, TypeOK, SearchedOutside
  <2>5. Arguments = {Head(call.args)} \cup Arguments'
    <3> DEFINE rest == call'.args
               args == call.args
    <3> HIDE DEF rest, args
    <3>1. rest = Tail(args) /\ args \in Seq(Objects) /\ args # <<>>
      BY <2>3, <2>4 DEF rest, args
    <3>2. {args[i] : i \in DOMAIN args} =
            {Head(args)} \cup {rest[i] : i \in DOMAIN rest}
      BY <3>1, ArgumentAndRest
    <3> QED
      BY <3>2 DEF rest, args, Arguments
  <2>6. /\ Entries(objects)' = Entries(objects')
        /\ StoredObjects(source)' = StoredObjects(source)
    BY <2>2 DEF StoredObjects, Entries
  <2>7. /\ \A x \in Entries(objects)' :
             x.key = key'[x.obj] /\ x.obj \in StoredObjects(source)'
        /\ \E x \in Entries(objects)' : x.key = key'[Head(call.args)]
        /\ \A y \in Entries(objects) : \E x \in Entries(objects)' : x.key = y.key
    BY <1>4, <2>2, <2>3, <2>6, CopiedEntries
  <2>8. Arguments' \subseteq StoredObjects(source)'
    BY <2>3, <2>5, <2>6 DEF CopyUnderWay
  <2>9. ASSUME NEW o \in StoredObjects(source)'
        PROVE  o \in Arguments' \/ \E x \in Entries(objects)' : x.key = key'[o]
    <3>1. o \in Arguments \/ \E x \in Entries(objects) : x.key = key[o]
      BY <2>3, <2>6, <2>9 DEF CopyUnderWay
    <3> QED
      BY <3>1, <2>2, <2>5, <2>7
  <2> QED
    BY <2>7, <2>8, <2>9 DEF CopyUnderWay
<1>5. CASE DeleteHere
  <2>1. call'.op = "none" \/ call'.op = call.op
    BY <1>5 DEF DeleteHere, NextArgument, NoCall, IInv, TypeOK
  <2>2. call'.op # "deepCopy"
    BY <1>5, <2>1 DEF DeleteHere
  <2> QED
    BY <1>2, <2>2
<1>6. ASSUME NEW o \in Objects, NEW k \in Keys, Rename(o, k)
      PROVE  CopyUnderWay'
  BY <1>2, <1>6 DEF Rename, NoCall
<1>7. ASSUME NEW args \in Args, Insert(args) \/ Delete(args)
      PROVE  CopyUnderWay'
  BY <1>2, <1>7 DEF Insert, Delete, Begin
<1>8. CASE DeleteAll
  BY <1>2, <1>8 DEF DeleteAll, NoCall
<1> QED
  BY <1>1, <1>2, <1>3, <1>4, <1>5, <1>6, <1>7, <1>8
     DEF Next, Caller, Step, LookBefore, LookAfter, vars

(***************************************************************************)
(* When deepCopy returns, the copy holds objects of the original only, one *)
(* of each kubernetesKey they have now, and no two of the same, whatever   *)
(* the function has renamed.                                               *)
(***************************************************************************)
THEOREM DeepCopyAlwaysKeepsKeys == Spec => DeepCopyKeepsKeys
<1> DEFINE Kept ==
             /\ StoredObjects(objects') \subseteq StoredObjects(source)
             /\ \A o \in StoredObjects(source) :
                  \E p \in StoredObjects(objects') : key[p] = key[o]
             /\ \A o, p \in StoredObjects(objects') : key[o] = key[p] => o = p
<1>1. Init => CopyUnderWay
  BY DEF Init, CopyUnderWay, NoCall
<1>2. IInv /\ CopyUnderWay /\ [Next]_vars => CopyUnderWay'
  BY CopyStep
<1>3. ASSUME IInv, IInv', CopyUnderWay, [Next]_vars,
             call.op = "deepCopy", call'.op = "none"
      PROVE  Kept
  <2>1. InsertHere
    BY <1>3, ArgumentSteps DEF NoCall, DeleteHere
  <2>2. call.args \in Seq(Objects) /\ call.args # <<>>
    BY <1>3 DEF IInv, TypeOK, SearchedOutside
  <2>3. Len(call.args) = 1
    BY <1>3, <2>1 DEF InsertHere, NextArgument, IInv, TypeOK
  <2>4. Arguments = {Head(call.args)}
    BY <2>2, <2>3, ArgumentAndRest DEF Arguments
  <2>5. /\ \A x \in Entries(objects') :
             x.key = key[x.obj] /\ x.obj \in StoredObjects(source)
        /\ \E x \in Entries(objects') : x.key = key[Head(call.args)]
        /\ \A y \in Entries(objects) : \E x \in Entries(objects') : x.key = y.key
    BY <1>3, <2>1, CopiedEntries
  <2>6. StoredObjects(objects') = {x.obj : x \in Entries(objects')}
    BY StoredEntries
  <2>7. ASSUME NEW o \in StoredObjects(source)
        PROVE  \E p \in StoredObjects(objects') : key[p] = key[o]
    <3>1. o = Head(call.args) \/ \E x \in Entries(objects) : x.key = key[o]
      BY <1>3, <2>4, <2>7 DEF CopyUnderWay
    <3>2. \E x \in Entries(objects') : x.key = key[o]
      BY <2>5, <3>1
    <3> QED
      BY <2>5, <2>6, <3>2
  <2>8. ASSUME NEW x \in Entries(objects'), NEW y \in Entries(objects'),
               x.key = y.key
        PROVE  x.obj = y.obj
    <3>1. objects' \in Seq(Entry) /\ Sorted(objects')
      BY <1>3 DEF IInv, TypeOK, SortedByKey, Entry, Sorted
    <3>2. PICK i \in 1..Len(objects') : x = objects'[i]
      BY <3>1 DEF Entries
    <3>3. PICK j \in 1..Len(objects') : y = objects'[j]
      BY <3>1 DEF Entries
    <3> QED
      BY <2>8, <3>1, <3>2, <3>3, OneEntryPerKey
  <2>9. \A o, p \in StoredObjects(objects') : key[o] = key[p] => o = p
    BY <2>5, <2>6, <2>8
  <2> QED
    BY <2>5, <2>6, <2>7, <2>9
<1>4. IInv /\ IInv' /\ CopyUnderWay /\ [Next]_vars =>
        [call.op = "deepCopy" /\ call'.op = "none" => Kept]_vars
  BY <1>3
<1> QED
  BY <1>1, <1>2, <1>4, StoreInvariant, PTL DEF Spec, DeepCopyKeepsKeys

-----------------------------------------------------------------------------
(* The refinement. *)

\* The abstract store holds exactly the entries of a sorted array.
LEMMA StoreOfEntries ==
  ASSUME NEW array \in Seq(Entry), Sorted(array)
  PROVE  /\ DOMAIN StoreOf(array) = {x.key : x \in Entries(array)}
         /\ \A x \in Entries(array) : StoreOf(array)[x.key] = x.obj
<1>1. DOMAIN StoreOf(array) = {x.key : x \in Entries(array)}
  BY DEF StoreOf, StoredKeys, Entries
<1>2. ASSUME NEW i \in DOMAIN array
      PROVE  StoreOf(array)[array[i].key] = array[i].obj
  <2> DEFINE c == CHOOSE j \in DOMAIN array : array[j].key = array[i].key
  <2>1. c \in DOMAIN array /\ array[c].key = array[i].key
    OBVIOUS
  <2>2. c = i
    <3> HIDE DEF c
    <3>1. c \in 1..Len(array) /\ i \in 1..Len(array)
      BY <2>1
    <3> QED
      BY <2>1, <3>1, OneEntryPerKey
  <2>3. StoreOf(array)[array[i].key] = array[c].obj
    BY DEF StoreOf, StoredKeys
  <2> QED
    BY <2>2, <2>3
<1> QED
  BY <1>1, <1>2 DEF Entries

\* The empty array represents the empty store.
LEMMA StoreOfEmpty == StoreOf(<<>>) = Store!Empty
  BY DEF StoreOf, StoredKeys, Store!Empty

\* The initial states of Configs are initial states of the map.
LEMMA RefineInit == Init => Store!Init
<1> SUFFICES ASSUME Init
             PROVE  Store!Init
  OBVIOUS
<1>1. key \in [Objects -> Keys] /\ call = Store!NoCall /\ objects = <<>>
  BY DEF Init, NoCall, Store!NoCall
<1>2. StoreOf(objects) = Store!Empty
  BY <1>1, StoreOfEmpty
<1> QED
  BY <1>1, <1>2 DEF Store!Init

\* Both modules take the next argument of a call alike.
LEMMA RefineArgument ==
  ASSUME IInv, NextArgument, call.op # "none"
  PROVE  /\ Store!NextArgument
         /\ Sought = key[Store!Argument] /\ Head(call.args) = Store!Argument
<1>1. call.args # <<>>
  BY DEF IInv, SearchedOutside
<1>2. Sought = key[Store!Argument] /\ Head(call.args) = Store!Argument
  BY DEF Sought, Store!Argument
<1> QED
  BY <1>1, <1>2 DEF NextArgument, NoCall, Store!NextArgument, Store!NoCall

\* A step that handles an argument of insert puts it into the map.
LEMMA RefineInsert ==
  ASSUME IInv, IInv', InsertHere
  PROVE  Store!Put
<1> DEFINE old == StoreOf(objects)
           new == StoreOf(objects')
           k == Sought
           o == Head(call.args)
           put == [j \in DOMAIN old \cup {k} |-> IF j = k THEN o ELSE old[j]]
<1>0. /\ objects \in Seq(Entry) /\ Sorted(objects)
      /\ objects' \in Seq(Entry) /\ Sorted(objects')
  BY DEF IInv, TypeOK, SortedByKey
<1>1. /\ DOMAIN old = {x.key : x \in Entries(objects)}
      /\ \A x \in Entries(objects) : old[x.key] = x.obj
  BY <1>0, StoreOfEntries
<1>2. /\ DOMAIN new = {x.key : x \in Entries(objects')}
      /\ \A x \in Entries(objects') : new[x.key] = x.obj
  BY <1>0, StoreOfEntries
<1>3. new = [j \in DOMAIN new |-> new[j]]
  BY DEF StoreOf
<1>4. /\ StoreOf(objects)' = new
      /\ call.op \in {"insert", "deepCopy"}
      /\ Store!NextArgument /\ k = key[Store!Argument] /\ o = Store!Argument
  BY RefineArgument DEF InsertHere, StoreOf, StoredKeys
<1>5. Entries(objects') = {x \in Entries(objects) : x.key # k}
                            \cup {[key |-> k, obj |-> o]}
  BY InsertEntries
<1> HIDE DEF k, o, old, new
<1>6. DOMAIN new = DOMAIN old \cup {k}
  <2> DEFINE e == [key |-> k, obj |-> o]
  <2>1. e.key = k /\ e \in Entries(objects')
    BY <1>5
  <2>2. Entries(objects') = {x \in Entries(objects) : x.key # k} \cup {e}
    BY <1>5
  <2> HIDE DEF e
  <2>3. ASSUME NEW j \in DOMAIN new
        PROVE  j \in DOMAIN old \cup {k}
    BY <1>1, <1>2, <2>1, <2>2
  <2>4. ASSUME NEW j \in DOMAIN old \cup {k}
        PROVE  j \in DOMAIN new
    BY <1>1, <1>2, <2>1, <2>2
  <2> QED
    BY <2>3, <2>4
<1>7. ASSUME NEW j \in DOMAIN new
      PROVE  new[j] = put[j]
  <2>1. CASE j = k
    <3>1. [key |-> k, obj |-> o] \in Entries(objects')
      BY <1>5
    <3>2. new[k] = o
      BY <1>2, <3>1
    <3> QED
      BY <1>6, <2>1, <3>2
  <2>2. CASE j # k
    <3>1. PICK x \in Entries(objects') : x.key = j
      BY <1>2
    <3>2. x \in Entries(objects)
      BY <1>5, <2>2, <3>1
    <3>3. new[j] = x.obj /\ old[j] = x.obj
      BY <1>1, <1>2, <3>1, <3>2
    <3> QED
      BY <1>6, <2>2, <3>3
  <2> QED
    BY <2>1, <2>2
<1>8. new = put
  BY <1>3, <1>6, <1>7
<1> QED
  BY <1>4, <1>8 DEF Store!Put, old

\* A step that handles an argument of delete removes its key from the map.
LEMMA RefineDelete ==
  ASSUME IInv, IInv', DeleteHere
  PROVE  Store!Remove
<1> DEFINE old == StoreOf(objects)
           new == StoreOf(objects')
           k == Sought
           rest == [j \in DOMAIN old \ {k} |-> old[j]]
<1>0. /\ objects \in Seq(Entry) /\ Sorted(objects)
      /\ objects' \in Seq(Entry) /\ Sorted(objects')
  BY DEF IInv, TypeOK, SortedByKey
<1>1. /\ DOMAIN old = {x.key : x \in Entries(objects)}
      /\ \A x \in Entries(objects) : old[x.key] = x.obj
  BY <1>0, StoreOfEntries
<1>2. /\ DOMAIN new = {x.key : x \in Entries(objects')}
      /\ \A x \in Entries(objects') : new[x.key] = x.obj
  BY <1>0, StoreOfEntries
<1>3. new = [j \in DOMAIN new |-> new[j]]
  BY DEF StoreOf
<1>4. /\ StoreOf(objects)' = new
      /\ call.op = "delete" /\ Store!NextArgument /\ k = key[Store!Argument]
  BY RefineArgument DEF DeleteHere, StoreOf, StoredKeys
<1>5. Entries(objects') = {x \in Entries(objects) : x.key # k}
  BY DeleteEntries
<1> HIDE DEF k, old, new
<1>6. DOMAIN new = DOMAIN old \ {k}
  BY <1>1, <1>2, <1>5
<1>7. ASSUME NEW j \in DOMAIN new
      PROVE  new[j] = rest[j]
  <2>1. PICK x \in Entries(objects') : x.key = j
    BY <1>2
  <2>2. x \in Entries(objects)
    BY <1>5
  <2>3. new[j] = x.obj /\ old[j] = x.obj
    BY <1>1, <1>2, <2>1, <2>2
  <2> QED
    BY <1>6, <2>3
<1>8. new = rest
  BY <1>3, <1>6, <1>7
<1> QED
  BY <1>4, <1>8 DEF Store!Remove, old

\* deepCopy hands the objects of the map to the constructor of the copy.
LEMMA RefineCopy ==
  ASSUME IInv, DeepCopy
  PROVE  Store!Copy
<1> DEFINE old == StoreOf(objects)
<1>0. objects \in Seq(Entry) /\ Sorted(objects)
  BY DEF IInv, TypeOK, SortedByKey
<1>1. /\ DOMAIN old = {x.key : x \in Entries(objects)}
      /\ \A x \in Entries(objects) : old[x.key] = x.obj
  BY <1>0, StoreOfEntries
<1>2. {old[k] : k \in DOMAIN old} = {x.obj : x \in Entries(objects)}
  <2> HIDE DEF old
  <2> QED
    BY <1>1
<1>3. {call'.args[i] : i \in DOMAIN call'.args} = {x.obj : x \in Entries(objects)}
  <2>1. call'.args = [i \in DOMAIN objects |-> objects[i].obj]
    BY DEF DeepCopy, Begin
  <2> QED
    BY <2>1 DEF Entries
<1>4. StoreOf(objects)' = Store!Empty
  <2>1. StoreOf(objects)' = StoreOf(objects')
    BY DEF StoreOf, StoredKeys
  <2> QED
    BY <2>1, StoreOfEmpty DEF DeepCopy
<1>5. call = Store!NoCall /\ call'.op = "deepCopy" /\ key' = key
  BY DEF DeepCopy, Begin, NoCall, Store!NoCall
<1> QED
  BY <1>2, <1>3, <1>4, <1>5 DEF Store!Copy, Store!Stored

\* Every step of Configs is a step of the map or changes nothing in it.
LEMMA RefineStep ==
  ASSUME IInv, IInv', [Next]_vars
  PROVE  [Store!Next]_(Store!vars)
<1>1. ASSUME objects' = objects
      PROVE  StoreOf(objects)' = StoreOf(objects)
  BY <1>1 DEF StoreOf, StoredKeys
<1>2. NoCall = Store!NoCall
  BY DEF NoCall, Store!NoCall
<1>3. ASSUME NEW o \in Objects, NEW k \in Keys, Rename(o, k)
      PROVE  Store!Rename
  <2>1. key' \in [Objects -> Keys]
    BY DEF IInv, TypeOK
  <2> QED
    BY <1>1, <1>2, <1>3, <2>1 DEF Rename, Store!Rename
<1>4. ASSUME NEW args \in Args, Insert(args) \/ Delete(args)
      PROVE  Store!Request
  <2>1. args \in Seq(Objects) /\ args # <<>>
    BY MaxArgsAssumption DEF Args
  <2>2. /\ call' \in [op : {"insert", "delete"}, args : Seq(Objects)]
        /\ call'.args # <<>>
    BY <1>4, <2>1 DEF Insert, Delete, Begin
  <2>3. call = NoCall /\ key' = key /\ objects' = objects
    BY <1>4 DEF Insert, Delete, Begin
  <2> QED
    BY <1>1, <1>2, <2>2, <2>3 DEF Store!Request
<1>5. ASSUME DeleteAll
      PROVE  Store!Clear
  <2>1. StoreOf(objects)' = StoreOf(objects')
    BY DEF StoreOf, StoredKeys
  <2> QED
    BY <1>2, <1>5, <2>1, StoreOfEmpty DEF DeleteAll, Store!Clear
<1>6. ASSUME LookBefore \/ LookAfter \/ UNCHANGED vars
      PROVE  UNCHANGED Store!vars
  <2>1. key' = key /\ call' = call /\ objects' = objects
    BY <1>6 DEF LookBefore, LookAfter, vars
  <2> QED
    BY <1>1, <2>1 DEF Store!vars
<1> QED
  BY <1>3, <1>4, <1>5, <1>6, RefineCopy, RefineInsert, RefineDelete
     DEF Next, Caller, Step, Store!Next

(***************************************************************************)
(* Whatever the function does - renaming stored objects included - the     *)
(* sorted array and its binary search implement the map from keys to       *)
(* objects that KeyedStore specifies, call by call.                        *)
(***************************************************************************)
THEOREM ImplementsKeyedStore == Spec => StoreSpec
<1>1. Init => Store!Init
  BY RefineInit
<1>2. IInv /\ IInv' /\ [Next]_vars => [Store!Next]_(Store!vars)
  BY RefineStep
<1> QED
  BY <1>1, <1>2, StoreInvariant, PTL DEF Spec, StoreSpec, Store!Spec
=============================================================================
