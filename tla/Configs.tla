------------------------------- MODULE Configs -------------------------------
(***************************************************************************)
(* The in-memory document store of the TypeScript SDK (class Configs of    *)
(* ts/kpt-functions/src/types.ts): an array of (key, object) pairs that    *)
(* insert, delete and deepCopy keep sorted, found by binary search.        *)
(*                                                                         *)
(* An object is an identity whose kubernetesKey - the tuple (apiVersion,   *)
(* kind, namespace, name) - the kpt function may change at any time,       *)
(* because getAll() hands out the objects by reference.  The key in the    *)
(* array is the one the object had when it was inserted.  Keys are natural *)
(* numbers, ordered as the strings they stand for are.                     *)
(*                                                                         *)
(* A call of the store runs to completion before other code of the         *)
(* function does.  It is modelled at the grain of one recursive call of    *)
(* indexOf, so that the search itself is checked and proved.               *)
(***************************************************************************)
EXTENDS Integers, Sequences

CONSTANTS Objects,       \* the objects the function can hold
          Keys,          \* the kubernetesKeys
          MaxArgs        \* bound: the arguments of one call of insert or delete

ASSUME KeysAssumption == Keys \subseteq Nat
ASSUME MaxArgsAssumption == MaxArgs \in Nat

VARIABLES key,      \* kubernetesKey(o) as the fields of o are now
          objects,  \* Configs.objects, the array of pairs
          call,     \* the call in progress and the arguments it has left
          window,   \* the part of objects indexOf has left to search
          source    \* the array deepCopy was called on, while it runs

vars == <<key, objects, call, window, source>>

Entry == [key : Keys, obj : Objects]
Ops == {"none", "insert", "delete", "deepCopy"}
NoCall == [op |-> "none", args |-> <<>>]

Args == UNION {[1..n -> Objects] : n \in 1..MaxArgs}

StoredObjects(array) == {array[i].obj : i \in DOMAIN array}
StoredKeys(array) == {array[i].key : i \in DOMAIN array}

\* Array.prototype.splice: at the 0-based index, replace count elements by new
Splice(array, index, count, new) ==
  SubSeq(array, 1, index) \o new \o SubSeq(array, index + count + 1, Len(array))

Whole(array) == [offset |-> 0, len |-> Len(array)]

-----------------------------------------------------------------------------
Init ==
  /\ key \in [Objects -> Keys]
  /\ objects = <<>>
  /\ call = NoCall
  /\ window = Whole(<<>>)
  /\ source = <<>>

\* The function assigns to a field of an object that is part of its key, whether
\* the object is stored or not.
Rename(o, k) ==
  /\ call = NoCall
  /\ key' = [key EXCEPT ![o] = k]
  /\ UNCHANGED <<objects, call, window, source>>

Begin(op, args) ==
  /\ call = NoCall
  /\ call' = [op |-> op, args |-> args]

Insert(args) ==
  /\ Begin("insert", args)
  /\ window' = Whole(objects)
  /\ UNCHANGED <<key, objects, source>>

Delete(args) ==
  /\ Begin("delete", args)
  /\ window' = Whole(objects)
  /\ UNCHANGED <<key, objects, source>>

DeleteAll ==
  /\ call = NoCall
  /\ objects' = <<>>
  /\ window' = Whole(<<>>)
  /\ UNCHANGED <<key, call, source>>

(***************************************************************************)
(* deepCopy constructs a new Configs from copies of the objects, and the   *)
(* constructor inserts them one by one.  From here on the model follows    *)
(* the copy; what it was made from stays in source.                        *)
(***************************************************************************)
DeepCopy ==
  /\ objects # <<>>
  /\ Begin("deepCopy", [i \in DOMAIN objects |-> objects[i].obj])
  /\ source' = objects
  /\ objects' = <<>>
  /\ window' = Whole(<<>>)
  /\ UNCHANGED key

-----------------------------------------------------------------------------
(* indexOf: array[mid], as an index into objects, and the three outcomes.  *)
Mid == window.offset + (window.len \div 2) + 1
Sought == key[Head(call.args)]

LookBefore ==
  /\ call.op # "none" /\ window.len > 0
  /\ Sought < objects[Mid].key
  /\ window' = [window EXCEPT !.len = window.len \div 2]
  /\ UNCHANGED <<key, objects, call, source>>

\* Mutant: the slice after mid starts at mid.
LookAfterFromMid ==
  /\ call.op # "none" /\ window.len > 0
  /\ Sought > objects[Mid].key
  /\ window' = [offset |-> Mid - 1, len |-> window.offset + window.len - Mid + 1]
  /\ UNCHANGED <<key, objects, call, source>>

\* Mutant: the slice after mid leaves out the element that follows mid.
LookAfterTooFar ==
  /\ call.op # "none" /\ window.len > 0
  /\ Sought > objects[Mid].key
  /\ window' = IF window.offset + window.len > Mid
               THEN [offset |-> Mid + 1, len |-> window.offset + window.len - Mid - 1]
               ELSE [offset |-> Mid, len |-> 0]
  /\ UNCHANGED <<key, objects, call, source>>

LookAfter ==
  /\ call.op # "none" /\ window.len > 0
  /\ Sought > objects[Mid].key
  /\ window' = [offset |-> Mid, len |-> window.offset + window.len - Mid]
  /\ UNCHANGED <<key, objects, call, source>>

\* Mutant: a key that is greater than the one at mid counts as found.
FoundOrGreater == window.len > 0 /\ Sought >= objects[Mid].key

Found == window.len > 0 /\ Sought = objects[Mid].key
Missing == window.len = 0
Index == IF Found THEN Mid - 1 ELSE window.offset

NextArgument ==
  /\ call' = IF Len(call.args) = 1 THEN NoCall
                                   ELSE [call EXCEPT !.args = Tail(call.args)]
  /\ window' = Whole(objects')
  /\ source' = IF Len(call.args) = 1 THEN <<>> ELSE source
  /\ UNCHANGED key

\* Mutant: insert adds its object whether the key was found or not.
InsertAdds ==
  /\ call.op \in {"insert", "deepCopy"}
  /\ Found \/ Missing
  /\ objects' = Splice(objects, Index, 0,
                       <<[key |-> Sought, obj |-> Head(call.args)]>>)
  /\ NextArgument

\* Mutant: insert leaves an entry alone that has the key already.
InsertIfMissing ==
  /\ call.op \in {"insert", "deepCopy"}
  /\ Found \/ Missing
  /\ objects' = IF Found THEN objects
                ELSE Splice(objects, Index, 0,
                            <<[key |-> Sought, obj |-> Head(call.args)]>>)
  /\ NextArgument

\* Mutant: insert replaces the entry at the index whether it was found or not.
InsertOverwrites ==
  /\ call.op \in {"insert", "deepCopy"}
  /\ Found \/ Missing
  /\ objects' = Splice(objects, Index, 1,
                       <<[key |-> Sought, obj |-> Head(call.args)]>>)
  /\ NextArgument

InsertHere ==
  /\ call.op \in {"insert", "deepCopy"}
  /\ Found \/ Missing
  /\ objects' = Splice(objects, Index, IF Found THEN 1 ELSE 0,
                       <<[key |-> Sought, obj |-> Head(call.args)]>>)
  /\ NextArgument

\* Mutant: delete takes index 0 for "not found".
DeleteNotFirst ==
  /\ call.op = "delete"
  /\ Found \/ Missing
  /\ objects' = IF Found /\ Index > 0 THEN Splice(objects, Index, 1, <<>>)
                                     ELSE objects
  /\ NextArgument

DeleteHere ==
  /\ call.op = "delete"
  /\ Found \/ Missing
  /\ objects' = IF Found THEN Splice(objects, Index, 1, <<>>) ELSE objects
  /\ NextArgument

-----------------------------------------------------------------------------
Caller ==
  \/ \E o \in Objects, k \in Keys : Rename(o, k)
  \/ \E args \in Args : Insert(args) \/ Delete(args)
  \/ DeleteAll
  \/ DeepCopy

Step == LookBefore \/ LookAfter \/ InsertHere \/ DeleteHere

Next == Caller \/ Step

\* Fairness: JavaScript runs a synchronous call to completion.
Spec == Init /\ [][Next]_vars /\ WF_vars(Step)

-----------------------------------------------------------------------------
(* Properties *)

TypeOK ==
  /\ key \in [Objects -> Keys]
  /\ objects \in Seq(Entry)
  /\ call \in [op : Ops, args : Seq(Objects)]
  /\ window \in [offset : Nat, len : Nat]
  /\ source \in Seq(Entry)

Sorted(array) ==
  \A i, j \in DOMAIN array : i < j => array[i].key < array[j].key

(***************************************************************************)
(* The array is strictly ascending in its keys, whatever the function      *)
(* inserts, deletes or renames: indexOf relies on it, and insert and       *)
(* delete have to keep it so with the index indexOf returned.              *)
(***************************************************************************)
SortedByKey == Sorted(objects)

(***************************************************************************)
(* While indexOf narrows its slice, everything before the slice is smaller *)
(* than the key it looks for and everything after it is greater.           *)
(***************************************************************************)
SearchedOutside ==
  /\ window.offset + window.len <= Len(objects)
  /\ call.op # "none" =>
       /\ call.args # <<>>
       /\ \A i \in DOMAIN objects :
            /\ i <= window.offset => objects[i].key < Sought
            /\ i > window.offset + window.len => objects[i].key > Sought

\* The inductive invariant of the store.
IInv == TypeOK /\ SortedByKey /\ SearchedOutside

\* The function has renamed the entry's object since it was inserted.
Renamed(entry) == entry.key # key[entry.obj]

(***************************************************************************)
(* insert(o) leaves o in the store and no other object of o's              *)
(* kubernetesKey, as its documentation says ("replaces that one with the   *)
(* given object"), but those that have been renamed to that key since they *)
(* were inserted - and only those, wherever other stale keys are.          *)
(***************************************************************************)
InsertReplaces ==
  [][call.op = "insert" /\ call' # call =>
       /\ Head(call.args) \in StoredObjects(objects')
       /\ \A i \in DOMAIN objects' :
            key[objects'[i].obj] = Sought =>
              objects'[i].obj = Head(call.args) \/ Renamed(objects'[i])]_vars

(***************************************************************************)
(* delete(o) leaves no object of o's kubernetesKey in the store, as its    *)
(* documentation says ("Deletes all objects with the same kubernetesKey"). *)
(***************************************************************************)
DeleteRemoves ==
  [][call.op = "delete" /\ call' # call =>
       \A i \in DOMAIN objects' : key[objects'[i].obj] # Sought]_vars

(***************************************************************************)
(* What is left of that: whatever stale keys there are, delete(o) leaves   *)
(* only objects that were renamed to o's key since they were inserted.     *)
(***************************************************************************)
DeleteRemovesUnrenamed ==
  [][call.op = "delete" /\ call' # call =>
       \A i \in DOMAIN objects' :
         key[objects'[i].obj] = Sought => Renamed(objects'[i])]_vars

(***************************************************************************)
(* deepCopy returns a Configs with an object of every kubernetesKey the    *)
(* objects of the original have now, and with only one: it loses one of    *)
(* two that a rename gave the same key, and no other.                      *)
(***************************************************************************)
DeepCopyKeepsKeys ==
  [][call.op = "deepCopy" /\ call'.op = "none" =>
       /\ StoredObjects(objects') \subseteq StoredObjects(source)
       /\ \A o \in StoredObjects(source) :
            \E p \in StoredObjects(objects') : key[p] = key[o]
       /\ \A o, p \in StoredObjects(objects') : key[o] = key[p] => o = p]_vars

(***************************************************************************)
(* Seen from outside, the store is a map from the key an object had when   *)
(* it was inserted to that object: each call puts or removes its arguments *)
(* one by one, at the key each has at that moment, touches no other entry, *)
(* and the search in between is invisible.                                 *)
(***************************************************************************)
StoreOf(array) ==
  [k \in StoredKeys(array) |->
     array[CHOOSE i \in DOMAIN array : array[i].key = k].obj]

Store == INSTANCE KeyedStore WITH store <- StoreOf(objects)

StoreSpec == Store!Spec

(***************************************************************************)
(* Every call returns: the slice of indexOf shrinks with each recursive    *)
(* call until the key is found or the slice is empty.                      *)
(***************************************************************************)
CallsReturn == call.op # "none" ~> call.op = "none"
=============================================================================
