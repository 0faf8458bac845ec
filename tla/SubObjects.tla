------------------------------ MODULE SubObjects ------------------------------
(***************************************************************************)
(* The fields of a Kubernetes object in the Go SDK: KubeObject and         *)
(* SubObject of go/fn/object.go on the YAML nodes of go/fn/internal.       *)
(*                                                                         *)
(* A SubObject is a reference to a node.  The function holds any number of *)
(* them and calls their methods in any order; what one call attaches,      *)
(* replaces or detaches is shared by all.  Methods that take a path go     *)
(* down field by field, one step of the model per turn of their loops.     *)
(* The root is the object itself, with its metadata and annotations.       *)
(***************************************************************************)
EXTENDS Integers, Sequences, FiniteSets, SequencesExt

CONSTANTS Names,          \* field names
          Metadata,       \* the name "metadata"
          Annotations,    \* the name "annotations"
          Identifier,     \* UpstreamIdentifier, kpt's own annotation
          Strings,        \* string values a function writes
          Origin,         \* the value kpt has given the identifier
          NoString,       \* the value of a node that is no string
          Settable,       \* kinds of value the function sets
          MaxFields,      \* bound: fields of a path
          MaxLevels,      \* bound: levels of a Go map or a struct
          MaxHeld,        \* bound: SubObjects held
          MaxNodes        \* bound: nodes there are before the last value is set

Leaves == {"string", "other"}
Kinds == Leaves \cup {"map", "slice"}

ASSUME NamesAssumption ==
  /\ {Metadata, Annotations, Identifier} \subseteq Names
  /\ Metadata # Annotations /\ Metadata # Identifier /\ Annotations # Identifier
ASSUME ValuesAssumption == NoString \notin Strings /\ Origin \notin Strings
ASSUME SettableAssumption == Settable \subseteq Kinds \cup {"struct"}
ASSUME BoundsAssumption ==
  /\ MaxFields \in Nat \ {0, 1}   \* the library's own path to the annotations
  /\ MaxLevels \in Nat \ {0} /\ MaxHeld \in Nat /\ MaxNodes \in Nat

VARIABLES heap,    \* all nodes ever made; a node's number is its place here
          held,    \* the nodes the function has SubObjects of
          call,    \* the call that is running, and how far down it is
          before   \* history: the heap when the call began

vars == <<heap, held, call, before>>

-----------------------------------------------------------------------------
(***************************************************************************)
(* Nodes.  The pairs of a map are kept by name: fields[k] are the values   *)
(* of its pairs with key k in the order of the map's Content.  In what     *)
(* order different names follow each other is left out.                    *)
(***************************************************************************)
Nodes == 1..Len(heap)
NodeIn(N) ==
  [kind : Kinds, value : Strings \cup {Origin, NoString},
   fields : [Names -> Seq(N)], items : Seq(N)]

NoFields == [k \in Names |-> <<>>]

Node(kind, value, fields, items) ==
  [kind |-> kind, value |-> value, fields |-> fields, items |-> items]

MapNode == Node("map", NoString, NoFields, <<>>)
MapWith(k, n) == [MapNode EXCEPT !.fields[k] = <<n>>]

\* getValueNode finds the first pair with the key
Has(n, k) == heap[n].fields[k] # <<>>
First(n, k) == Head(heap[n].fields[k])
HasMap(n, k) == Has(n, k) /\ heap[First(n, k)].kind = "map"

PathsUpTo(m) == UNION {[1..n -> Names] : n \in 1..m}

\* What a function passes to a setter: a scalar, a slice of the SubObjects of some
\* nodes, or a Go map or a struct, which has a string at the end of a path of its own.
Value(kind, path, string, items) ==
  [kind |-> kind, path |-> path, value |-> string, items |-> items]

Nothing == Value("other", <<>>, NoString, <<>>)
HasPath(val) == val.kind \in {"map", "struct"}

FieldValues ==
  {Value("string", <<>>, s, <<>>) : s \in Strings}
    \cup {Nothing, Value("slice", <<>>, NoString, <<>>)}
    \cup {Value(kind, path, s, <<>>) :
            kind \in {"map", "struct"}, path \in PathsUpTo(MaxLevels), s \in Strings}

\* The nodes a value becomes if the heap has n nodes; the first is the value, and
\* each but the last is the map around the next.
NodesOf(val, n) ==
  LET leaf == Node(IF HasPath(val) THEN "string" ELSE val.kind,
                   val.value, NoFields, val.items)
  IN [j \in 1..Len(val.path) + 1 |->
        IF j <= Len(val.path) THEN MapWith(val.path[j], n + j + 1) ELSE leaf]

Idle ==
  [op |-> "none", ref |-> 1, fields |-> <<>>, val |-> Nothing, at |-> 1, i |-> 1]

-----------------------------------------------------------------------------
\* An object with an identifier in its annotations, of which calls may remove both.
Init ==
  /\ heap = <<MapWith(Metadata, 2), MapWith(Annotations, 3), MapWith(Identifier, 4),
              Node("string", Origin, NoFields, <<>>)>>
  /\ held = {1}
  /\ call = Idle
  /\ before = heap

Call(op, r, fields, val) ==
  /\ call = Idle
  /\ call' = [op |-> op, ref |-> r, fields |-> fields, val |-> val,
              at |-> r, i |-> 1]
  /\ before' = heap
  /\ UNCHANGED <<heap, held>>

Return == call' = Idle /\ UNCHANGED held

\* The function gets SubObjects of nodes; it need not use those it has.
MayHold == Cardinality(held) < MaxHeld
ReturnSubObjects(nodes) == call' = Idle /\ held' = held \cup nodes

\* A name's pairs in a heap to which nodes are appended
Updated(nodes, n, k, pairs) ==
  [heap EXCEPT ![n].fields[k] = pairs] \o nodes

\* Mutant: maps are let through.
LockedStrings(val, fields) ==
  val.kind = "string" /\ Last(fields) = Identifier

\* onLockedFields looks at the last field, and at the keys of a Go map.
Locked(val, fields) ==
  \/ val.kind = "string" /\ Last(fields) = Identifier
  \/ val.kind = "map" /\ Last(fields) = Annotations /\ Head(val.path) = Identifier

-----------------------------------------------------------------------------
(* The methods of SubObject. *)

FieldPaths == PathsUpTo(MaxFields)

SetNestedField(r, fields, val) ==
  /\ Len(heap) < MaxNodes /\ val.kind \in Settable /\ ~Locked(val, fields)
  /\ Call("set", r, fields, val)

SetSlice(r, k, element) ==
  /\ Len(heap) < MaxNodes /\ "slice" \in Settable
  /\ Call("set", r, <<k>>, Value("slice", <<>>, NoString, <<element>>))

RemoveNestedField(r, fields) == Call("remove", r, fields, Nothing)

\* Whatever has no Content counts as having no annotations.
RemoveAnnotationsIfEmpty ==
  /\ HasMap(1, Metadata) /\ Has(First(1, Metadata), Annotations)
  /\ LET node == heap[First(First(1, Metadata), Annotations)]
     IN node.fields = NoFields /\ node.items = <<>>
  /\ RemoveNestedField(1, <<Metadata, Annotations>>)

NestedSubObject(r, fields) == MayHold /\ Call("sub", r, fields, Nothing)

\* UpsertMap adds a pair, whether or not the map has one that is no map.
UpsertMap(r, k) ==
  /\ call = Idle /\ MayHold /\ r \in held
  /\ IF HasMap(r, k)
     THEN ReturnSubObjects({First(r, k)}) /\ UNCHANGED heap
     ELSE /\ Len(heap) <= MaxNodes
          /\ heap' = Updated(<<MapNode>>, r, k,
                             Append(heap[r].fields[k], Len(heap) + 1))
          /\ ReturnSubObjects({Len(heap) + 1})
  /\ before' = heap'

\* GetMap makes a SubObject of any value, although its comment says that it panics
\* if the value is no map.  Of a slice the function does not use it: an odd number
\* of elements would end the process.
GetMap(r, k) ==
  /\ call = Idle /\ MayHold /\ r \in held /\ Has(r, k)
  /\ heap[First(r, k)].kind # "slice"
  /\ ReturnSubObjects({First(r, k)})
  /\ UNCHANGED <<heap, before>>

\* NestedSlice needs every element to be a map.
GetSlice(r, k) ==
  /\ call = Idle /\ MayHold /\ r \in held
  /\ Has(r, k) /\ heap[First(r, k)].kind = "slice"
  /\ \A i \in Range(heap[First(r, k)].items) : heap[i].kind = "map"
  /\ ReturnSubObjects(Range(heap[First(r, k)].items))
  /\ UNCHANGED <<heap, before>>

-----------------------------------------------------------------------------
(* The loops of SetNestedValue, RemoveNestedField and GetNestedValue. *)

key == call.fields[call.i]
atLast == call.i = Len(call.fields)

\* The field is there, is a map, and is not the last.
Descend ==
  /\ call # Idle /\ ~atLast /\ HasMap(call.at, key)
  /\ call' = [call EXCEPT !.at = First(call.at, key), !.i = @ + 1]
  /\ UNCHANGED <<heap, held, before>>

\* Mutant: getMap makes missing maps whoever calls it.
MakeMapForAll ==
  /\ call # Idle /\ ~atLast /\ ~Has(call.at, key)
  /\ heap' = Updated(<<MapNode>>, call.at, key, <<Len(heap) + 1>>)
  /\ call' = [call EXCEPT !.at = Len(heap) + 1, !.i = @ + 1]
  /\ UNCHANGED <<held, before>>

\* getMap makes the maps that are missing on the way to a value.
MakeMap ==
  /\ call.op = "set" /\ ~atLast /\ ~Has(call.at, key)
  /\ heap' = Updated(<<MapNode>>, call.at, key, <<Len(heap) + 1>>)
  /\ call' = [call EXCEPT !.at = Len(heap) + 1, !.i = @ + 1]
  /\ UNCHANGED <<held, before>>

\* setYAMLNode replaces the first pair's value, or adds a pair.
SetValue ==
  /\ call.op = "set" /\ atLast
  /\ heap' = Updated(NodesOf(call.val, Len(heap)), call.at, key,
                     IF Has(call.at, key)
                     THEN [heap[call.at].fields[key] EXCEPT ![1] = Len(heap) + 1]
                     ELSE <<Len(heap) + 1>>)
  /\ Return
  /\ before' = heap'

\* Mutant: remove stops at the first pair with the key.
RemoveOnePair ==
  /\ call.op = "remove" /\ atLast /\ Has(call.at, key)
  /\ heap' = Updated(<<>>, call.at, key, Tail(heap[call.at].fields[key]))
  /\ Return
  /\ before' = heap'

\* Mutant: remove does not keep the other pairs.
RemoveEveryPair ==
  /\ call.op = "remove" /\ atLast /\ Has(call.at, key)
  /\ heap' = [heap EXCEPT ![call.at].fields = NoFields]
  /\ Return
  /\ before' = heap'

\* remove drops every pair with the key.
RemoveField ==
  /\ call.op = "remove" /\ atLast /\ Has(call.at, key)
  /\ heap' = Updated(<<>>, call.at, key, <<>>)
  /\ Return
  /\ before' = heap'

FoundSubObject ==
  /\ call.op = "sub" /\ atLast /\ HasMap(call.at, key)
  /\ ReturnSubObjects({First(call.at, key)})
  /\ UNCHANGED <<heap, before>>

\* The field is not there, or it is not the map that it has to be.
Stuck ==
  /\ call # Idle
  /\ \/ ~Has(call.at, key) /\ call.op # "set"
     \/ Has(call.at, key) /\ ~HasMap(call.at, key) /\ (atLast => call.op = "sub")

\* The call returns an error, or that it found nothing.
GiveUp ==
  /\ Stuck
  /\ Return
  /\ before' = heap
  /\ UNCHANGED heap

Function ==
  \/ \E r \in held, fields \in FieldPaths :
       \/ \E val \in FieldValues : SetNestedField(r, fields, val)
       \/ RemoveNestedField(r, fields)
       \/ NestedSubObject(r, fields)
  \/ \E r, element \in held, k \in Names : SetSlice(r, k, element)
  \/ \E r \in held, k \in Names : UpsertMap(r, k) \/ GetMap(r, k) \/ GetSlice(r, k)
  \/ RemoveAnnotationsIfEmpty

Library ==
  Descend \/ MakeMap \/ SetValue \/ RemoveField \/ FoundSubObject \/ GiveUp

Next == Function \/ Library

Spec == Init /\ [][Next]_vars

-----------------------------------------------------------------------------
(* Properties *)

Values ==
  {val \in [kind : Kinds \cup {"struct"}, path : PathsUpTo(MaxLevels) \cup {<<>>},
            value : Strings \cup {NoString}, items : Seq(Nodes)] :
     (val.path # <<>> <=> HasPath(val)) /\ (HasPath(val) => val.items = <<>>)}

CallOK(c) ==
  /\ c \in [op : {"none", "set", "remove", "sub"}, ref : Nodes,
           fields : FieldPaths \cup {<<>>},
           val : Values, at : Nodes, i : Nat]
  /\ c.val = Nothing \/ c.val.kind \in Settable
  /\ c = Idle \/ (c.fields \in FieldPaths /\ c.i \in DOMAIN c.fields)

TypeOK ==
  /\ heap \in Seq(NodeIn(Nodes)) /\ Nodes # {}
  /\ held \in SUBSET Nodes
  /\ CallOK(call)

\* Every node is the value of one pair at most.
OnePlace ==
  \A n \in Nodes, k \in Names : \A i \in DOMAIN heap[n].fields[k] :
    \A m \in Nodes, l \in Names : \A j \in DOMAIN heap[m].fields[l] :
      heap[n].fields[k][i] = heap[m].fields[l][j] => n = m /\ k = l /\ i = j

\* A call that has changed the heap is on the way through maps it made itself.
OnlyMade ==
  heap # before => call.op = "set" /\ heap[call.at] = MapNode

\* A value that is refused is not on its way either.
OnlyUnlocked == call.op = "set" => ~Locked(call.val, call.fields)

\* The root is a map in no other; whatever is a map has no value of its own.
RootOnTop ==
  /\ heap[1].kind = "map"
  /\ \A n \in Nodes, k \in Names : 1 \notin Range(heap[n].fields[k])
  /\ \A n \in Nodes : heap[n].kind = "map" => heap[n].value = NoString

IInv == TypeOK /\ OnePlace /\ RootOnTop /\ OnlyMade /\ OnlyUnlocked

(***************************************************************************)
(* The lock on kpt's identifier holds as far as it reaches: whatever a     *)
(* function does through whichever SubObject, attached or detached - sets, *)
(* removals, maps made on the way or by UpsertMap - a string under an      *)
(* identifier in annotations is kpt's own, unless one call has set a       *)
(* struct, or a Go map that brings annotations of its own, at once.        *)
(* (onLockedFields looks only at the last field of a path and at the keys  *)
(* of a map that is set as annotations.)                                   *)
(***************************************************************************)
Fields(h, n, k) == Range(h[n].fields[k])

ForgedIn(h) ==
  {c \in 1..Len(h) :
     /\ h[c].kind = "string" /\ h[c].value # Origin
     /\ \E n, a \in 1..Len(h) :
          a \in Fields(h, n, Annotations) /\ c \in Fields(h, a, Identifier)}

BringsAnnotations(val) == val.kind = "struct" \/ Annotations \in Range(val.path)

LockHolds ==
  [][ForgedIn(heap') \subseteq ForgedIn(heap)
       \/ (SetValue /\ BringsAnnotations(call.val))]_vars

(***************************************************************************)
(* A call that fails has changed nothing: SetNestedValue makes the maps on *)
(* its way before it knows whether it will arrive, yet leaves none of them *)
(* behind when it returns an error.                                        *)
(***************************************************************************)
FailedCallsChangeNothing == Stuck => heap = before

\* The nodes a reader from the root of heap h finds, with their paths
Depth == MaxFields + 1

Place(path, node) == [path |-> path, node |-> node]

Below(h, place) ==
  {Place(Append(place.path, k), Head(h[place.node].fields[k])) :
     k \in {l \in Names : h[place.node].kind = "map" /\ h[place.node].fields[l] # <<>>}}

Levels(h) ==
  LET level[n \in 0..Depth] ==
        IF n = 0 THEN {Place(<<>>, 1)}
                 ELSE UNION {Below(h, place) : place \in level[n - 1]}
  IN level

FoundIn(h) == LET levels == Levels(h) IN UNION {levels[n] : n \in 0..Depth}

Found == FoundIn(heap)

(***************************************************************************)
(* What the error of the lock says: kpt manages the identifier, and no     *)
(* function modifies it.  Whoever reads the object finds at its place no   *)
(* string but kpt's.                                                       *)
(***************************************************************************)
NeverForged ==
  \A place \in Found :
    place.path = <<Metadata, Annotations, Identifier>>
      /\ heap[place.node].kind = "string" => heap[place.node].value = Origin

(***************************************************************************)
(* What a call writes is what is read: when a set or a removal through a   *)
(* SubObject that is at path p of the object returns, a reader from the    *)
(* root finds the value, or nothing, at p and the fields of the call - if  *)
(* a map has several pairs of a key, too.  Through a SubObject that is     *)
(* detached from the object, or no map, it changes nothing of the object.  *)
(***************************************************************************)
Changed(p) == {place \in Found' : place.path = p}

WritesLand ==
  [][SetValue \/ RemoveField =>
       LET at == {place \in Found :
                    place.node = call.ref /\ heap[call.ref].kind = "map"}
       IN IF at = {} THEN Found' = Found
          ELSE \A place \in at :
                 LET p == place.path \o call.fields
                 IN Len(p) <= Depth =>
                      Changed(p) = IF call.op = "remove" THEN {}
                                   ELSE {[path |-> p, node |-> Len(heap) + 1]}]_vars

(***************************************************************************)
(* The nodes implement a tree: each step changes what is at one path and   *)
(* below, whichever references there are, and leaves all other paths of    *)
(* the object alone.                                                       *)
(***************************************************************************)
FieldAt(h, place) ==
  [path |-> place.path,
   content |-> [kind |-> h[place.node].kind, value |-> h[place.node].value]]

TreeOf(h) == {FieldAt(h, place) : place \in FoundIn(h)}

tree == TreeOf(heap)

Tree == INSTANCE KubeTree WITH
  Paths <- UNION {[1..n -> Names] : n \in 0..Depth},
  Contents <- [kind : Kinds, value : Strings \cup {Origin, NoString}],
  Map <- [kind |-> "map", value |-> NoString]

ImplementsTree == Tree!TreeSpec
=============================================================================
