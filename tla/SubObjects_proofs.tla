--------------------------- MODULE SubObjects_proofs ---------------------------
(***************************************************************************)
(* Theorems about SubObjects: its inductive invariant, that a call that    *)
(* fails has changed nothing, and which calls alone can forge kpt's        *)
(* identifier.                                                             *)
(***************************************************************************)
EXTENDS SubObjects, SequenceTheorems, TLAPS

-----------------------------------------------------------------------------
(* What a step does to the nodes. *)

\* Nodes to be appended: each has one pair at most, whose value is the next.
NewNodes(nodes) ==
  /\ nodes \in Seq(NodeIn(1..Len(heap) + Len(nodes)))
  /\ \A j \in DOMAIN nodes, k \in Names : \A i \in DOMAIN nodes[j].fields[k] :
       i = 1 /\ nodes[j].fields[k][i] = Len(heap) + j + 1
  /\ \A j \in DOMAIN nodes, k, l \in Names :
       nodes[j].fields[k] # <<>> /\ nodes[j].fields[l] # <<>> => k = l
  /\ \A j \in DOMAIN nodes : nodes[j].kind = "map" => nodes[j].value = NoString

\* The values of pairs with one name: those that were there, one new one, or both.
NewPairs(pairs, old) ==
  /\ \A i \in DOMAIN pairs : \/ pairs[i] = Len(heap) + 1
                             \/ i \in DOMAIN old /\ pairs[i] = old[i]
  /\ \A i, j \in DOMAIN pairs :
       pairs[i] = Len(heap) + 1 /\ pairs[j] = Len(heap) + 1 => i = j

\* The pairs of one node with one name change.
Changes(nodes, n, k, pairs) ==
  /\ n \in Nodes /\ k \in Names
  /\ NewNodes(nodes)
  /\ pairs \in Seq(1..Len(heap) + Len(nodes))
  /\ NewPairs(pairs, heap[n].fields[k])
  /\ heap' = Updated(nodes, n, k, pairs)

(* A sequence over a set is one over any larger set. *)
LEMMA SeqMore ==
  ASSUME NEW M, NEW N, M \subseteq N, NEW s \in Seq(M)
  PROVE  s \in Seq(N)
OBVIOUS

(* Nodes may have fields of more nodes than there are. *)
LEMMA NodeInMore ==
  ASSUME NEW M, NEW N, M \subseteq N
  PROVE  NodeIn(M) \subseteq NodeIn(N)
<1>1. \A s \in Seq(M) : s \in Seq(N) OBVIOUS
<1>2. \A f \in [Names -> Seq(M)] : f \in [Names -> Seq(N)] BY <1>1
<1>. QED BY <1>1, <1>2 DEF NodeIn

(* A function on 1..n is a sequence. *)
LEMMA FunctionIsSeq ==
  ASSUME NEW S, NEW n \in Nat, NEW f \in [1..n -> S]
  PROVE  f \in Seq(S) /\ Len(f) = n
OBVIOUS

(* The elements of two sequences in one. *)
LEMMA ConcatElements ==
  ASSUME NEW S, NEW s \in Seq(S), NEW t \in Seq(S)
  PROVE  /\ s \o t \in Seq(S) /\ Len(s \o t) = Len(s) + Len(t)
         /\ \A i \in 1..Len(s) : (s \o t)[i] = s[i]
         /\ \A j \in 1..Len(t) : (s \o t)[Len(s) + j] = t[j]
BY ConcatProperties

(* The nodes after a change. *)
LEMMA ChangedHeap ==
  ASSUME TypeOK, NEW nodes, NEW n, NEW k, NEW pairs, Changes(nodes, n, k, pairs)
  PROVE  /\ Len(heap') = Len(heap) + Len(nodes)
         /\ Len(heap) \in Nat /\ Len(nodes) \in Nat
         /\ heap' \in Seq(NodeIn(Nodes'))
         /\ Nodes \subseteq Nodes'
         /\ \A m \in Nodes : /\ heap'[m].kind = heap[m].kind
                             /\ heap'[m].value = heap[m].value
                             /\ heap'[m].items = heap[m].items
         /\ \A m \in Nodes, l \in Names :
              heap'[m].fields[l] = IF m = n /\ l = k THEN pairs
                                                     ELSE heap[m].fields[l]
         /\ \A j \in DOMAIN nodes : heap'[Len(heap) + j] = nodes[j]
         /\ \A m \in Nodes' : \/ m \in Nodes
                              \/ \E j \in DOMAIN nodes : m = Len(heap) + j
<1>. DEFINE L == Len(heap)
            N == 1..L + Len(nodes)
            h == [heap EXCEPT ![n].fields[k] = pairs]
<1>1. /\ L \in Nat /\ Len(nodes) \in Nat /\ Nodes = 1..L /\ DOMAIN heap = 1..L
      /\ DOMAIN nodes = 1..Len(nodes)
      /\ heap \in [1..L -> NodeIn(Nodes)] /\ n \in 1..L /\ k \in Names
  BY DEF TypeOK, Changes, NewNodes, Nodes
<1>2. Nodes \subseteq N BY <1>1
<1>3. heap \in [1..L -> NodeIn(N)] BY <1>1, <1>2, NodeInMore
<1>4. pairs \in Seq(N) /\ nodes \in Seq(NodeIn(N)) BY DEF Changes, NewNodes
<1>. HIDE DEF N, L
<1>5. /\ h \in [1..L -> NodeIn(N)]
      /\ \A m \in 1..L : /\ h[m].kind = heap[m].kind
                         /\ h[m].value = heap[m].value
                         /\ h[m].items = heap[m].items
      /\ \A m \in 1..L, l \in Names :
           h[m].fields[l] = IF m = n /\ l = k THEN pairs ELSE heap[m].fields[l]
  BY <1>1, <1>3, <1>4 DEF NodeIn
<1>6. h \in Seq(NodeIn(N)) /\ Len(h) = L 
  <2>. HIDE DEF h
  <2>. QED BY <1>1, <1>5, FunctionIsSeq
<1>7. heap' = h \o nodes BY DEF Changes, Updated
<1>. HIDE DEF h
<1>8. /\ heap' \in Seq(NodeIn(N)) /\ Len(heap') = L + Len(nodes)
      /\ \A m \in 1..L : heap'[m] = h[m]
      /\ \A j \in 1..Len(nodes) : heap'[L + j] = nodes[j]
  <2>. DEFINE c == h \o nodes
  <2>1. c \in Seq(NodeIn(N)) /\ Len(c) = L + Len(nodes)
    BY <1>4, <1>6, ConcatElements
  <2>2. \A m \in 1..L : c[m] = h[m] BY <1>4, <1>6, ConcatElements
  <2>3. \A j \in 1..Len(nodes) : c[L + j] = nodes[j]
    BY <1>4, <1>6, ConcatElements
  <2>. HIDE DEF c
  <2>4. heap' = c BY <1>7 DEF c
  <2>. QED BY <2>1, <2>2, <2>3, <2>4
<1>9. Nodes' = N BY <1>8 DEF Nodes, N, L
<1>10. \A m \in N : m \in 1..L \/ (m - L \in 1..Len(nodes) /\ m = L + (m - L))
  BY <1>1 DEF N
<1>11. /\ Len(heap') = L + Len(nodes)
       /\ L \in Nat /\ Len(nodes) \in Nat
       /\ heap' \in Seq(NodeIn(Nodes'))
       /\ Nodes \subseteq Nodes'
  BY <1>1, <1>2, <1>8, <1>9
<1>12. /\ \A m \in Nodes : /\ heap'[m].kind = heap[m].kind
                           /\ heap'[m].value = heap[m].value
                           /\ heap'[m].items = heap[m].items
       /\ \A m \in Nodes, l \in Names :
            heap'[m].fields[l] = IF m = n /\ l = k THEN pairs
                                                   ELSE heap[m].fields[l]
  BY <1>1, <1>5, <1>8
<1>13. \A j \in DOMAIN nodes : heap'[L + j] = nodes[j] BY <1>1, <1>8
<1>14. \A m \in Nodes' : \/ m \in Nodes
                         \/ \E j \in DOMAIN nodes : m = L + j
  BY <1>1, <1>9, <1>10
<1>. QED BY <1>11, <1>12, <1>13, <1>14 DEF L

(* No nodes at all, and one map without fields, may be appended. *)
LEMMA EmptyNewNodes ==
  ASSUME TypeOK
  PROVE  NewNodes(<<>>) /\ NewNodes(<<MapNode>>)
<1>1. Len(heap) \in Nat BY DEF TypeOK
<1>2. <<>> \in Seq(NodeIn(1..Len(heap) + Len(<<>>))) OBVIOUS
<1>3. NewNodes(<<>>) BY <1>2 DEF NewNodes
<1>4. \A N : MapNode \in NodeIn(N)
  BY DEF NodeIn, MapNode, Node, NoFields, Kinds
<1>5. MapNode.value = NoString /\ \A k \in Names : MapNode.fields[k] = <<>>
  BY DEF MapNode, Node, NoFields
<1>. DEFINE m == MapNode
<1>. HIDE DEF m
<1>6. <<m>> \in Seq(NodeIn(1..Len(heap) + Len(<<m>>))) BY <1>1, <1>4 DEF m
<1>7. \A j \in DOMAIN <<m>> : <<m>>[j] = m OBVIOUS
<1>8. NewNodes(<<m>>) BY <1>5, <1>6, <1>7 DEF NewNodes, m
<1>. QED BY <1>3, <1>8 DEF m

(* A map with one pair. *)
LEMMA MapWithPair ==
  ASSUME NEW N, NEW k \in Names, NEW n \in N
  PROVE  /\ MapWith(k, n) \in NodeIn(N)
         /\ MapWith(k, n).kind = "map" /\ MapWith(k, n).value = NoString
         /\ \A l \in Names :
              MapWith(k, n).fields[l] = IF l = k THEN <<n>> ELSE <<>>
<1>. DEFINE pair == <<n>>
            fields == [NoFields EXCEPT ![k] = pair]
<1>1. pair \in Seq(N) OBVIOUS
<1>2. NoFields \in [Names -> Seq(N)] /\ \A l \in Names : NoFields[l] = <<>>
  BY DEF NoFields
<1>3. MapWith(k, n) = Node("map", NoString, fields, <<>>)
  BY DEF MapWith, MapNode, Node
<1>. HIDE DEF pair
<1>4. fields \in [Names -> Seq(N)] BY <1>1, <1>2
<1>5. \A l \in Names : fields[l] = IF l = k THEN pair ELSE <<>> BY <1>2
<1>. HIDE DEF fields
<1>6. <<>> \in Seq(N) OBVIOUS
<1>. QED BY <1>3, <1>4, <1>5, <1>6 DEF Node, NodeIn, Kinds, pair

(* The path of a value is a sequence of names. *)
LEMMA PathOfValue ==
  ASSUME NEW val \in Values
  PROVE  /\ val.path \in Seq(Names) /\ Len(val.path) \in Nat
         /\ DOMAIN val.path = 1..Len(val.path)
         /\ HasPath(val) => 1 \in DOMAIN val.path
<1>1. val.path \in PathsUpTo(MaxLevels) \cup {<<>>} BY DEF Values
<1>2. ASSUME val.path \in PathsUpTo(MaxLevels) PROVE val.path \in Seq(Names)
  <2>1. PICK n \in 1..MaxLevels : val.path \in [1..n -> Names]
    BY <1>2 DEF PathsUpTo
  <2>2. n \in Nat BY BoundsAssumption
  <2>. QED BY <2>1, <2>2, FunctionIsSeq
<1>3. val.path \in Seq(Names)
  <2>1. <<>> \in Seq(Names) OBVIOUS
  <2>. QED BY <1>1, <1>2, <2>1
<1>4. HasPath(val) => val.path # <<>> BY DEF Values
<1>. QED BY <1>3, <1>4

(* The nodes a value becomes may be appended, and what pairs they have. *)
LEMMA ValueNewNodes ==
  ASSUME TypeOK, NEW val \in Values
  PROVE  LET nodes == NodesOf(val, Len(heap))
         IN /\ NewNodes(nodes) /\ 1 \in DOMAIN nodes
            /\ nodes[1].kind = "string" => val.kind = "string"
            /\ \A j \in DOMAIN nodes, k \in Names : nodes[j].fields[k] # <<>> =>
                 HasPath(val) /\ j \in DOMAIN val.path /\ k = val.path[j]
<1>. DEFINE L == Len(heap)
            P == Len(val.path)
            N == 1..L + P + 1
            leaf == Node(IF HasPath(val) THEN "string" ELSE val.kind,
                         val.value, NoFields, val.items)
            Map(j) == MapWith(val.path[j], L + j + 1)
            nodes == NodesOf(val, L)
<1>1. L \in Nat /\ Nodes = 1..L BY DEF TypeOK, Nodes
<1>2. /\ P \in Nat /\ DOMAIN val.path = 1..P /\ val.path \in Seq(Names)
      /\ HasPath(val) => 1 \in 1..P
  BY PathOfValue
<1>3. /\ val.kind \in Kinds \cup {"struct"}
      /\ val.value \in Strings \cup {NoString} /\ val.items \in Seq(Nodes)
      /\ val.path # <<>> => HasPath(val)
  BY DEF Values
<1>4. \A j \in 1..P : val.path[j] \in Names BY <1>2
<1>5. nodes = [j \in 1..P + 1 |-> IF j <= P THEN Map(j) ELSE leaf]
  BY DEF NodesOf
<1>6. Nodes \subseteq N BY <1>1, <1>2
<1>7. \A j \in 1..P : L + j + 1 \in N BY <1>1, <1>2
<1>. HIDE DEF L, P, N, nodes
<1>8. /\ leaf \in NodeIn(N) /\ leaf.kind # "map"
      /\ leaf.kind = "string" /\ ~HasPath(val) => val.kind = "string"
      /\ \A k \in Names : leaf.fields[k] = <<>>
  <2>1. val.items \in Seq(N) BY <1>3, <1>6, SeqMore
  <2>2. NoFields \in [Names -> Seq(N)] /\ \A k \in Names : NoFields[k] = <<>>
    BY DEF NoFields
  <2>. DEFINE kind == IF HasPath(val) THEN "string" ELSE val.kind
  <2>3. kind \in Kinds /\ kind # "map" /\ (~HasPath(val) => kind = val.kind)
    BY <1>3 DEF HasPath, Kinds, Leaves
  <2>. HIDE DEF kind
  <2>4. leaf = Node(kind, val.value, NoFields, val.items) BY DEF kind
  <2>5. /\ leaf.kind = kind /\ leaf.fields = NoFields /\ leaf \in NodeIn(N)
    BY <1>3, <2>1, <2>2, <2>3, <2>4 DEF Node, NodeIn
  <2>. QED BY <2>2, <2>3, <2>5
<1>9. ASSUME NEW j \in 1..P
      PROVE  /\ Map(j) \in NodeIn(N) /\ Map(j).kind = "map"
             /\ Map(j).value = NoString
             /\ \A k \in Names :
                  Map(j).fields[k] = IF k = val.path[j] THEN <<L + j + 1>> ELSE <<>>
  <2>. DEFINE name == val.path[j]
              next == L + j + 1
  <2>1. name \in Names /\ next \in N BY <1>4, <1>7
  <2>2. Map(j) = MapWith(name, next) OBVIOUS
  <2>. HIDE DEF name, next, Map, leaf
  <2>3. /\ MapWith(name, next) \in NodeIn(N)
        /\ MapWith(name, next).kind = "map"
        /\ MapWith(name, next).value = NoString
        /\ \A k \in Names : MapWith(name, next).fields[k] =
             IF k = name THEN <<next>> ELSE <<>>
    BY <2>1, MapWithPair
  <2>. QED BY <2>2, <2>3 DEF name, next
<1>. HIDE DEF leaf, Map
<1>10. /\ \A j \in 1..P : nodes[j] = Map(j)
       /\ nodes[P + 1] = leaf
       /\ nodes \in [1..P + 1 -> NodeIn(N)]
  <2>1. \A j \in 1..P : j \in 1..P + 1 /\ j <= P BY <1>2
  <2>2. P + 1 \in 1..P + 1 /\ ~(P + 1 <= P) BY <1>2
  <2>3. \A j \in 1..P + 1 : j <= P => j \in 1..P BY <1>2
  <2>. QED BY <1>5, <1>8, <1>9, <2>1, <2>2, <2>3
<1>11. nodes \in Seq(NodeIn(N)) /\ Len(nodes) = P + 1 /\ DOMAIN nodes = 1..P + 1
  BY <1>2, <1>10, FunctionIsSeq
<1>12. \A j \in DOMAIN nodes : j \in 1..P \/ j = P + 1 BY <1>2, <1>11
<1>13. ASSUME NEW j \in DOMAIN nodes, NEW k \in Names, nodes[j].fields[k] # <<>>
       PROVE  /\ j \in 1..P /\ k = val.path[j]
              /\ nodes[j].fields[k] = <<L + j + 1>>
  <2>1. j \in 1..P BY <1>8, <1>10, <1>12, <1>13
  <2>2. nodes[j] = Map(j) BY <1>10, <2>1
  <2>. DEFINE pair == <<L + j + 1>>
  <2>3. Map(j).fields[k] = IF k = val.path[j] THEN pair ELSE <<>> BY <1>9, <2>1
  <2>. HIDE DEF pair
  <2>4. k = val.path[j] /\ Map(j).fields[k] = pair BY <1>13, <2>2, <2>3
  <2>. QED BY <2>1, <2>2, <2>4 DEF pair
<1>14. NewNodes(nodes)
  <2>1. \A j \in DOMAIN nodes, k \in Names : \A i \in DOMAIN nodes[j].fields[k] :
          i = 1 /\ nodes[j].fields[k][i] = L + j + 1
    <3>. SUFFICES ASSUME NEW j \in DOMAIN nodes, NEW k \in Names,
                         NEW i \in DOMAIN nodes[j].fields[k]
                  PROVE  i = 1 /\ nodes[j].fields[k][i] = L + j + 1
      OBVIOUS
    <3>1. nodes[j].fields[k] # <<>> OBVIOUS
    <3>2. nodes[j].fields[k] = <<L + j + 1>> BY <1>13, <3>1
    <3>3. \A v : DOMAIN <<v>> = {1} /\ <<v>>[1] = v OBVIOUS
    <3>4. DOMAIN nodes[j].fields[k] = {1} /\ nodes[j].fields[k][1] = L + j + 1
      BY <3>2, <3>3
    <3>. QED BY <3>4
  <2>2. \A j \in DOMAIN nodes, k, l \in Names :
          nodes[j].fields[k] # <<>> /\ nodes[j].fields[l] # <<>> => k = l
    BY <1>13
  <2>3. \A j \in DOMAIN nodes : nodes[j].kind = "map" => nodes[j].value = NoString
    BY <1>8, <1>9, <1>10, <1>12
  <2>4. nodes \in Seq(NodeIn(1..L + Len(nodes)))
    <3>1. L + (P + 1) = L + P + 1 BY <1>1, <1>2
    <3>2. N = 1..L + Len(nodes) BY <1>11, <3>1 DEF N
    <3>. QED BY <1>11, <3>2
  <2>. QED BY <2>1, <2>2, <2>3, <2>4 DEF NewNodes, L
<1>15. 1 \in DOMAIN nodes BY <1>2, <1>11
<1>16. nodes[1].kind = "string" => val.kind = "string"
  <2>1. CASE HasPath(val) BY <1>2, <1>9, <1>10, <2>1
  <2>2. CASE ~HasPath(val)
    <3>1. val.path = <<>> BY <1>3, <2>2
    <3>2. P = 0 BY <3>1 DEF P
    <3>. QED BY <1>8, <1>10, <2>2, <3>2
  <2>. QED BY <2>1, <2>2
<1>17. \A j \in DOMAIN nodes, k \in Names : nodes[j].fields[k] # <<>> =>
         HasPath(val) /\ j \in DOMAIN val.path /\ k = val.path[j]
  <2>1. ASSUME NEW j \in 1..P PROVE HasPath(val)
    <3>1. val.path # <<>> BY <1>2, <2>1
    <3>. QED BY <1>3, <3>1
  <2>. QED BY <1>2, <1>13, <2>1
<1>. QED BY <1>14, <1>15, <1>16, <1>17 DEF nodes, L

(* The pairs with one name after a change. *)
LEMMA PairsChange ==
  ASSUME TypeOK, NEW old \in Seq(Nodes), NEW m \in Nat \ {0}
  PROVE  LET N == 1..Len(heap) + m
             new == Len(heap) + 1
         IN /\ <<>> \in Seq(1..Len(heap)) /\ NewPairs(<<>>, old)
            /\ <<new>> \in Seq(N) /\ NewPairs(<<new>>, old)
            /\ Append(old, new) \in Seq(N) /\ NewPairs(Append(old, new), old)
            /\ old # <<>> => /\ [old EXCEPT ![1] = new] \in Seq(N)
                             /\ NewPairs([old EXCEPT ![1] = new], old)
<1>. DEFINE N == 1..Len(heap) + m
            new == Len(heap) + 1
<1>1. /\ Len(heap) \in Nat /\ new \in N /\ Nodes \subseteq N
      /\ \A n \in Nodes : n # new
  BY DEF TypeOK, Nodes
<1>. HIDE DEF N, new
<1>2. /\ Len(old) \in Nat /\ DOMAIN old = 1..Len(old)
      /\ \A i \in DOMAIN old : old[i] \in Nodes
      /\ old \in [1..Len(old) -> N]
      /\ old \in Seq(N)
  BY <1>1, SeqMore
<1>3. <<>> \in Seq(1..Len(heap)) /\ NewPairs(<<>>, old) BY DEF NewPairs
<1>4. <<new>> \in Seq(N) /\ NewPairs(<<new>>, old)
  <2>1. DOMAIN <<new>> = {1} /\ <<new>>[1] = new OBVIOUS
  <2>. QED BY <1>1, <2>1 DEF NewPairs, new
<1>5. Append(old, new) \in Seq(N) /\ NewPairs(Append(old, new), old)
  <2>. DEFINE a == Append(old, new)
  <2>1. a \in Seq(N) BY <1>1, <1>2
  <2>2. /\ DOMAIN a = 1..Len(old) + 1 /\ a[Len(old) + 1] = new
        /\ \A i \in 1..Len(old) : a[i] = old[i]
    BY <1>2
  <2>. HIDE DEF a
  <2>3. \A i \in DOMAIN a : i \in DOMAIN old \/ i = Len(old) + 1
    BY <1>2, <2>2
  <2>4. \A i \in DOMAIN a : \/ a[i] = new /\ i = Len(old) + 1
                            \/ i \in DOMAIN old /\ a[i] = old[i]
    BY <1>2, <2>2, <2>3
  <2>5. NewPairs(a, old) BY <1>1, <1>2, <2>4 DEF NewPairs, new
  <2>. QED BY <2>1, <2>5 DEF a
<1>6. ASSUME old # <<>>
      PROVE  /\ [old EXCEPT ![1] = new] \in Seq(N)
             /\ NewPairs([old EXCEPT ![1] = new], old)
  <2>. DEFINE e == [old EXCEPT ![1] = new]
  <2>1. e \in [1..Len(old) -> N] BY <1>1, <1>2
  <2>2. \A i \in 1..Len(old) : e[i] = IF i = 1 THEN new ELSE old[i] BY <1>2
  <2>. HIDE DEF e
  <2>3. e \in Seq(N) /\ DOMAIN e = 1..Len(old) BY <1>2, <2>1, FunctionIsSeq
  <2>4. \A i \in DOMAIN e : \/ e[i] = new /\ i = 1
                            \/ i \in DOMAIN old /\ e[i] = old[i]
    BY <1>2, <2>2, <2>3
  <2>5. NewPairs(e, old) BY <1>1, <1>2, <2>4 DEF NewPairs, new
  <2>. QED BY <2>3, <2>5 DEF e
<1>. QED BY <1>3, <1>4, <1>5, <1>6 DEF N, new

(* Where a call is. *)
LEMMA CallKey ==
  ASSUME TypeOK, call # Idle
  PROVE  /\ call.at \in Nodes /\ call.ref \in Nodes /\ key \in Names
         /\ call.i \in DOMAIN call.fields
         /\ atLast => key = Last(call.fields)
         /\ ~atLast => call.i + 1 \in DOMAIN call.fields
<1>1. /\ call.at \in Nodes /\ call.ref \in Nodes
      /\ call.fields \in FieldPaths /\ call.i \in DOMAIN call.fields
  BY DEF TypeOK, CallOK
<1>2. PICK n \in 1..MaxFields : call.fields \in [1..n -> Names]
  BY <1>1 DEF FieldPaths, PathsUpTo
<1>3. n \in Nat BY <1>2, BoundsAssumption
<1>4. Len(call.fields) = n /\ DOMAIN call.fields = 1..n
  BY <1>2, <1>3, FunctionIsSeq
<1>5. Last(call.fields) = call.fields[n] BY <1>4 DEF Last
<1>6. ~atLast => call.i + 1 \in 1..n BY <1>1, <1>3, <1>4 DEF atLast
<1>. QED BY <1>1, <1>2, <1>4, <1>5, <1>6 DEF key, atLast

\* The pairs of a node with one name are pairs of nodes.
LEMMA FieldsOfNodes ==
  ASSUME TypeOK, NEW n \in Nodes, NEW k \in Names
  PROVE  /\ heap[n].fields[k] \in Seq(Nodes)
         /\ Has(n, k) => First(n, k) \in Nodes /\ First(n, k) = heap[n].fields[k][1]
                         /\ 1 \in DOMAIN heap[n].fields[k]
<1>1. heap[n] \in NodeIn(Nodes) BY DEF TypeOK, Nodes
<1>2. heap[n].fields[k] \in Seq(Nodes) BY <1>1 DEF NodeIn
<1>. QED BY <1>2 DEF Has, First

(* The steps that change nodes. *)
LEMMA MakeMapChanges ==
  ASSUME TypeOK, MakeMap
  PROVE  Changes(<<MapNode>>, call.at, key, <<Len(heap) + 1>>)
<1>1. call # Idle BY DEF MakeMap, Idle
<1>2. /\ call.at \in Nodes /\ key \in Names
      /\ heap[call.at].fields[key] \in Seq(Nodes)
  BY <1>1, CallKey, FieldsOfNodes
<1>3. NewPairs(<<Len(heap) + 1>>, heap[call.at].fields[key])
      /\ <<Len(heap) + 1>> \in Seq(1..Len(heap) + 1)
  <2>. DEFINE m == 1
  <2>1. m \in Nat \ {0} OBVIOUS
  <2>. HIDE DEF m
  <2>2. NewPairs(<<Len(heap) + 1>>, heap[call.at].fields[key])
        /\ <<Len(heap) + 1>> \in Seq(1..Len(heap) + m)
    BY <1>2, <2>1, PairsChange
  <2>. QED BY <2>2 DEF m
<1>4. Len(<<MapNode>>) = 1 OBVIOUS
<1>. QED BY <1>2, <1>3, <1>4, EmptyNewNodes DEF MakeMap, Changes

LEMMA UpsertMapChanges ==
  ASSUME TypeOK, NEW r \in Nodes, NEW k \in Names, UpsertMap(r, k), ~HasMap(r, k)
  PROVE  Changes(<<MapNode>>, r, k, Append(heap[r].fields[k], Len(heap) + 1))
<1>1. heap[r].fields[k] \in Seq(Nodes) BY FieldsOfNodes
<1>. DEFINE pairs == Append(heap[r].fields[k], Len(heap) + 1)
<1>2. NewPairs(pairs, heap[r].fields[k]) /\ pairs \in Seq(1..Len(heap) + 1)
  <2>. DEFINE m == 1
  <2>1. m \in Nat \ {0} OBVIOUS
  <2>. HIDE DEF m
  <2>2. NewPairs(pairs, heap[r].fields[k]) /\ pairs \in Seq(1..Len(heap) + m)
    BY <1>1, <2>1, PairsChange
  <2>. QED BY <2>2 DEF m
<1>3. Len(<<MapNode>>) = 1 OBVIOUS
<1>. QED BY <1>2, <1>3, EmptyNewNodes DEF UpsertMap, Changes

LEMMA SetValueChanges ==
  ASSUME TypeOK, SetValue
  PROVE  /\ call.val \in Values
         /\ Changes(NodesOf(call.val, Len(heap)), call.at, key,
                    IF Has(call.at, key)
                    THEN [heap[call.at].fields[key] EXCEPT ![1] = Len(heap) + 1]
                    ELSE <<Len(heap) + 1>>)
<1>1. call # Idle BY DEF SetValue, Idle
<1>2. /\ call.at \in Nodes /\ key \in Names
      /\ heap[call.at].fields[key] \in Seq(Nodes)
  BY <1>1, CallKey, FieldsOfNodes
<1>3. call.val \in Values BY DEF TypeOK, CallOK, Values
<1>. DEFINE nodes == NodesOf(call.val, Len(heap))
            pairs == IF Has(call.at, key)
                     THEN [heap[call.at].fields[key] EXCEPT ![1] = Len(heap) + 1]
                     ELSE <<Len(heap) + 1>>
<1>4. NewNodes(nodes) /\ 1 \in DOMAIN nodes BY <1>3, ValueNewNodes
<1>. HIDE DEF nodes
<1>5. Len(nodes) \in Nat \ {0} BY <1>4 DEF NewNodes
<1>6. NewPairs(pairs, heap[call.at].fields[key])
      /\ pairs \in Seq(1..Len(heap) + Len(nodes))
  BY <1>2, <1>5, PairsChange DEF Has
<1>7. heap' = Updated(nodes, call.at, key, pairs) BY DEF SetValue, nodes
<1>. QED BY <1>2, <1>3, <1>4, <1>6, <1>7 DEF Changes, nodes

LEMMA RemoveFieldChanges ==
  ASSUME TypeOK, RemoveField
  PROVE  Changes(<<>>, call.at, key, <<>>)
<1>1. call # Idle BY DEF RemoveField, Idle
<1>2. /\ call.at \in Nodes /\ key \in Names
      /\ heap[call.at].fields[key] \in Seq(Nodes)
  BY <1>1, CallKey, FieldsOfNodes
<1>3. NewPairs(<<>>, heap[call.at].fields[key]) /\ <<>> \in Seq(1..Len(heap))
  BY <1>2, PairsChange DEF NewPairs
<1>4. Len(heap) + Len(<<>>) = Len(heap) BY DEF TypeOK
<1>. QED BY <1>2, <1>3, <1>4, EmptyNewNodes DEF RemoveField, Changes

-----------------------------------------------------------------------------
(* The inductive invariant. *)

(* After a change, a pair's value was there before, or is the first new    *)
(* node, or is the new node next to the one the pair is in.                *)
LEMMA ChangedField ==
  ASSUME TypeOK, NEW nodes, NEW n, NEW k, NEW pairs, Changes(nodes, n, k, pairs),
         NEW m \in Nodes', NEW l \in Names, NEW i \in DOMAIN heap'[m].fields[l]
  PROVE  LET v == heap'[m].fields[l][i]
         IN \/ /\ m \in Nodes /\ i \in DOMAIN heap[m].fields[l]
               /\ v = heap[m].fields[l][i] /\ v \in 1..Len(heap)
            \/ /\ m = n /\ l = k /\ i \in DOMAIN pairs /\ pairs[i] = Len(heap) + 1
               /\ v = Len(heap) + 1
               /\ nodes # <<>> /\ heap'[Len(heap) + 1] = nodes[1]
            \/ /\ i = 1 /\ v = m + 1
               /\ \E j \in DOMAIN nodes :
                    m = Len(heap) + j /\ nodes[j].fields[l] # <<>>
<1>. DEFINE v == heap'[m].fields[l][i]
<1>1. /\ \A o \in Nodes, j \in Names : heap'[o].fields[j] =
            IF o = n /\ j = k THEN pairs ELSE heap[o].fields[j]
      /\ \A j \in DOMAIN nodes : heap'[Len(heap) + j] = nodes[j]
      /\ m \in Nodes \/ \E j \in DOMAIN nodes : m = Len(heap) + j
      /\ Len(heap) \in Nat /\ Nodes = 1..Len(heap)
  BY ChangedHeap DEF Nodes
<1>2. CASE m \in Nodes /\ ~(m = n /\ l = k)
  <2>1. heap'[m].fields[l] = heap[m].fields[l] BY <1>1, <1>2
  <2>2. heap[m].fields[l] \in Seq(Nodes) BY <1>2, FieldsOfNodes
  <2>. QED BY <1>1, <1>2, <2>1, <2>2
<1>3. CASE m \in Nodes /\ m = n /\ l = k
  <2>1. heap'[m].fields[l] = pairs BY <1>1, <1>3
  <2>2. heap[m].fields[l] \in Seq(Nodes) BY <1>3, FieldsOfNodes
  <2>3. \/ pairs[i] = Len(heap) + 1
        \/ i \in DOMAIN heap[m].fields[l] /\ pairs[i] = heap[m].fields[l][i]
    BY <1>3, <2>1 DEF Changes, NewPairs
  <2>4. CASE pairs[i] = Len(heap) + 1
    <3>1. pairs[i] \in 1..Len(heap) + Len(nodes) BY <2>1 DEF Changes
    <3>2. /\ Len(nodes) \in Nat /\ DOMAIN nodes = 1..Len(nodes)
          /\ <<>> = nodes => Len(nodes) = 0
      BY DEF Changes, NewNodes
    <3>3. 1 \in DOMAIN nodes /\ nodes # <<>> BY <1>1, <2>4, <3>1, <3>2
    <3>. QED BY <1>1, <1>3, <2>1, <2>4, <3>3
  <2>5. CASE i \in DOMAIN heap[m].fields[l] /\ pairs[i] = heap[m].fields[l][i]
    BY <1>1, <1>3, <2>1, <2>2, <2>5
  <2>. QED BY <2>3, <2>4, <2>5
<1>4. ASSUME NEW j \in DOMAIN nodes, m = Len(heap) + j
      PROVE  i = 1 /\ v = m + 1 /\ nodes[j].fields[l] # <<>>
  <2>1. heap'[m] = nodes[j] /\ i \in DOMAIN nodes[j].fields[l] BY <1>1, <1>4
  <2>2. i = 1 /\ nodes[j].fields[l][i] = Len(heap) + j + 1
    BY <2>1 DEF Changes, NewNodes
  <2>3. nodes[j].fields[l] # <<>> BY <2>1
  <2>. QED BY <1>4, <2>1, <2>2, <2>3
<1>. QED BY <1>1, <1>2, <1>3, <1>4

(* A change leaves every node in one place. *)
LEMMA ChangeOnePlace ==
  ASSUME TypeOK, OnePlace,
         NEW nodes, NEW n, NEW k, NEW pairs, Changes(nodes, n, k, pairs)
  PROVE  OnePlace'
<1>. SUFFICES ASSUME NEW a \in Nodes', NEW b \in Nodes',
                     NEW j \in Names, NEW l \in Names,
                     NEW x \in DOMAIN heap'[a].fields[j],
                     NEW y \in DOMAIN heap'[b].fields[l],
                     heap'[a].fields[j][x] = heap'[b].fields[l][y]
              PROVE  a = b /\ j = l /\ x = y
  BY DEF OnePlace
<1>. DEFINE Old(m, o, i) == /\ m \in Nodes /\ i \in DOMAIN heap[m].fields[o]
                            /\ heap'[m].fields[o][i] = heap[m].fields[o][i]
                            /\ heap'[m].fields[o][i] \in 1..Len(heap)
            New(m, o, i) == /\ m = n /\ o = k /\ i \in DOMAIN pairs
                            /\ pairs[i] = Len(heap) + 1
                            /\ heap'[m].fields[o][i] = Len(heap) + 1
            Inner(m, o, i) == /\ i = 1 /\ heap'[m].fields[o][i] = m + 1
                              /\ \E e \in DOMAIN nodes :
                                   m = Len(heap) + e /\ nodes[e].fields[o] # <<>>
<1>1. Old(a, j, x) \/ New(a, j, x) \/ Inner(a, j, x) BY ChangedField
<1>2. Old(b, l, y) \/ New(b, l, y) \/ Inner(b, l, y) BY ChangedField
<1>3. Len(heap) \in Nat /\ DOMAIN nodes \subseteq Nat \ {0}
  BY DEF TypeOK, Changes, NewNodes
<1>4. CASE Old(a, j, x) /\ Old(b, l, y)
  <2>1. /\ a \in Nodes /\ x \in DOMAIN heap[a].fields[j]
        /\ b \in Nodes /\ y \in DOMAIN heap[b].fields[l]
        /\ heap[a].fields[j][x] = heap[b].fields[l][y]
    BY <1>4
  <2>2. \A o, m \in Nodes, p, q \in Names :
          \A e \in DOMAIN heap[o].fields[p], f \in DOMAIN heap[m].fields[q] :
            heap[o].fields[p][e] = heap[m].fields[q][f] => o = m /\ p = q /\ e = f
    BY DEF OnePlace
  <2>. HIDE DEF Old, New, Inner
  <2>. QED BY <2>1, <2>2
<1>5. CASE New(a, j, x) /\ New(b, l, y) BY <1>5 DEF Changes, NewPairs
<1>6. CASE Inner(a, j, x) /\ Inner(b, l, y)
  <2>1. PICK e \in DOMAIN nodes : a = Len(heap) + e /\ nodes[e].fields[j] # <<>>
    BY <1>6
  <2>2. PICK f \in DOMAIN nodes : b = Len(heap) + f /\ nodes[f].fields[l] # <<>>
    BY <1>6
  <2>3. e = f BY <1>3, <1>6, <2>1, <2>2
  <2>4. j = l BY <2>1, <2>2, <2>3 DEF Changes, NewNodes
  <2>. QED BY <1>6, <2>1, <2>2, <2>3, <2>4
<1>7. ASSUME NEW m, NEW o, NEW i, Inner(m, o, i)
      PROVE  ~(heap'[m].fields[o][i] \in 1..Len(heap) + 1)
  BY <1>3, <1>7
<1>8. ASSUME NEW m, NEW o, NEW i, Old(m, o, i) \/ New(m, o, i)
      PROVE  /\ heap'[m].fields[o][i] \in 1..Len(heap) + 1
             /\ Old(m, o, i) <=> heap'[m].fields[o][i] # Len(heap) + 1
  BY <1>3, <1>8
<1>. HIDE DEF Old, New, Inner
<1>. QED BY <1>1, <1>2, <1>4, <1>5, <1>6, <1>7, <1>8

(* The pairs of a node after a change. *)
LEMMA ChangedFields ==
  ASSUME TypeOK, NEW nodes, NEW n, NEW k, NEW pairs, Changes(nodes, n, k, pairs),
         NEW m \in Nodes', NEW l \in Names, NEW v \in Range(heap'[m].fields[l])
  PROVE  /\ v \in Nodes'
         /\ \/ m \in Nodes /\ v \in Range(heap[m].fields[l]) /\ v \in Nodes
            \/ /\ m = n /\ l = k /\ v = Len(heap) + 1
               /\ nodes # <<>> /\ heap'[Len(heap) + 1] = nodes[1]
            \/ /\ v = m + 1
               /\ \E j \in DOMAIN nodes :
                    m = Len(heap) + j /\ nodes[j].fields[l] # <<>>
<1>1. heap'[m] \in NodeIn(Nodes') BY ChangedHeap DEF Nodes
<1>2. heap'[m].fields[l] \in Seq(Nodes') BY <1>1 DEF NodeIn
<1>3. PICK i \in DOMAIN heap'[m].fields[l] : v = heap'[m].fields[l][i]
  BY DEF Range
<1>4. v \in Nodes' BY <1>2, <1>3
<1>. DEFINE w == heap'[m].fields[l][i]
            Old == /\ m \in Nodes /\ i \in DOMAIN heap[m].fields[l]
                   /\ w = heap[m].fields[l][i] /\ w \in 1..Len(heap)
            New == /\ m = n /\ l = k /\ i \in DOMAIN pairs
                   /\ pairs[i] = Len(heap) + 1
                   /\ w = Len(heap) + 1
                   /\ nodes # <<>> /\ heap'[Len(heap) + 1] = nodes[1]
            Inner == /\ i = 1 /\ w = m + 1
                     /\ \E j \in DOMAIN nodes :
                          m = Len(heap) + j /\ nodes[j].fields[l] # <<>>
<1>5. Old \/ New \/ Inner BY ChangedField
<1>6. w = v BY <1>3
<1>. QED BY <1>4, <1>5, <1>6 DEF Range, Nodes

(* A change leaves the root a map in no other. *)
LEMMA ChangeRootOnTop ==
  ASSUME TypeOK, RootOnTop,
         NEW nodes, NEW n, NEW k, NEW pairs, Changes(nodes, n, k, pairs)
  PROVE  RootOnTop'
<1>1. /\ Len(heap) \in Nat /\ Nodes = 1..Len(heap) /\ 1 \in Nodes
  BY DEF TypeOK, Nodes
<1>2. heap'[1].kind = "map" BY <1>1, ChangedHeap DEF RootOnTop
<1>3. ASSUME NEW m \in Nodes', NEW l \in Names, 1 \in Range(heap'[m].fields[l])
      PROVE  FALSE
  <2>1. \/ m \in Nodes /\ 1 \in Range(heap[m].fields[l])
        \/ 1 = Len(heap) + 1
        \/ \E j \in DOMAIN nodes : 1 = Len(heap) + j + 1
    BY <1>3, ChangedFields
  <2>2. DOMAIN nodes \subseteq Nat \ {0} BY DEF Changes, NewNodes
  <2>. QED BY <1>1, <2>1, <2>2 DEF RootOnTop
<1>4. ASSUME NEW m \in Nodes', heap'[m].kind = "map"
      PROVE  heap'[m].value = NoString
  <2>1. CASE m \in Nodes BY <1>4, <2>1, ChangedHeap DEF RootOnTop
  <2>2. ASSUME NEW j \in DOMAIN nodes, m = Len(heap) + j
        PROVE  heap'[m].value = NoString
    <3>1. heap'[m] = nodes[j] BY <2>2, ChangedHeap
    <3>. QED BY <1>4, <3>1 DEF Changes, NewNodes
  <2>. QED BY <2>1, <2>2, ChangedHeap
<1>. QED BY <1>2, <1>3, <1>4 DEF RootOnTop

(* What a step does to the nodes. *)
LEMMA HeapSteps ==
  ASSUME TypeOK, [Next]_vars
  PROVE  \/ UNCHANGED heap
         \/ \E nodes, n, k, pairs : Changes(nodes, n, k, pairs)
<1>1. CASE Descend \/ FoundSubObject \/ GiveUp
  BY <1>1 DEF Descend, FoundSubObject, GiveUp
<1>2. CASE MakeMap BY <1>2, MakeMapChanges
<1>3. CASE SetValue BY <1>3, SetValueChanges
<1>4. CASE RemoveField BY <1>4, RemoveFieldChanges
<1>5. ASSUME NEW r \in held, NEW k \in Names, UpsertMap(r, k)
      PROVE  UNCHANGED heap \/ \E nodes, n, l, pairs : Changes(nodes, n, l, pairs)
  <2>1. r \in Nodes BY DEF TypeOK
  <2>2. CASE HasMap(r, k) BY <1>5, <2>2 DEF UpsertMap
  <2>3. CASE ~HasMap(r, k) BY <1>5, <2>1, <2>3, UpsertMapChanges
  <2>. QED BY <2>2, <2>3
<1>6. ASSUME NEW r \in held, NEW k \in Names, GetMap(r, k) \/ GetSlice(r, k)
      PROVE  UNCHANGED heap
  BY <1>6 DEF GetMap, GetSlice
<1>7. ASSUME NEW op, NEW r, NEW fields, NEW val, Call(op, r, fields, val)
      PROVE  UNCHANGED heap
  BY <1>7 DEF Call
<1>8. CASE UNCHANGED vars BY <1>8 DEF vars
<1>. QED
  BY <1>1, <1>2, <1>3, <1>4, <1>5, <1>6, <1>7, <1>8
  DEF Next, Function, Library, SetNestedField, SetSlice, RemoveNestedField,
      RemoveAnnotationsIfEmpty, NestedSubObject

(* There are more and more nodes. *)
LEMMA NodesGrow ==
  ASSUME TypeOK, [Next]_vars
  PROVE  /\ heap' \in Seq(NodeIn(Nodes')) /\ Nodes \subseteq Nodes'
         /\ Nodes' # {}
<1>1. CASE UNCHANGED heap BY <1>1 DEF TypeOK, Nodes
<1>2. CASE \E nodes, n, k, pairs : Changes(nodes, n, k, pairs)
  BY <1>2, ChangedHeap DEF TypeOK
<1>. QED BY <1>1, <1>2, HeapSteps

(* A call that is well formed is so when there are more nodes. *)
LEMMA CallGrows ==
  ASSUME TypeOK, Nodes \subseteq Nodes', NEW c, CallOK(c)
  PROVE  CallOK(c)'
<1>1. \A s \in Seq(Nodes) : s \in Seq(Nodes') BY SeqMore
<1>2. Values \subseteq Values' BY <1>1 DEF Values
<1>. QED BY <1>2 DEF CallOK

(* The record of a call that goes further has the same fields and value. *)
LEMMA FurtherRecord ==
  ASSUME NEW O, NEW N, NEW P, NEW V,
         NEW c \in [op : O, ref : N, fields : P, val : V, at : N, i : Nat],
         NEW n \in N, NEW j \in Nat
  PROVE  LET d == [c EXCEPT !.at = n, !.i = j]
         IN /\ d \in [op : O, ref : N, fields : P, val : V, at : N, i : Nat]
            /\ d.fields = c.fields /\ d.val = c.val /\ d.i = j
OBVIOUS

(* A call that goes one field further remains well formed. *)
LEMMA CallGoesOn ==
  ASSUME TypeOK, Nodes \subseteq Nodes', NEW c, CallOK(c), c # Idle,
         c.i + 1 \in DOMAIN c.fields,
         NEW n \in Nodes'
  PROVE  CallOK([c EXCEPT !.at = n, !.i = @ + 1])'
<1>. DEFINE d == [c EXCEPT !.at = n, !.i = @ + 1]
            R(N, V) == [op : {"none", "set", "remove", "sub"}, ref : N,
                        fields : FieldPaths \cup {<<>>},
                        val : V, at : N, i : Nat]
<1>1. c \in R(Nodes', Values') BY CallGrows DEF CallOK
<1>2. c.i + 1 \in Nat BY <1>1
<1>3. /\ d \in R(Nodes', Values') /\ d.fields = c.fields /\ d.val = c.val
      /\ d.i = c.i + 1
  BY <1>1, <1>2, FurtherRecord
<1>. HIDE DEF d
<1>4. CallOK(d)' BY <1>1, <1>3 DEF CallOK
<1>. QED BY <1>4 DEF d

(* The records of calls are well formed. *)
LEMMA NewCalls ==
  ASSUME TypeOK
  PROVE  /\ CallOK(Idle) /\ Nothing \in Values /\ 1 \in Nodes
         /\ \A op \in {"set", "remove", "sub"}, r \in Nodes, fields \in FieldPaths :
              \A val \in Values : val = Nothing \/ val.kind \in Settable =>
                CallOK([op |-> op, ref |-> r, fields |-> fields, val |-> val,
                        at |-> r, i |-> 1])
<1>1. 1 \in Nodes
  <2>1. Len(heap) \in Nat /\ Nodes = 1..Len(heap) /\ Nodes # {}
    BY DEF TypeOK, Nodes
  <2>. QED BY <2>1
<1>2. Nothing \in Values
  BY DEF Nothing, Value, Values, HasPath, Kinds, Leaves
<1>3. CallOK(Idle) BY <1>1, <1>2 DEF CallOK, Idle
<1>4. \A fields \in FieldPaths : 1 \in DOMAIN fields
  BY BoundsAssumption DEF FieldPaths, PathsUpTo
<1>5. ASSUME NEW op \in {"set", "remove", "sub"}, NEW r \in Nodes,
             NEW fields \in FieldPaths, NEW val \in Values,
             val = Nothing \/ val.kind \in Settable
      PROVE  CallOK([op |-> op, ref |-> r, fields |-> fields, val |-> val,
                     at |-> r, i |-> 1])
  BY <1>4, <1>5 DEF CallOK
<1>. QED BY <1>1, <1>2, <1>3, <1>5

(* Every step keeps the types. *)
LEMMA StepType == TypeOK /\ [Next]_vars => TypeOK'
<1>. SUFFICES ASSUME TypeOK, [Next]_vars PROVE TypeOK' OBVIOUS
<1>1. /\ heap' \in Seq(NodeIn(Nodes')) /\ Nodes \subseteq Nodes' /\ Nodes' # {}
      /\ held \subseteq Nodes
  BY NodesGrow DEF TypeOK
<1>2. SUFFICES held' \subseteq Nodes' /\ CallOK(call)' BY <1>1 DEF TypeOK
<1>3. CallOK(Idle)' /\ CallOK(call) BY <1>1, CallGrows, NewCalls DEF TypeOK
<1>4. ASSUME Return PROVE held' \subseteq Nodes' /\ CallOK(call)'
  BY <1>1, <1>3, <1>4 DEF Return
<1>5. ASSUME NEW nodes \in SUBSET Nodes', ReturnSubObjects(nodes)
      PROVE  held' \subseteq Nodes' /\ CallOK(call)'
  BY <1>1, <1>3, <1>5 DEF ReturnSubObjects
<1>6. ASSUME NEW op \in {"set", "remove", "sub"}, NEW r \in Nodes,
             NEW fields \in FieldPaths, NEW val \in Values,
             val = Nothing \/ val.kind \in Settable,
             Call(op, r, fields, val)
      PROVE  held' \subseteq Nodes' /\ CallOK(call)'
  <2>1. CallOK([op |-> op, ref |-> r, fields |-> fields, val |-> val,
                at |-> r, i |-> 1])
    BY <1>6, NewCalls
  <2>. DEFINE c == [op |-> op, ref |-> r, fields |-> fields, val |-> val,
                    at |-> r, i |-> 1]
  <2>2. CallOK(c)' BY <1>1, <2>1, CallGrows
  <2>3. call' = c BY <1>6 DEF Call
  <2>. HIDE DEF c
  <2>. QED BY <1>1, <1>6, <2>2, <2>3 DEF Call, CallOK
<1>7. ASSUME NEW r \in held, NEW fields \in FieldPaths, NEW val \in FieldValues,
             SetNestedField(r, fields, val)
      PROVE  held' \subseteq Nodes' /\ CallOK(call)'
  <2>1. val \in Values
    <3>1. \A s \in Strings : Value("string", <<>>, s, <<>>) \in Values
      BY DEF Value, Values, HasPath, Kinds, Leaves
    <3>2. /\ Nothing \in Values
          /\ Value("slice", <<>>, NoString, <<>>) \in Values
      BY NewCalls DEF Value, Values, HasPath, Kinds, Leaves
    <3>3. ASSUME NEW kind \in {"map", "struct"}, NEW path \in PathsUpTo(MaxLevels),
                 NEW s \in Strings
          PROVE  Value(kind, path, s, <<>>) \in Values
      <4>1. path # <<>> BY BoundsAssumption DEF PathsUpTo
      <4>. QED BY <4>1 DEF Value, Values, HasPath, Kinds, Leaves
    <3>. QED BY <3>1, <3>2, <3>3 DEF FieldValues
  <2>. QED BY <1>1, <1>6, <1>7, <2>1 DEF SetNestedField
<1>8. ASSUME NEW r \in held, NEW fields \in FieldPaths,
             RemoveNestedField(r, fields) \/ NestedSubObject(r, fields)
      PROVE  held' \subseteq Nodes' /\ CallOK(call)'
  BY <1>1, <1>6, <1>8, NewCalls DEF RemoveNestedField, NestedSubObject
<1>9. /\ \A k \in Names : <<k>> \in FieldPaths
      /\ <<Metadata, Annotations>> \in FieldPaths
  <2>1. 1 \in 1..MaxFields /\ 2 \in 1..MaxFields BY BoundsAssumption
  <2>2. \A k \in Names : <<k>> \in [1..1 -> Names] OBVIOUS
  <2>3. <<Metadata, Annotations>> \in [1..2 -> Names] BY NamesAssumption
  <2>. QED BY <2>1, <2>2, <2>3 DEF FieldPaths, PathsUpTo
<1>10. ASSUME NEW r \in held, NEW element \in held, NEW k \in Names,
              SetSlice(r, k, element)
       PROVE  held' \subseteq Nodes' /\ CallOK(call)'
  <2>. DEFINE val == Value("slice", <<>>, NoString, <<element>>)
  <2>1. val \in Values
    <3>1. <<element>> \in Seq(Nodes) BY <1>1
    <3>. QED BY <3>1 DEF Value, Values, HasPath, Kinds, Leaves
  <2>2. val.kind = "slice" BY DEF Value
  <2>. HIDE DEF val
  <2>3. Call("set", r, <<k>>, val) /\ val.kind \in Settable
    BY <1>10, <2>2 DEF SetSlice, val
  <2>. QED BY <1>1, <1>6, <1>9, <2>1, <2>3
<1>11. CASE RemoveAnnotationsIfEmpty
  <2>1. /\ <<Metadata, Annotations>> \in FieldPaths
        /\ 1 \in Nodes
    BY <1>9, NewCalls
  <2>2. Call("remove", 1, <<Metadata, Annotations>>, Nothing)
    BY <1>11 DEF RemoveAnnotationsIfEmpty, RemoveNestedField
  <2>. QED BY <1>6, <2>1, <2>2, NewCalls
<1>12. ASSUME NEW r \in held, NEW k \in Names, UpsertMap(r, k)
       PROVE  held' \subseteq Nodes' /\ CallOK(call)'
  <2>1. CASE HasMap(r, k)
    <3>1. First(r, k) \in Nodes BY <1>1, <2>1, FieldsOfNodes DEF HasMap
    <3>. QED BY <1>1, <1>5, <1>12, <2>1, <3>1 DEF UpsertMap
  <2>2. CASE ~HasMap(r, k)
    <3>1. Changes(<<MapNode>>, r, k, Append(heap[r].fields[k], Len(heap) + 1))
      BY <1>1, <1>12, <2>2, UpsertMapChanges
    <3>2. Len(heap') = Len(heap) + Len(<<MapNode>>) BY <3>1, ChangedHeap
    <3>3. Len(heap) \in Nat /\ Len(<<MapNode>>) = 1 BY DEF TypeOK
    <3>4. Len(heap) + 1 \in Nodes' BY <3>2, <3>3 DEF Nodes
    <3>. QED BY <1>5, <1>12, <2>2, <3>4 DEF UpsertMap
  <2>. QED BY <2>1, <2>2
<1>13. ASSUME NEW r \in held, NEW k \in Names, GetMap(r, k)
       PROVE  held' \subseteq Nodes' /\ CallOK(call)'
  <2>1. First(r, k) \in Nodes BY <1>1, <1>13, FieldsOfNodes DEF GetMap
  <2>. QED BY <1>1, <1>5, <1>13, <2>1 DEF GetMap
<1>14. ASSUME NEW r \in held, NEW k \in Names, GetSlice(r, k)
       PROVE  held' \subseteq Nodes' /\ CallOK(call)'
  <2>1. First(r, k) \in Nodes BY <1>1, <1>14, FieldsOfNodes DEF GetSlice
  <2>2. heap[First(r, k)] \in NodeIn(Nodes) BY <2>1 DEF TypeOK, Nodes
  <2>3. Range(heap[First(r, k)].items) \subseteq Nodes
    BY <2>2 DEF NodeIn, Range
  <2>. QED BY <1>1, <1>5, <1>14, <2>3 DEF GetSlice
<1>15. CASE Descend
  <2>1. call # Idle /\ ~atLast /\ HasMap(call.at, key) BY <1>15 DEF Descend
  <2>2. /\ call.at \in Nodes /\ key \in Names
        /\ call.i + 1 \in DOMAIN call.fields
    BY <2>1, CallKey
  <2>3. First(call.at, key) \in Nodes BY <2>1, <2>2, FieldsOfNodes DEF HasMap
  <2>4. call' = [call EXCEPT !.at = First(call.at, key), !.i = @ + 1]
    BY <1>15 DEF Descend
  <2>5. CallOK(call)' BY <1>1, <1>3, <2>1, <2>2, <2>3, <2>4, CallGoesOn
  <2>. QED BY <1>1, <1>15, <2>5 DEF Descend
<1>16. CASE MakeMap
  <2>1. call # Idle /\ ~atLast BY <1>16 DEF MakeMap, Idle
  <2>2. call.i + 1 \in DOMAIN call.fields BY <2>1, CallKey
  <2>3. Changes(<<MapNode>>, call.at, key, <<Len(heap) + 1>>)
    BY <1>16, MakeMapChanges
  <2>4. Len(heap') = Len(heap) + Len(<<MapNode>>) BY <2>3, ChangedHeap
  <2>5. Len(heap) + 1 \in Nodes' BY <2>4 DEF TypeOK, Nodes
  <2>6. CallOK(call)' /\ held' = held
    BY <1>1, <1>3, <1>16, <2>1, <2>2, <2>5, CallGoesOn DEF MakeMap
  <2>. QED BY <1>1, <2>6
<1>17. CASE SetValue \/ RemoveField \/ GiveUp
  BY <1>4, <1>17 DEF SetValue, RemoveField, GiveUp
<1>18. CASE FoundSubObject
  <2>1. call # Idle /\ HasMap(call.at, key)
    BY <1>18 DEF FoundSubObject, Idle
  <2>2. First(call.at, key) \in Nodes
    BY <2>1, CallKey, FieldsOfNodes DEF HasMap
  <2>. QED BY <1>1, <1>5, <1>18, <2>2 DEF FoundSubObject
<1>19. CASE UNCHANGED vars
  BY <1>1, <1>3, <1>19, CallGrows DEF vars
<1>. QED
  BY <1>7, <1>8, <1>10, <1>11, <1>12, <1>13, <1>14, <1>15, <1>16, <1>17,
     <1>18, <1>19
  DEF Next, Function, Library

(* Every step leaves every node in one place. *)
LEMMA StepOnePlace == TypeOK /\ OnePlace /\ [Next]_vars => OnePlace'
<1>. SUFFICES ASSUME TypeOK, OnePlace, [Next]_vars PROVE OnePlace' OBVIOUS
<1>1. CASE UNCHANGED heap BY <1>1 DEF OnePlace, Nodes
<1>2. CASE \E nodes, n, k, pairs : Changes(nodes, n, k, pairs)
  BY <1>2, ChangeOnePlace
<1>. QED BY <1>1, <1>2, HeapSteps

(* Every step leaves the root where it is. *)
LEMMA StepRootOnTop == TypeOK /\ RootOnTop /\ [Next]_vars => RootOnTop'
<1>. SUFFICES ASSUME TypeOK, RootOnTop, [Next]_vars PROVE RootOnTop' OBVIOUS
<1>1. CASE UNCHANGED heap BY <1>1 DEF RootOnTop, Nodes
<1>2. CASE \E nodes, n, k, pairs : Changes(nodes, n, k, pairs)
  BY <1>2, ChangeRootOnTop
<1>. QED BY <1>1, <1>2, HeapSteps

\* A map a call has made has no pairs.
LEMMA MadeHasNone ==
  ASSUME TypeOK, call # Idle, heap[call.at] = MapNode
  PROVE  ~Has(call.at, key)
<1>1. key \in Names BY CallKey
<1>. QED BY <1>1 DEF Has, MapNode, Node, NoFields

(* Every step keeps OnlyMade. *)
LEMMA StepOnlyMade == TypeOK /\ OnlyMade /\ [Next]_vars => OnlyMade'
<1>. SUFFICES ASSUME TypeOK, OnlyMade, [Next]_vars PROVE OnlyMade' OBVIOUS
<1>1. call = Idle \/ call.op # "set" => heap = before BY DEF OnlyMade, Idle
<1>2. ASSUME before' = heap' PROVE OnlyMade' BY <1>2 DEF OnlyMade
<1>3. ASSUME NEW op, NEW r, NEW fields, NEW val, Call(op, r, fields, val)
      PROVE  OnlyMade'
  BY <1>2, <1>3 DEF Call
<1>4. ASSUME NEW r \in held, NEW k \in Names,
             UpsertMap(r, k) \/ GetMap(r, k) \/ GetSlice(r, k)
      PROVE  OnlyMade'
  BY <1>1, <1>2, <1>4 DEF UpsertMap, GetMap, GetSlice
<1>5. CASE Descend
  <2>1. heap = before
    BY <1>5, MadeHasNone DEF Descend, HasMap, OnlyMade
  <2>. QED BY <1>2, <1>5, <2>1 DEF Descend
<1>6. CASE MakeMap
  <2>1. Changes(<<MapNode>>, call.at, key, <<Len(heap) + 1>>)
    BY <1>6, MakeMapChanges
  <2>2. 1 \in DOMAIN <<MapNode>> /\ <<MapNode>>[1] = MapNode OBVIOUS
  <2>3. heap'[Len(heap) + 1] = MapNode BY <2>1, <2>2, ChangedHeap
  <2>4. call'.op = "set" /\ call'.at = Len(heap) + 1
    BY <1>6 DEF MakeMap, TypeOK, CallOK
  <2>. QED BY <2>3, <2>4 DEF OnlyMade
<1>7. CASE SetValue \/ RemoveField \/ GiveUp
  BY <1>2, <1>7 DEF SetValue, RemoveField, GiveUp
<1>8. CASE FoundSubObject BY <1>1, <1>2, <1>8 DEF FoundSubObject
<1>9. CASE UNCHANGED vars BY <1>9 DEF vars, OnlyMade
<1>. QED
  BY <1>3, <1>4, <1>5, <1>6, <1>7, <1>8, <1>9
  DEF Next, Function, Library, SetNestedField, SetSlice, RemoveNestedField,
      RemoveAnnotationsIfEmpty, NestedSubObject

(* Every step keeps OnlyUnlocked. *)
LEMMA StepUnlocked == TypeOK /\ OnlyUnlocked /\ [Next]_vars => OnlyUnlocked'
<1>. SUFFICES ASSUME TypeOK, OnlyUnlocked, [Next]_vars PROVE OnlyUnlocked'
  OBVIOUS
<1>1. ASSUME call' = Idle PROVE OnlyUnlocked' BY <1>1 DEF OnlyUnlocked, Idle
<1>2. ASSUME NEW op, NEW r, NEW fields, NEW val, Call(op, r, fields, val),
             op = "set" => ~Locked(val, fields)
      PROVE  OnlyUnlocked'
  BY <1>2 DEF Call, OnlyUnlocked
<1>3. ASSUME NEW r \in held, NEW fields \in FieldPaths, NEW val \in FieldValues,
             SetNestedField(r, fields, val)
      PROVE  OnlyUnlocked'
  BY <1>2, <1>3 DEF SetNestedField
<1>4. ASSUME NEW r \in held, NEW element \in held, NEW k \in Names,
             SetSlice(r, k, element)
      PROVE  OnlyUnlocked'
  <2>. DEFINE val == Value("slice", <<>>, NoString, <<element>>)
  <2>1. ~Locked(val, <<k>>) BY DEF Locked, Value
  <2>. HIDE DEF val
  <2>. QED BY <1>2, <1>4, <2>1 DEF SetSlice, val
<1>5. ASSUME NEW r, NEW fields,
             RemoveNestedField(r, fields) \/ NestedSubObject(r, fields)
      PROVE  OnlyUnlocked'
  BY <1>2, <1>5 DEF RemoveNestedField, NestedSubObject
<1>6. ASSUME NEW r \in held, NEW k \in Names,
             UpsertMap(r, k) \/ GetMap(r, k) \/ GetSlice(r, k)
      PROVE  OnlyUnlocked'
  BY <1>1, <1>6 DEF UpsertMap, GetMap, GetSlice, ReturnSubObjects
<1>7. CASE Descend \/ MakeMap
  <2>1. /\ call'.op = call.op /\ call'.val = call.val
        /\ call'.fields = call.fields
    BY <1>7 DEF Descend, MakeMap, TypeOK, CallOK
  <2>. QED BY <2>1 DEF OnlyUnlocked
<1>8. CASE SetValue \/ RemoveField \/ GiveUp \/ FoundSubObject
  BY <1>1, <1>8
  DEF SetValue, RemoveField, GiveUp, FoundSubObject, Return, ReturnSubObjects
<1>9. CASE UNCHANGED vars BY <1>9 DEF vars, OnlyUnlocked
<1>. QED
  BY <1>3, <1>4, <1>5, <1>6, <1>7, <1>8, <1>9
  DEF Next, Function, Library, RemoveAnnotationsIfEmpty

(* The invariant holds of an object that no call has touched yet. *)
LEMMA InitIInv == Init => IInv
<1>. SUFFICES ASSUME Init PROVE IInv OBVIOUS
<1>. DEFINE root == MapWith(Metadata, 2)
            metadata == MapWith(Annotations, 3)
            annotations == MapWith(Identifier, 4)
            leaf == Node("string", Origin, NoFields, <<>>)
            N == 1..4
<1>1. heap = <<root, metadata, annotations, leaf>> BY DEF Init
<1>2. /\ {Metadata, Annotations, Identifier} \subseteq Names
      /\ 2 \in N /\ 3 \in N /\ 4 \in N
  BY NamesAssumption
<1>3. /\ root \in NodeIn(N) /\ metadata \in NodeIn(N)
      /\ annotations \in NodeIn(N)
      /\ \A k \in Names :
           /\ root.fields[k] = IF k = Metadata THEN <<2>> ELSE <<>>
           /\ metadata.fields[k] = IF k = Annotations THEN <<3>> ELSE <<>>
           /\ annotations.fields[k] = IF k = Identifier THEN <<4>> ELSE <<>>
      /\ root.kind = "map" /\ root.value = NoString
      /\ metadata.value = NoString /\ annotations.value = NoString
  <2>. HIDE DEF N
  <2>. QED BY <1>2, MapWithPair
<1>4. /\ leaf \in NodeIn(N) /\ leaf.kind = "string"
      /\ \A k \in Names : leaf.fields[k] = <<>>
  <2>1. NoFields \in [Names -> Seq(N)] /\ \A k \in Names : NoFields[k] = <<>>
    BY DEF NoFields
  <2>. QED BY <2>1 DEF Node, NodeIn, Kinds, Leaves
<1>. HIDE DEF root, metadata, annotations, leaf
<1>5. /\ Len(heap) = 4 /\ Nodes = N
      /\ heap[1] = root /\ heap[2] = metadata
      /\ heap[3] = annotations /\ heap[4] = leaf
      /\ heap \in Seq(NodeIn(N))
  BY <1>1, <1>3, <1>4 DEF Nodes
<1>6. ASSUME NEW n \in Nodes, NEW k \in Names
      PROVE  \/ heap[n].fields[k] = <<>>
             \/ heap[n].fields[k] = <<n + 1>> /\ k = IF n = 1 THEN Metadata
                                                    ELSE IF n = 2 THEN Annotations
                                                    ELSE Identifier
  BY <1>3, <1>4, <1>5
<1>7. TypeOK
  <2>1. /\ heap \in Seq(NodeIn(Nodes)) /\ Nodes # {} /\ 1 \in Nodes BY <1>5
  <2>2. Nothing \in Values
    BY DEF Nothing, Value, Values, HasPath, Kinds, Leaves
  <2>3. CallOK(Idle) BY <2>1, <2>2 DEF CallOK, Idle
  <2>4. held = {1} /\ call = Idle BY DEF Init
  <2>. QED BY <2>1, <2>3, <2>4 DEF TypeOK
<1>8. OnePlace
  <2>1. \A v : DOMAIN <<v>> = {1} /\ <<v>>[1] = v OBVIOUS
  <2>2. \A n \in Nodes, k \in Names : \A i \in DOMAIN heap[n].fields[k] :
          /\ i = 1 /\ heap[n].fields[k][i] = n + 1
          /\ k = IF n = 1 THEN Metadata ELSE IF n = 2 THEN Annotations ELSE Identifier
    BY <1>6, <2>1
  <2>3. \A n, m \in Nodes : n + 1 = m + 1 => n = m BY <1>5
  <2>. QED BY <2>2, <2>3 DEF OnePlace
<1>9. OnlyMade /\ OnlyUnlocked BY DEF Init, OnlyMade, OnlyUnlocked, Idle
<1>10. RootOnTop
  <2>1. \A n \in 1..4 : n + 1 # 1 OBVIOUS
  <2>2. \A v : 1 \in Range(<<v>>) => v = 1 BY DEF Range
  <2>3. 1 \notin Range(<<>>) BY DEF Range
  <2>. QED BY <1>3, <1>4, <1>5, <1>6, <2>1, <2>2, <2>3 DEF RootOnTop
<1>. QED BY <1>7, <1>8, <1>9, <1>10 DEF IInv

(***************************************************************************)
(* Whatever SubObjects the function holds and whatever it calls: nodes and *)
(* calls are well formed, every node is in one place, and a call that is   *)
(* under way has changed nothing but added maps of its own.                *)
(***************************************************************************)
THEOREM NodesInvariant == Spec => []IInv
<1>1. IInv /\ [Next]_vars => IInv'
  BY StepType, StepOnePlace, StepRootOnTop, StepOnlyMade, StepUnlocked DEF IInv
<1>. QED BY InitIInv, <1>1, PTL DEF Spec

(***************************************************************************)
(* A call that is about to fail has left every node as it found it.        *)
(***************************************************************************)
THEOREM FailedNeverChange == Spec => []FailedCallsChangeNothing
<1>1. IInv => FailedCallsChangeNothing
  <2>. SUFFICES ASSUME IInv, Stuck, heap # before PROVE FALSE
    BY DEF FailedCallsChangeNothing
  <2>1. call.op = "set" /\ heap[call.at] = MapNode BY DEF IInv, OnlyMade
  <2>2. call # Idle BY DEF Stuck
  <2>3. ~Has(call.at, key) BY <2>1, <2>2, MadeHasNone DEF IInv
  <2>. QED BY <2>1, <2>3 DEF Stuck
<1>. QED BY <1>1, NodesInvariant, PTL

-----------------------------------------------------------------------------
(* kpt's identifier. *)

(* A change forges nothing if what it puts under the identifier is no      *)
(* string, what it puts under the annotations has no identifier, and no    *)
(* node it puts anywhere has annotations.                                  *)
LEMMA ChangeForgesNothing ==
  ASSUME TypeOK, NEW nodes, NEW n, NEW k, NEW pairs, Changes(nodes, n, k, pairs),
         \A j \in DOMAIN nodes : nodes[j].fields[Annotations] = <<>>,
         nodes # <<>> =>
           /\ k = Identifier => nodes[1].kind # "string"
           /\ k = Annotations => nodes[1].fields[Identifier] = <<>>
  PROVE  ForgedIn(heap') \subseteq ForgedIn(heap)
<1>. SUFFICES ASSUME NEW c \in ForgedIn(heap') PROVE c \in ForgedIn(heap) OBVIOUS
<1>1. /\ heap'[c].kind = "string" /\ heap'[c].value # Origin
      /\ \E m, a \in Nodes' : /\ a \in Range(heap'[m].fields[Annotations])
                              /\ c \in Range(heap'[a].fields[Identifier])
  BY DEF ForgedIn, Fields, Nodes
<1>2. PICK m \in Nodes', a \in Nodes' :
        /\ a \in Range(heap'[m].fields[Annotations])
        /\ c \in Range(heap'[a].fields[Identifier])
  BY <1>1
<1>. DEFINE L == Len(heap)
            Old(o, l, v) == o \in Nodes /\ v \in Range(heap[o].fields[l]) /\ v \in Nodes
            New(o, l, v) == /\ o = n /\ l = k /\ v = L + 1
                            /\ nodes # <<>> /\ heap'[L + 1] = nodes[1]
            Inner(o, l, v) == /\ v = o + 1
                              /\ \E j \in DOMAIN nodes :
                                   o = L + j /\ nodes[j].fields[l] # <<>>
<1>3. Annotations \in Names /\ Identifier \in Names BY NamesAssumption
<1>4. Old(m, Annotations, a) \/ New(m, Annotations, a) \/ Inner(m, Annotations, a)
  BY <1>2, <1>3, ChangedFields
<1>5. Old(a, Identifier, c) \/ New(a, Identifier, c) \/ Inner(a, Identifier, c)
  BY <1>2, <1>3, ChangedFields
<1>6. /\ L \in Nat /\ Nodes = 1..L /\ DOMAIN nodes \subseteq Nat \ {0}
  BY DEF TypeOK, Nodes, Changes, NewNodes
<1>7. ~Inner(m, Annotations, a) OBVIOUS
<1>. HIDE DEF L
<1>8. CASE Old(a, Identifier, c)
  <2>1. Old(m, Annotations, a) BY <1>4, <1>6, <1>7, <1>8
  <2>2. heap'[c].kind = heap[c].kind /\ heap'[c].value = heap[c].value
    BY <1>8, ChangedHeap
  <2>. QED BY <1>1, <1>6, <1>8, <2>1, <2>2 DEF ForgedIn, Fields, L
<1>9. CASE New(a, Identifier, c) BY <1>1, <1>9
<1>10. CASE Inner(a, Identifier, c)
  <2>1. PICK j \in DOMAIN nodes : a = L + j /\ nodes[j].fields[Identifier] # <<>>
    BY <1>10
  <2>2. a \notin Nodes BY <1>6, <2>1
  <2>3. New(m, Annotations, a) BY <1>4, <1>7, <2>2
  <2>4. j = 1 BY <1>6, <2>1, <2>3
  <2>. QED BY <2>1, <2>3, <2>4
<1>. QED BY <1>5, <1>8, <1>9, <1>10

\* What LockHolds says of a step.
NothingForged == ForgedIn(heap') \subseteq ForgedIn(heap)

(* No step forges the identifier but one that brings annotations along. *)
LEMMA StepForgesNothing ==
  ASSUME IInv, [Next]_vars
  PROVE  NothingForged \/ (SetValue /\ BringsAnnotations(call.val))
<1>. USE DEF IInv
<1>1. CASE UNCHANGED heap BY <1>1 DEF NothingForged
<1>2. /\ MapNode.kind = "map"
      /\ MapNode.fields[Identifier] = <<>> /\ MapNode.fields[Annotations] = <<>>
  BY NamesAssumption DEF MapNode, Node, NoFields
<1>3. <<MapNode>>[1] = MapNode /\ DOMAIN <<MapNode>> = {1} OBVIOUS
<1>4. CASE MakeMap
  <2>1. Changes(<<MapNode>>, call.at, key, <<Len(heap) + 1>>)
    BY <1>4, MakeMapChanges
  <2>. QED BY <1>2, <1>3, <2>1, ChangeForgesNothing DEF NothingForged
<1>5. ASSUME NEW r \in held, NEW k \in Names, UpsertMap(r, k)
      PROVE  NothingForged
  <2>1. r \in Nodes BY DEF TypeOK
  <2>2. CASE HasMap(r, k) BY <1>1, <1>5, <2>2 DEF UpsertMap, NothingForged
  <2>3. CASE ~HasMap(r, k)
    <3>1. Changes(<<MapNode>>, r, k, Append(heap[r].fields[k], Len(heap) + 1))
      BY <1>5, <2>1, <2>3, UpsertMapChanges
    <3>. QED BY <1>2, <1>3, <3>1, ChangeForgesNothing DEF NothingForged
  <2>. QED BY <2>2, <2>3
<1>6. CASE RemoveField
  <2>1. Changes(<<>>, call.at, key, <<>>) BY <1>6, RemoveFieldChanges
  <2>2. DOMAIN <<>> = {} OBVIOUS
  <2>. QED BY <2>1, <2>2, ChangeForgesNothing DEF NothingForged
<1>7. ASSUME SetValue, ~BringsAnnotations(call.val) PROVE NothingForged
  <2>. DEFINE val == call.val
              nodes == NodesOf(call.val, Len(heap))
              pairs == IF Has(call.at, key)
                       THEN [heap[call.at].fields[key] EXCEPT ![1] = Len(heap) + 1]
                       ELSE <<Len(heap) + 1>>
  <2>1. call.val \in Values /\ Changes(nodes, call.at, key, pairs)
    BY <1>7, SetValueChanges
  <2>2. call # Idle /\ atLast /\ call.op = "set" BY <1>7 DEF SetValue, Idle
  <2>3. ~Locked(call.val, call.fields) /\ key = Last(call.fields)
    BY <2>2, CallKey DEF OnlyUnlocked
  <2>4. val.kind # "struct" /\ Annotations \notin Range(val.path)
    BY <1>7 DEF BringsAnnotations
  <2>5. /\ nodes[1].kind = "string" => val.kind = "string"
        /\ \A j \in DOMAIN nodes, k \in Names : nodes[j].fields[k] # <<>> =>
             HasPath(val) /\ j \in DOMAIN val.path /\ k = val.path[j]
        /\ 1 \in DOMAIN nodes
    BY <2>1, ValueNewNodes
  <2>. HIDE DEF nodes, pairs
  <2>6. key = Identifier => nodes[1].kind # "string" BY <2>3, <2>5 DEF Locked
  <2>7. key = Annotations => nodes[1].fields[Identifier] = <<>>
    <3>1. HasPath(val) /\ val.path[1] = Identifier =>
            val.kind = "map" /\ Head(val.path) = Identifier
      BY <2>4 DEF HasPath
    <3>. QED BY <2>3, <2>5, <3>1, NamesAssumption DEF Locked
  <2>8. \A j \in DOMAIN nodes : nodes[j].fields[Annotations] = <<>>
    BY <2>4, <2>5, NamesAssumption DEF Range
  <2>. QED BY <2>1, <2>6, <2>7, <2>8, ChangeForgesNothing DEF NothingForged
<1>8. CASE Descend \/ FoundSubObject \/ GiveUp
  BY <1>1, <1>8 DEF Descend, FoundSubObject, GiveUp
<1>9. ASSUME NEW r \in held, NEW k \in Names, GetMap(r, k) \/ GetSlice(r, k)
      PROVE  NothingForged
  BY <1>9 DEF GetMap, GetSlice, NothingForged
<1>10. ASSUME NEW op, NEW r, NEW fields, NEW val, Call(op, r, fields, val)
       PROVE  NothingForged
  BY <1>10 DEF Call, NothingForged
<1>11. CASE UNCHANGED vars BY <1>1, <1>11 DEF vars
<1>. QED
  BY <1>4, <1>5, <1>6, <1>7, <1>8, <1>9, <1>10, <1>11
  DEF Next, Function, Library, SetNestedField, SetSlice, RemoveNestedField,
      RemoveAnnotationsIfEmpty, NestedSubObject

(***************************************************************************)
(* However a function's calls follow each other and whatever SubObjects it *)
(* keeps, the one call that puts a string of its own under an identifier   *)
(* in annotations is a set whose value is a struct or brings annotations   *)
(* along.  Nothing is assumed of what the function sets: the exception is  *)
(* the gap of onLockedFields, and this is all of it.                       *)
(***************************************************************************)
THEOREM LockAlwaysHolds == Spec => LockHolds
<1>1. IInv /\ [Next]_vars =>
        [ForgedIn(heap') \subseteq ForgedIn(heap)
           \/ (SetValue /\ BringsAnnotations(call.val))]_vars
  BY StepForgesNothing DEF NothingForged
<1>. QED BY <1>1, NodesInvariant, PTL DEF Spec, LockHolds
=============================================================================
