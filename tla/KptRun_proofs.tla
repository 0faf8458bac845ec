---------------------------- MODULE KptRun_proofs ----------------------------
(***************************************************************************)
(* Theorems about KptRun: its inductive invariant, and what it says of the *)
(* output and of the exit code for any number of objects and annotations.  *)
(***************************************************************************)
EXTENDS KptRun, SequenceTheorems, TLAPS

(* Annotations stay annotations through every step of the reconciliation. *)
LEMMA ReconciliationTypes ==
  ASSUME NEW a \in Annotations
  PROVE  /\ SetMissing(a) \in Annotations
         /\ \A o \in Annotations : Propagate(a, o) \in Annotations
         /\ \A u \in [Formats -> BOOLEAN] : Format(a, u) \in Annotations
<1>1. \A f \in Formats : Other(f) \in Formats BY DEF Formats, Other
<1>2. \A f \in Formats, x \in Fields : a[f][x] \in AnyValue BY DEF Annotations
<1>3. SetMissing(a) \in Annotations
  BY <1>1, <1>2 DEF SetMissing, Annotations
<1>4. \A o \in Annotations : Propagate(a, o) \in Annotations
  <2>1. "internal" \in Formats /\ "legacy" \in Formats BY DEF Formats
  <2>. QED BY <1>2, <2>1 DEF Propagate, Annotations
<1>5. \A u \in [Formats -> BOOLEAN] : Format(a, u) \in Annotations
  <2>1. None \in AnyValue BY DEF AnyValue
  <2>. QED BY <1>2, <2>1 DEF Format, Annotations
<1>. QED BY <1>3, <1>4, <1>5

\* A reconciled object is an object.
LEMMA ReconciledItem ==
  ASSUME TypeOK, NEW o \in Item
  PROVE  Reconciled(o) \in Item
<1>1. o.annos \in Annotations BY DEF Item
<1>2. SetMissing(o.annos) \in Annotations BY <1>1, ReconciliationTypes
<1>3. Altered(o) \in Annotations
  <2>1. CASE Known(o)
    <3>1. original[o.rid] \in Annotations BY <2>1 DEF Known, TypeOK
    <3>. QED BY <1>2, <2>1, <3>1, ReconciliationTypes DEF Altered
  <2>2. CASE ~Known(o) BY <1>2, <2>2 DEF Altered
  <2>. QED BY <2>1, <2>2
<1>4. Format(Altered(o), use) \in Annotations
  BY <1>3, ReconciliationTypes DEF TypeOK
<1>5. 0 \in 0..MaxItems BY BoundsAssumption
<1>. QED BY <1>4, <1>5 DEF Reconciled, Item

(* What inserting into a sequence and removing from it do to its type. *)
LEMMA InsertedRemoved ==
  ASSUME NEW S, NEW s \in Seq(S), NEW e \in S
  PROVE  /\ \A i \in 1..Len(s) + 1 :
              InsertAt(s, i, e) \in Seq(S) /\ Len(InsertAt(s, i, e)) = Len(s) + 1
         /\ \A i \in DOMAIN s :
              RemoveAt(s, i) \in Seq(S) /\ Len(RemoveAt(s, i)) = Len(s) - 1
<1>. DEFINE front(i) == SubSeq(s, 1, i - 1)
<1>1. ASSUME NEW i \in 1..Len(s) + 1
      PROVE  InsertAt(s, i, e) \in Seq(S) /\ Len(InsertAt(s, i, e)) = Len(s) + 1
  <2>. DEFINE back == SubSeq(s, i, Len(s))
  <2>1. front(i) \in Seq(S) /\ Len(front(i)) = i - 1 BY SubSeqProperties
  <2>2. back \in Seq(S) /\ Len(back) = Len(s) - i + 1 BY SubSeqProperties
  <2>3. <<e>> \in Seq(S) /\ Len(<<e>>) = 1 OBVIOUS
  <2>. HIDE DEF front, back
  <2>4. front(i) \o <<e>> \in Seq(S) /\ Len(front(i) \o <<e>>) = i
    BY <2>1, <2>3, ConcatProperties
  <2>5. /\ (front(i) \o <<e>>) \o back \in Seq(S)
        /\ Len((front(i) \o <<e>>) \o back)
             = Len(front(i) \o <<e>>) + Len(back)
    BY <2>2, <2>4, ConcatProperties
  <2>6. InsertAt(s, i, e) = (front(i) \o <<e>>) \o back
    BY DEF InsertAt, front, back
  <2>7. i \in Nat /\ Len(s) \in Nat BY <1>1
  <2>8. i + (Len(s) - i + 1) = Len(s) + 1 BY <2>7
  <2>. QED BY <2>2, <2>4, <2>5, <2>6, <2>8
<1>2. ASSUME NEW i \in DOMAIN s
      PROVE  RemoveAt(s, i) \in Seq(S) /\ Len(RemoveAt(s, i)) = Len(s) - 1
  <2>. DEFINE back == SubSeq(s, i + 1, Len(s))
  <2>1. front(i) \in Seq(S) /\ Len(front(i)) = i - 1 BY SubSeqProperties
  <2>2. back \in Seq(S) /\ Len(back) = Len(s) - i BY SubSeqProperties
  <2>. HIDE DEF front, back
  <2>3. /\ front(i) \o back \in Seq(S)
        /\ Len(front(i) \o back) = i - 1 + (Len(s) - i)
    BY <2>1, <2>2, ConcatProperties
  <2>4. RemoveAt(s, i) = front(i) \o back BY DEF RemoveAt, front, back
  <2>. QED BY <2>3, <2>4
<1>. QED BY <1>1, <1>2

(* The function leaves a sequence of at most MaxItems objects. *)
LEMMA FunctionItems ==
  ASSUME TypeOK, Len(items) <= MaxItems, Function
  PROVE  items' \in Seq(Item) /\ Len(items') <= MaxItems
<1>1. Bare \in Item
  <2>1. None \in AnyValue /\ 0 \in 0..MaxItems BY BoundsAssumption DEF AnyValue
  <2>. QED BY <2>1 DEF Bare, Item, Annotations
<1>2. ASSUME NEW o \in Item, InsertObject(o)
      PROVE  items' \in Seq(Item) /\ Len(items') <= MaxItems
  <2>1. PICK at \in 1..Len(items) + 1 : items' = InsertAt(items, at, o)
    BY <1>2 DEF InsertObject
  <2>2. items' \in Seq(Item) /\ Len(items') = Len(items) + 1
    BY <2>1, InsertedRemoved DEF TypeOK
  <2>3. Len(items) < MaxItems BY <1>2 DEF InsertObject
  <2>. QED BY <2>2, <2>3, BoundsAssumption DEF TypeOK
<1>3. ASSUME NEW i \in DOMAIN items
      PROVE  /\ items[i] \in Item
             /\ \A o \in Item : /\ [items EXCEPT ![i] = o] \in Seq(Item)
                                /\ Len([items EXCEPT ![i] = o]) = Len(items)
  BY <1>3, ExceptSeq DEF TypeOK
<1>4. ASSUME NEW i \in DOMAIN items, NEW f \in Formats, NEW x \in Fields,
             NEW v \in AnyValue, Edit(i, f, x, v)
      PROVE  items' \in Seq(Item) /\ Len(items') <= MaxItems
  <2>. DEFINE o == [items[i] EXCEPT !.annos[f][x] = v]
  <2>1. o \in Item BY <1>3 DEF Item, Annotations
  <2>2. items' = [items EXCEPT ![i] = o] BY <1>4 DEF Edit
  <2>. QED BY <1>3, <2>1, <2>2
<1>5. ASSUME NEW i \in DOMAIN items, DropAnnotations(i)
      PROVE  items' \in Seq(Item) /\ Len(items') <= MaxItems
  BY <1>1, <1>3, <1>5 DEF DropAnnotations
<1>6. ASSUME NEW i \in DOMAIN items, DeleteObject(i)
      PROVE  items' \in Seq(Item) /\ Len(items') <= MaxItems
  <2>1. items' \in Seq(Item) /\ Len(items') = Len(items) - 1
    BY <1>3, <1>6, InsertedRemoved DEF DeleteObject, TypeOK
  <2>. QED BY <2>1, BoundsAssumption DEF TypeOK
<1>7. ASSUME AddErrorResult \/ FunctionThrows \/ FunctionReturns
      PROVE  items' \in Seq(Item) /\ Len(items') <= MaxItems
  BY <1>7 DEF AddErrorResult, FunctionThrows, FunctionReturns, Throw, TypeOK
<1>. QED BY <1>1, <1>2, <1>3, <1>4, <1>5, <1>6, <1>7 DEF Function

\* The invariant holds before the input is read.
LEMMA InitIInv == Init => IInv
<1>. SUFFICES ASSUME Init PROVE IInv OBVIOUS
<1>1. PICK n \in 0..MaxInput :
        items \in [1..n -> [annos : Annotations, rid : {0}]]
  BY DEF Init
<1>2. n \in Nat /\ n <= MaxItems /\ MaxItems \in Nat
  BY <1>1, BoundsAssumption
<1>3. [annos : Annotations, rid : {0}] \subseteq Item BY <1>2 DEF Item
<1>4. items \in [1..n -> Item] BY <1>1, <1>3
<1>5. items \in Seq(Item) /\ Len(items) = n BY <1>2, <1>4
<1>6. TypeOK
  <2>1. <<>> \in Seq(Annotations) /\ <<>> \in Seq(Item) OBVIOUS
  <2>2. [f \in Formats |-> FALSE] \in [Formats -> BOOLEAN] OBVIOUS
  <2>3. "args" \in Phases /\ 1 \in Nat \ {0} BY DEF Phases
  <2>4. use \in [Formats -> BOOLEAN] BY <2>2 DEF Init
  <2>5. seen \in BOOLEAN /\ hasError \in BOOLEAN /\ written \in BOOLEAN
    BY DEF Init
  <2>. QED BY <1>5, <2>1, <2>3, <2>4, <2>5 DEF Init, TypeOK
<1>7. LoopInv
  <2>1. ScannedUpTo(1) BY DEF Init, ScannedUpTo
  <2>. QED BY <1>2, <1>5, <2>1
         DEF Init, LoopInv, Reconciling, ResultError
<1>. QED BY <1>6, <1>7 DEF IInv

(* Every step keeps the types. *)
LEMMA StepType == IInv /\ [Next]_vars => TypeOK'
<1>. SUFFICES ASSUME TypeOK, LoopInv, [Next]_vars PROVE TypeOK' BY DEF IInv
<1>. USE DEF migration, outcome
<1>0. Len(items) <= MaxItems BY DEF LoopInv
<1>1. CASE ReadInput BY <1>1 DEF ReadInput, TypeOK, Phases
<1>2. ASSUME NEW code \in {0, ResultError, ExceptionError,
                           FunctionConfigError}, Throw(code)
      PROVE  TypeOK'
  BY <1>2 DEF Throw, Exit, TypeOK, Phases
<1>3. CASE SaveObject
  <2>1. items[next] \in Item /\ next \in 0..MaxItems
    BY <1>0, <1>3, BoundsAssumption DEF SaveObject, TypeOK
  <2>2. original' \in Seq(Annotations) BY <1>3, <2>1
    DEF SaveObject, TypeOK, Item
  <2>3. items' \in Seq(Item)
    <3>1. [items[next] EXCEPT !.rid = next] \in Item BY <2>1 DEF Item
    <3>. QED BY <1>3, <3>1, ExceptSeq DEF SaveObject, TypeOK
  <2>4. phase' \in Phases /\ next' \in Nat \ {0}
    BY <1>3 DEF SaveObject, Exit, TypeOK, Phases
  <2>5. exitCode' \in {0, ResultError, ExceptionError, FunctionConfigError}
    BY <1>3 DEF SaveObject, Exit, TypeOK
  <2>. QED BY <1>3, <2>2, <2>3, <2>4, <2>5 DEF SaveObject, TypeOK
<1>4. CASE CallFunction BY <1>4 DEF CallFunction, TypeOK, Phases
<1>5. CASE Function
  <2>1. items' \in Seq(Item) BY <1>0, <1>5, FunctionItems
  <2>2. ASSUME UNCHANGED <<phase, next, migration, returned, outcome>>,
               hasError' \in BOOLEAN
        PROVE  TypeOK'
    BY <2>1, <2>2 DEF TypeOK
  <2>3. CASE FunctionThrows BY <1>2, <2>3 DEF FunctionThrows
  <2>4. CASE FunctionReturns
    BY <2>1, <2>4 DEF FunctionReturns, TypeOK, Phases
  <2>. QED BY <1>5, <2>2, <2>3, <2>4
         DEF Function, Edit, DropAnnotations, InsertObject, DeleteObject,
             AddErrorResult, TypeOK
<1>6. CASE ScanFormat
  <2>1. CASE UNCHANGED <<phase, items, original, hasError, returned, outcome>>
    <3>1. next' \in Nat \ {0} /\ seen' \in BOOLEAN
      <4>1. phase' = phase /\ phase = "format" BY <1>6, <2>1 DEF ScanFormat
      <4>2. next' = next + 1 /\ seen' = (seen \/ Annotated(original[next]))
        BY <1>6, <4>1 DEF ScanFormat, Throw, Exit
      <4>3. seen' \in BOOLEAN BY <4>2, Zenon
      <4>. QED BY <4>2, <4>3 DEF TypeOK
    <3>2. use' \in [Formats -> BOOLEAN]
      <4>. DEFINE used == [f \in Formats |-> use[f] \/ Uses(original[next], f)]
      <4>1. phase' = phase /\ phase = "format" BY <1>6, <2>1 DEF ScanFormat
      <4>2. use' = IF Annotated(original[next]) THEN used ELSE use
        BY <1>6, <4>1 DEF ScanFormat, Throw, Exit
      <4>3. used \in [Formats -> BOOLEAN] BY DEF TypeOK
      <4>. QED BY <4>2, <4>3 DEF TypeOK
    <3>. QED BY <2>1, <3>1, <3>2 DEF TypeOK
  <2>. QED BY <1>2, <1>6, <2>1 DEF ScanFormat
<1>7. CASE FormatDecided BY <1>7 DEF FormatDecided, TypeOK, Phases
<1>8. CASE ReconcileObject
  <2>1. Reconciled(items[next]) \in Item
    BY <1>8, ReconciledItem DEF ReconcileObject, TypeOK
  <2>2. ASSUME items' = [items EXCEPT ![next] = Reconciled(items[next])]
        PROVE  items' \in Seq(Item)
    BY <1>8, <2>1, <2>2, ExceptSeq DEF ReconcileObject, TypeOK
  <2>3. CASE Rejected(items[next]) BY <1>2, <1>8, <2>3 DEF ReconcileObject
  <2>4. CASE ~Rejected(items[next])
    BY <1>8, <2>2, <2>4 DEF ReconcileObject, TypeOK
  <2>. QED BY <2>3, <2>4
<1>9. CASE ReconcileDone BY <1>9 DEF ReconcileDone, TypeOK, Phases
<1>10. CASE WriteOutput BY <1>10 DEF WriteOutput, TypeOK, Phases
<1>11. CASE ReadFails \/ WriteFails BY <1>2, <1>11 DEF ReadFails, WriteFails
<1>12. CASE Report BY <1>2, <1>12 DEF Report
<1>13. CASE UNCHANGED vars BY <1>13 DEF vars, TypeOK
<1>. QED
  BY <1>1, <1>3, <1>4, <1>5, <1>6, <1>7, <1>8, <1>9, <1>10, <1>11, <1>12,
     <1>13 DEF Next, Runtime

(* Scanning one more object keeps use and seen what they summarise. *)
LEMMA ScanStep ==
  ASSUME TypeOK, ScanFormat, phase' = phase, ScannedUpTo(next)
  PROVE  /\ ScannedUpTo(next)'
         /\ UNCHANGED <<items, original, hasError, returned, outcome>>
<1>. DEFINE scanned == {o \in DOMAIN original : o < next /\ Annotated(original[o])}
            now == {o \in DOMAIN original :
                      o < next + 1 /\ Annotated(original[o])}
            a == original[next]
            used == [f \in Formats |-> use[f] \/ Uses(a, f)]
<1>1. /\ next' = next + 1
      /\ use' = IF Annotated(a) THEN used ELSE use
      /\ seen' = (seen \/ Annotated(a))
      /\ UNCHANGED <<items, original, hasError, returned, outcome>>
  BY DEF ScanFormat, Throw, Exit
<1>2. next \in DOMAIN original /\ next \in Nat BY DEF ScanFormat, TypeOK
<1>3. now = scanned \cup (IF Annotated(a) THEN {next} ELSE {})
  BY <1>2 DEF TypeOK
<1>4. /\ seen <=> scanned # {}
      /\ \A f \in Formats :
           use[f] <=> \E o \in scanned : Uses(original[o], f)
  BY DEF ScannedUpTo
<1>. HIDE DEF scanned, now
<1>5. seen' <=> now # {} BY <1>1, <1>3, <1>4
<1>6. \A f \in Formats : use'[f] <=> \E o \in now : Uses(original[o], f)
  <2>1. CASE Annotated(a) BY <1>1, <1>3, <1>4, <2>1
  <2>2. CASE ~Annotated(a) BY <1>1, <1>3, <1>4, <2>2
  <2>. QED BY <2>1, <2>2
<1>7. ScannedUpTo(next)'
  BY <1>1, <1>5, <1>6 DEF ScannedUpTo, now, Uses, Annotated
<1>. QED BY <1>1, <1>7

(* Reconciling one more object. *)
LEMMA ReconcileStep ==
  ASSUME TypeOK, ReconcileObject, ~Rejected(items[next]), ReconciledUpTo(next)
  PROVE  ReconciledUpTo(next)'
<1>1. /\ items' = [items EXCEPT ![next] = Reconciled(items[next])]
      /\ next' = next + 1 /\ UNCHANGED <<original, use, returned>>
  BY DEF ReconcileObject, migration
<1>2. next \in DOMAIN items /\ items \in Seq(Item) /\ next \in Nat
  BY DEF ReconcileObject, TypeOK
<1>3. Reconciled(items[next]) \in Item BY <1>2, ReconciledItem
<1>4. /\ Len(items') = Len(items) /\ DOMAIN items' = DOMAIN items
      /\ items'[next] = Reconciled(items[next])
      /\ \A i \in DOMAIN items \ {next} : items'[i] = items[i]
  BY <1>1, <1>2, <1>3, ExceptSeq
<1>5. items[next] = returned[next] BY <1>2 DEF ReconciledUpTo
<1>6. \A i \in DOMAIN items : i \in Nat /\ (i < next + 1 <=> i < next \/ i = next)
  BY <1>2
<1>7. ASSUME NEW i \in DOMAIN items, i < next + 1
      PROVE  items'[i] = Reconciled(returned[i]) /\ ~Rejected(returned[i])
  <2>1. CASE i = next BY <1>4, <1>5, <2>1
  <2>2. CASE i # next BY <1>4, <1>6, <1>7, <2>2 DEF ReconciledUpTo
  <2>. QED BY <2>1, <2>2
<1>8. ASSUME NEW i \in DOMAIN items, i >= next + 1
      PROVE  items'[i] = returned[i]
  <2>1. i # next /\ i >= next BY <1>2, <1>6, <1>8
  <2>. QED BY <1>4, <2>1 DEF ReconciledUpTo
<1>9. Len(items') = Len(returned') BY <1>1, <1>4 DEF ReconciledUpTo
<1>10. (\A i \in DOMAIN items :
          /\ i < next => items[i] = Reconciled(returned[i]) /\ ~Rejected(returned[i])
          /\ i >= next => items[i] = returned[i])'
  <2>1. \A i \in DOMAIN items' :
          /\ i < next' => items'[i] = Reconciled(returned[i])
                            /\ ~Rejected(returned[i])
          /\ i >= next' => items'[i] = returned'[i]
    BY <1>1, <1>4, <1>7, <1>8
  <2>. QED BY <1>1, <2>1 DEF Reconciled, Rejected, Altered, Known
<1>. QED BY <1>9, <1>10 DEF ReconciledUpTo

(* Every step keeps what the loops have done so far. *)
LEMMA StepLoop == IInv /\ [Next]_vars => LoopInv'
<1>. SUFFICES ASSUME TypeOK, LoopInv, [Next]_vars PROVE LoopInv' BY DEF IInv
<1>. USE DEF migration, outcome
<1>0. /\ Len(items) <= MaxItems /\ Len(items) \in Nat /\ next \in Nat
      /\ ResultError = 1 /\ ExceptionError = 2 /\ FunctionConfigError = 3
  BY DEF LoopInv, TypeOK, ResultError, ExceptionError, FunctionConfigError
\* an exception leaves nothing written
<1>1. ASSUME NEW code \in {ExceptionError, FunctionConfigError}, Throw(code),
             phase \notin {"report", "exited"}
      PROVE  LoopInv'
  <2>1. ~written BY <1>1 DEF LoopInv
  <2>. QED BY <1>0, <1>1, <2>1 DEF Throw, Exit, LoopInv, Reconciling
\* a step that leaves the loops' state alone
<1>2. ASSUME phase \in {"args", "save", "fn"}, phase' \in {"args", "save", "fn"},
             Len(items') <= MaxItems,
             UNCHANGED <<migration, outcome>>
      PROVE  LoopInv'
  <2>1. ~written /\ exitCode = 0 BY <1>2 DEF LoopInv
  <2>2. ScannedUpTo(1)' BY <1>2 DEF LoopInv, ScannedUpTo
  <2>. QED BY <1>0, <1>2, <2>1, <2>2 DEF LoopInv, Reconciling
<1>3. CASE ReadInput BY <1>0, <1>2, <1>3 DEF ReadInput
<1>4. CASE SaveObject
  <2>1. Len(items') = Len(items) BY <1>4, <1>0 DEF SaveObject, TypeOK
  <2>2. ~written BY <1>4 DEF SaveObject, LoopInv
  <2>3. ScannedUpTo(1) BY <1>4 DEF SaveObject, LoopInv
  <2>4. \A o \in DOMAIN original : ~(o < 1)
    BY DEF TypeOK
  <2>5. \A o \in DOMAIN original' : ~(o < 1)
    BY <1>4 DEF SaveObject, TypeOK
  <2>6. ScannedUpTo(1)'
    <3>1. ~seen /\ \A f \in Formats : ~use[f]
      BY <2>3, <2>4 DEF ScannedUpTo
    <3>. QED BY <1>4, <2>5, <3>1 DEF ScannedUpTo, SaveObject
  <2>7. phase = "save" /\ exitCode = 0 BY <1>4 DEF SaveObject, LoopInv
  <2>8. \/ phase' = "save" /\ exitCode' = 0
        \/ phase' = "exited" /\ exitCode' = ExceptionError
    BY <1>4, <2>7 DEF SaveObject, Exit
  <2>. QED BY <1>0, <1>4, <2>1, <2>2, <2>6, <2>8
         DEF SaveObject, LoopInv, Reconciling
<1>5. CASE CallFunction BY <1>0, <1>2, <1>5 DEF CallFunction
<1>6. CASE FunctionReturns
  <2>1. ScannedUpTo(1) /\ ~written /\ exitCode = 0
    BY <1>6 DEF FunctionReturns, LoopInv
  <2>2. ScannedUpTo(next)'
    BY <1>6, <2>1 DEF FunctionReturns, ScannedUpTo
  <2>. QED BY <1>0, <1>6, <2>1, <2>2 DEF FunctionReturns, LoopInv, Reconciling
<1>7. CASE FunctionThrows BY <1>1, <1>7 DEF FunctionThrows
<1>8. CASE Function /\ ~FunctionReturns /\ ~FunctionThrows
  <2>1. Len(items') <= MaxItems BY <1>0, <1>8, FunctionItems
  <2>2. phase = "fn" /\ phase' = "fn" /\ UNCHANGED <<migration, outcome>>
    BY <1>8 DEF Function, Edit, DropAnnotations, InsertObject, DeleteObject,
                AddErrorResult
  <2>. QED BY <1>2, <2>1, <2>2
<1>9. CASE ScanFormat
  <2>1. phase = "format" /\ ~written /\ exitCode = 0 /\ items = returned
        /\ ScannedUpTo(next)
    BY <1>9 DEF ScanFormat, LoopInv
  <2>2. CASE phase' = phase
    <3>1. /\ ScannedUpTo(next)'
          /\ UNCHANGED <<items, original, hasError, returned, outcome>>
      BY <1>9, <2>1, <2>2, ScanStep
    <3>. QED BY <1>0, <2>1, <2>2, <3>1 DEF LoopInv, Reconciling
  <2>3. CASE Throw(ExceptionError) BY <1>1, <2>1, <2>3
  <2>. QED BY <1>9, <2>1, <2>2, <2>3 DEF ScanFormat
<1>10. CASE FormatDecided
  <2>1. phase = "format" /\ ~written /\ exitCode = 0 /\ items = returned
        /\ ScannedUpTo(next) /\ next > Len(original)
    BY <1>10 DEF FormatDecided, LoopInv
  <2>2. \A o \in DOMAIN original : o < next /\ o < Len(original) + 1
    BY <1>0, <2>1 DEF TypeOK
  <2>3. seen' => ScannedUpTo(Len(original) + 1)'
    BY <1>10, <2>1, <2>2 DEF FormatDecided, ScannedUpTo
  <2>4. ~seen' => \A f \in Formats : use'[f]
    BY <1>10 DEF FormatDecided
  <2>5. ~seen' => \A o \in DOMAIN original : ~Annotated(original[o])
    BY <1>10, <2>1, <2>2 DEF FormatDecided, ScannedUpTo
  <2>6. ReconciledUpTo(next)'
    BY <1>0, <1>10, <2>1 DEF FormatDecided, ReconciledUpTo, TypeOK
  <2>. QED BY <1>0, <1>10, <2>1, <2>3, <2>4, <2>5, <2>6
         DEF FormatDecided, LoopInv, Reconciling
<1>11. CASE ReconcileObject
  <2>1. phase = "reconcile" /\ ~written /\ exitCode = 0
        /\ ReconciledUpTo(next)
    BY <1>11 DEF ReconcileObject, LoopInv, Reconciling
  <2>2. CASE Rejected(items[next])
    BY <1>1, <1>11, <2>1, <2>2 DEF ReconcileObject
  <2>3. CASE ~Rejected(items[next])
    <3>1. ReconciledUpTo(next)' BY <1>11, <2>1, <2>3, ReconcileStep
    <3>2. Len(items') = Len(items) BY <1>0, <1>11, <2>3
      DEF ReconcileObject, TypeOK
    <3>3. /\ phase' = phase
          /\ UNCHANGED <<migration, hasError, returned, outcome>>
      BY <1>11, <2>3 DEF ReconcileObject
    <3>4. (seen => ScannedUpTo(Len(original) + 1))'
      BY <2>1, <3>3 DEF LoopInv, Reconciling, ScannedUpTo
    <3>5. /\ ~seen' => \A f \in Formats : use'[f]
          /\ ~seen' => \A o \in DOMAIN original : ~Annotated(original[o])
      BY <2>1, <3>3 DEF LoopInv, Reconciling
    <3>. QED BY <1>0, <2>1, <3>1, <3>2, <3>3, <3>4, <3>5
           DEF LoopInv, Reconciling
  <2>. QED BY <2>2, <2>3
\* a step after the last object, which leaves the objects as they are
<1>12. ASSUME Reconciling, next > Len(items),
              UNCHANGED <<items, next, migration, hasError, returned>>,
              phase' \notin {"args", "save", "fn", "format"},
              phase' # "exited" => exitCode' = 0,
              written' <=> \/ phase' = "report"
                           \/ phase' = "exited"
                              /\ exitCode' \in {0, ResultError},
              exitCode' = ResultError <=>
                phase' = "exited" /\ written' /\ hasError
       PROVE  LoopInv'
  <2>1. ReconciledUpTo(next) BY <1>12 DEF LoopInv
  <2>2. ReconciledUpTo(next)'
    BY <1>12, <2>1
    DEF ReconciledUpTo, Reconciled, Rejected, Altered, Known
  <2>3. (seen => ScannedUpTo(Len(original) + 1))'
    BY <1>12 DEF LoopInv, ScannedUpTo
  <2>4. /\ ~seen' => \A f \in Formats : use'[f]
        /\ ~seen' => \A o \in DOMAIN original : ~Annotated(original[o])
    BY <1>12 DEF LoopInv
  <2>. QED BY <1>0, <1>12, <2>2, <2>3, <2>4 DEF LoopInv
<1>13. CASE ReconcileDone
  BY <1>0, <1>12, <1>13 DEF ReconcileDone, LoopInv, Reconciling
<1>14. CASE WriteOutput
  BY <1>0, <1>12, <1>14 DEF WriteOutput, LoopInv, Reconciling
<1>15. CASE Report
  BY <1>0, <1>12, <1>15 DEF Report, Throw, Exit, LoopInv, Reconciling
<1>16. CASE ReadFails \/ WriteFails BY <1>1, <1>16 DEF ReadFails, WriteFails
<1>17. CASE UNCHANGED vars
  BY <1>17 DEF vars, LoopInv, Reconciling, ScannedUpTo, ReconciledUpTo,
               Reconciled, Rejected, Altered, Known
<1>. QED
  BY <1>3, <1>4, <1>5, <1>6, <1>7, <1>8, <1>9, <1>10, <1>11, <1>13, <1>14,
     <1>15, <1>16, <1>17 DEF Next, Runtime

(***************************************************************************)
(* The inductive invariant of a run holds for any objects and annotations. *)
(***************************************************************************)
THEOREM RunInvariant == Spec => []IInv
<1>1. IInv /\ [Next]_vars => IInv' BY StepType, StepLoop DEF IInv
<1>. QED BY InitIInv, <1>1, PTL DEF Spec

-----------------------------------------------------------------------------
(* Once the output is written, every object of it has been reconciled. *)
LEMMA WrittenReconciled ==
  ASSUME IInv, written
  PROVE  /\ DOMAIN items = DOMAIN returned
         /\ \A i \in DOMAIN items : /\ items[i] = Reconciled(returned[i])
                                    /\ ~Rejected(returned[i])
                                    /\ returned[i] \in Item
<1>1. ReconciledUpTo(next) /\ next > Len(items)
  BY DEF IInv, LoopInv, Reconciling
<1>2. /\ DOMAIN items = 1..Len(items) /\ DOMAIN returned = 1..Len(returned)
      /\ next \in Nat /\ Len(items) \in Nat
      /\ \A i \in DOMAIN returned : returned[i] \in Item
  BY DEF IInv, TypeOK
<1>3. \A i \in DOMAIN items : i < next BY <1>1, <1>2
<1>4. DOMAIN items = DOMAIN returned BY <1>1, <1>2 DEF ReconciledUpTo
<1>. QED BY <1>1, <1>2, <1>3, <1>4 DEF ReconciledUpTo

(***************************************************************************)
(* No resource id ever reaches the output.                                 *)
(***************************************************************************)
THEOREM NeverResourceIds == Spec => []ResourceIdsRemoved
<1>1. IInv => ResourceIdsRemoved
  BY WrittenReconciled DEF ResourceIdsRemoved, Reconciled
<1>. QED BY <1>1, RunInvariant, PTL

(***************************************************************************)
(* The exit code tells whether an output was written, all of it checked,   *)
(* and whether it has an error result.                                     *)
(***************************************************************************)
THEOREM ExitCodesTell == Spec => []ExitCodes
<1>1. IInv => ExitCodes
  <2>. SUFFICES ASSUME IInv, phase = "exited" PROVE ExitCodes
    BY DEF ExitCodes
  <2>1. exitCode \in {0, ResultError} <=> written BY DEF IInv, LoopInv
  <2>2. exitCode = ResultError <=> written /\ hasError BY DEF IInv, LoopInv
  <2>3. written => \A i \in DOMAIN items : ~Mismatched(items[i].annos)
    BY WrittenReconciled DEF Rejected
  <2>. QED BY <2>1, <2>2, <2>3 DEF ExitCodes
<1>. QED BY <1>1, RunInvariant, PTL

(* An annotation an object has in one format it has in both by the time the *)
(* unused formats are removed.                                              *)
LEMMA AlteredInBoth ==
  ASSUME TypeOK, NEW o \in Item, NEW x \in Fields,
         NEW f \in Formats, NEW g \in Formats
  PROVE  Truthy(Altered(o)[f][x]) => Truthy(Altered(o)[g][x])
<1>. DEFINE m == SetMissing(o.annos)
<1>1. m \in Annotations BY ReconciliationTypes DEF Item
<1>2. Truthy(m["internal"][x]) <=> Truthy(m["legacy"][x])
  BY DEF SetMissing, Formats, Other
<1>3. Truthy(m[f][x]) <=> Truthy(m[g][x]) BY <1>2 DEF Formats
<1>. HIDE DEF m
<1>4. ASSUME NEW s \in Annotations, NEW h \in Formats
      PROVE  Truthy(Propagate(m, s)[h][x]) <=> Truthy(m[h][x])
  <2>1. Truthy(m[h][x]) <=> Truthy(m["internal"][x]) BY <1>2 DEF Formats
  <2>2. Truthy(m[h][x]) <=> Truthy(m["legacy"][x]) BY <1>2 DEF Formats
  <2>. QED BY <2>1, <2>2 DEF Propagate, Edited
<1>5. CASE Known(o)
  <2>1. original[o.rid] \in Annotations BY <1>5 DEF Known, TypeOK
  <2>2. Altered(o) = Propagate(m, original[o.rid]) BY <1>5 DEF Altered, m
  <2>. QED BY <1>3, <1>4, <2>1, <2>2
<1>6. CASE ~Known(o) BY <1>3, <1>6 DEF Altered, m
<1>. QED BY <1>5, <1>6

(***************************************************************************)
(* The output is in the formats of the input.                              *)
(***************************************************************************)
THEOREM AlwaysFormatsKept == Spec => []FormatsKept
<1>1. IInv => FormatsKept
  <2>. SUFFICES ASSUME IInv, written, NEW F \in SUBSET Formats,
                       \E o \in DOMAIN original : Annotated(original[o]),
                       \A o \in DOMAIN original :
                         Annotated(original[o]) => FormatsOf(original[o]) = F,
                       NEW i \in DOMAIN items, NEW x \in Fields
                PROVE  /\ \A f \in Formats \ F : ~Truthy(items[i].annos[f][x])
                       /\ \A f, g \in F : Truthy(items[i].annos[f][x]) =>
                            items[i].annos[g][x] = items[i].annos[f][x]
    BY DEF FormatsKept
  <2>. DEFINE a == Altered(returned[i])
  <2>1. /\ items[i].annos = Format(a, use)
        /\ ~Mismatched(items[i].annos)
        /\ returned[i] \in Item
    BY WrittenReconciled DEF Reconciled, Rejected
  <2>2. seen /\ ScannedUpTo(Len(original) + 1)
    BY DEF IInv, LoopInv, Reconciling
  <2>3. \A o \in DOMAIN original : o < Len(original) + 1
    BY DEF IInv, TypeOK
  <2>4. \A f \in Formats : use[f] <=> f \in F
    BY <2>2, <2>3 DEF ScannedUpTo, FormatsOf
  <2>5. ASSUME NEW f \in Formats
        PROVE  items[i].annos[f][x] =
                 IF f \notin F /\ Truthy(a[f][x]) THEN None ELSE a[f][x]
    BY <2>1, <2>4, <2>5 DEF Format
  <2>6. ~Truthy(None) BY ValuesAssumption DEF Truthy
  <2>7. \A f, g \in Formats : Truthy(a[f][x]) => Truthy(a[g][x])
    BY <2>1, AlteredInBoth DEF IInv
  <2>8. \A f, g \in Formats :
          Truthy(items[i].annos[f][x]) /\ Truthy(items[i].annos[g][x]) =>
            items[i].annos[f][x] = items[i].annos[g][x]
    BY <2>1 DEF Mismatched, Formats
  <2>. HIDE DEF a
  <2>. QED BY <2>5, <2>6, <2>7, <2>8
<1>. QED BY <1>1, RunInvariant, PTL

(***************************************************************************)
(* The edits of the function survive, whatever it edits and in whichever   *)
(* format, and what it only removed in one format comes back.              *)
(***************************************************************************)
THEOREM AlwaysEditsSurvive == Spec => []EditsSurvive
<1>1. IInv => EditsSurvive
  <2>. SUFFICES ASSUME IInv, written,
                       NEW i \in DOMAIN returned, NEW x \in AlteredFields,
                       Known(returned[i]),
                       Truthy(Saved(original[returned[i].rid], x)),
                       \E f \in Formats : Truthy(returned[i].annos[f][x]),
                       NEW f \in Formats, use[f]
                PROVE  {items[i].annos[f][x]} =
                         IF NewValues(i, x) = {}
                         THEN {Saved(original[returned[i].rid], x)}
                         ELSE NewValues(i, x)
    BY DEF EditsSurvive
  <2>. DEFINE a == returned[i].annos
              o == original[returned[i].rid]
              m == SetMissing(a)
              s == Saved(o, x)
              v == items[i].annos[f][x]
  <2>1. x \in Fields BY FieldsAssumption
  <2>2. /\ items[i] = Reconciled(returned[i]) /\ ~Rejected(returned[i])
        /\ a \in Annotations /\ m \in Annotations
    BY WrittenReconciled, ReconciliationTypes DEF Item
  <2>3. ~Conflict(m, o) BY <2>2 DEF Rejected
  <2>4. v = Propagate(m, o)[f][x]
    BY <2>1, <2>2 DEF Reconciled, Format, Altered
  <2>5. /\ m["internal"][x] = IF Truthy(a["internal"][x])
                              THEN a["internal"][x] ELSE a["legacy"][x]
        /\ m["legacy"][x] = IF Truthy(a["legacy"][x])
                            THEN a["legacy"][x] ELSE a["internal"][x]
        /\ Truthy(m["internal"][x]) /\ Truthy(m["legacy"][x])
    BY <2>1 DEF SetMissing, Formats, Other
  <2>6. \/ s = m["internal"][x] \/ s = m["legacy"][x]
        \/ m["internal"][x] = m["legacy"][x]
    BY <2>3, <2>5 DEF Conflict
  <2>7. v = IF m["internal"][x] # s THEN m["internal"][x]
            ELSE IF m["legacy"][x] # s THEN m["legacy"][x] ELSE s
    <3>1. Propagate(m, o)[f][x] =
            IF Edited(m, o, "internal", x) THEN m["internal"][x]
            ELSE IF Edited(m, o, "legacy", x) THEN m["legacy"][x]
            ELSE m[f][x]
      BY <2>1 DEF Propagate
    <3>. HIDE DEF m, o
    <3>2. f = "internal" \/ f = "legacy" BY DEF Formats
    <3>. QED BY <2>4, <2>5, <3>1, <3>2 DEF Edited
  <2>8. \A w : w \in NewValues(i, x) <=>
                 /\ w = a["internal"][x] \/ w = a["legacy"][x]
                 /\ Truthy(w) /\ w # s
    BY DEF NewValues, Formats
  <2>. HIDE DEF a, m, s, o, v
  <2>9. CASE NewValues(i, x) = {}
    <3>1. v = s BY <2>5, <2>7, <2>8, <2>9
    <3>. QED BY <2>9, <3>1 DEF v, s, o
  <2>10. CASE NewValues(i, x) # {}
    <3>1. v \in NewValues(i, x) BY <2>5, <2>6, <2>7, <2>8, <2>10
    <3>2. \A w \in NewValues(i, x) : w = v BY <2>5, <2>6, <2>7, <2>8, <2>10
    <3>. QED BY <2>10, <3>1, <3>2 DEF v
  <2>. QED BY <2>9, <2>10
<1>. QED BY <1>1, RunInvariant, PTL
==============================================================================
