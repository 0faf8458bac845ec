------------------------------- MODULE KptRun -------------------------------
(***************************************************************************)
(* One invocation of a TypeScript function: run() of                       *)
(* ts/kpt-functions/src/run.ts, from the command line to the exit code.    *)
(*                                                                         *)
(* Objects carry where they come from in annotations - a path, an index    *)
(* and an id - each under an internal key and a legacy one.  Before the    *)
(* function runs, run() gives every object a resource id and saves its     *)
(* annotations under that id; afterwards it reconciles what the function   *)
(* made of the two keys with what was saved, and keeps the formats the     *)
(* input used.  Nothing is written if any step throws.                     *)
(***************************************************************************)
EXTENDS Integers, Sequences, SequencesExt

CONSTANTS Fields,          \* the annotations that exist in both formats
          AlteredFields,   \* those checkAnnotationsAltered reads: path, index
          Values,          \* non-empty annotation values
          EmptyValues,     \* the empty string, if the function may use it
          None,            \* an absent annotation
          MaxInput,        \* bound: objects in the input
          MaxItems         \* bound: objects in the Configs

ASSUME FieldsAssumption == AlteredFields \subseteq Fields
ASSUME ValuesAssumption ==
  None \notin Values \cup EmptyValues /\ Values \cap EmptyValues = {}
ASSUME BoundsAssumption ==
  MaxInput \in Nat /\ MaxItems \in Nat /\ MaxInput <= MaxItems

VARIABLES phase,      \* how far runFn has got
          items,      \* configs.getAll()
          next,       \* the object the current loop over items is at
          original,   \* the map from resource ids to saved annotations
          use,        \* the formats determineAnnotationFormat has found in use
          seen,       \* ... and whether it has come by an annotated object
          hasError,   \* has the function added a result of severity error?
          returned,   \* items as the function left them
          written,    \* has the output been written?
          exitCode    \* process.exitCode once phase is "exited"

migration == <<original, use, seen>>
outcome == <<written, exitCode>>
vars == <<phase, items, next, migration, hasError, returned, outcome>>

Formats == {"internal", "legacy"}
Other(f) == IF f = "internal" THEN "legacy" ELSE "internal"

AnyValue == Values \cup EmptyValues \cup {None}
Annotations == [Formats -> [Fields -> AnyValue]]
\* rid: the resource id, 0 if the object has none; run() counts from "0", we
\* from 1.  Any id is a non-empty string, hence truthy.
Item == [annos : Annotations, rid : 0..MaxItems]

Truthy(v) == v \in Values
Phases == {"args", "save", "fn", "format", "reconcile", "write", "report",
           "exited"}

Exit(code) == phase' = "exited" /\ exitCode' = code
ResultError == 1
ExceptionError == 2
FunctionConfigError == 3

-----------------------------------------------------------------------------
(* The pure steps of the reconciliation. *)

\* checkMismatchAnnos
Mismatched(a) ==
  \E x \in Fields : /\ Truthy(a["internal"][x]) /\ Truthy(a["legacy"][x])
                    /\ a["internal"][x] # a["legacy"][x]

\* determineAnnotationFormat: is a format used, is the object looked at at all?
Uses(a, f) == \E x \in Fields : a[f][x] # None
Annotated(a) == \E f \in Formats, x \in Fields : Truthy(a[f][x])

\* Mutant: the missing annotation is only filled in from the internal one.
SetMissingLegacyOnly(a) ==
  [f \in Formats |-> [x \in Fields |->
     IF f = "legacy" /\ ~Truthy(a[f][x]) /\ Truthy(a[Other(f)][x])
     THEN a[Other(f)][x] ELSE a[f][x]]]

\* setMissingAnnotations
SetMissing(a) ==
  [f \in Formats |-> [x \in Fields |->
     IF ~Truthy(a[f][x]) /\ Truthy(a[Other(f)][x]) THEN a[Other(f)][x]
                                                   ELSE a[f][x]]]

\* checkAnnotationsAltered: the value saved before the function ran
Saved(o, x) == IF Truthy(o["internal"][x]) THEN o["internal"][x]
                                           ELSE o["legacy"][x]

Conflict(a, o) ==
  \E x \in AlteredFields :
    /\ Truthy(Saved(o, x))
    /\ Truthy(a["internal"][x]) /\ Truthy(a["legacy"][x])
    /\ Saved(o, x) \notin {a["internal"][x], a["legacy"][x]}
    /\ a["internal"][x] # a["legacy"][x]

Edited(a, o, f, x) == Truthy(a[f][x]) /\ a[f][x] # Saved(o, x)

Propagate(a, o) ==
  [f \in Formats |-> [x \in Fields |->
     CASE x \notin AlteredFields \/ ~Truthy(Saved(o, x)) -> a[f][x]
       [] OTHER -> IF Edited(a, o, "internal", x) THEN a["internal"][x]
                   ELSE IF Edited(a, o, "legacy", x) THEN a["legacy"][x]
                   ELSE a[f][x]]]

\* Mutant: only the legacy annotations are ever removed.
FormatLegacyOnly(a, u) ==
  [f \in Formats |-> [x \in Fields |->
     IF f = "legacy" /\ ~u[f] /\ Truthy(a[f][x]) THEN None ELSE a[f][x]]]

\* formatInternalAnnotations; removeAnnotation leaves an empty value alone
Format(a, u) ==
  [f \in Formats |-> [x \in Fields |->
     IF ~u[f] /\ Truthy(a[f][x]) THEN None ELSE a[f][x]]]

-----------------------------------------------------------------------------
Init ==
  /\ phase = "args"
  /\ \E n \in 0..MaxInput :
       items \in [1..n -> [annos : Annotations, rid : {0}]]
  /\ next = 1
  /\ original = <<>>
  /\ use = [f \in Formats |-> FALSE]
  /\ seen = FALSE
  /\ hasError = FALSE
  /\ returned = <<>>
  /\ written = FALSE
  /\ exitCode = 0

Throw(code) ==
  /\ Exit(code)
  /\ UNCHANGED <<items, next, migration, hasError, returned, written>>

\* parser.parseArgs, parseToConfigMap and readConfigs succeed, or one fails.
ReadInput ==
  /\ phase = "args"
  /\ phase' = "save"
  /\ UNCHANGED <<items, next, migration, hasError, returned, outcome>>

ReadFails == phase = "args" /\ Throw(ExceptionError)

\* preprocessResourceForInternalAnnotationsMigration: one object of its loop
SaveObject ==
  /\ phase = "save" /\ next <= Len(items)
  /\ items' = [items EXCEPT ![next].rid = next]
  /\ original' = Append(original, items[next].annos)
  /\ UNCHANGED <<use, seen, hasError, returned, written>>
  /\ IF Mismatched(items[next].annos)
     THEN Exit(ExceptionError) /\ UNCHANGED next
     ELSE next' = next + 1 /\ UNCHANGED <<phase, exitCode>>

CallFunction ==
  /\ phase = "save" /\ next > Len(items)
  /\ phase' = "fn"
  /\ UNCHANGED <<items, next, migration, hasError, returned, outcome>>

(***************************************************************************)
(* The function, until its promise settles: it may edit annotations of any *)
(* object, drop all annotations of one, insert, clone and delete objects,  *)
(* and add results.                                                        *)
(***************************************************************************)
Edit(i, f, x, v) ==
  /\ phase = "fn"
  /\ items' = [items EXCEPT ![i].annos[f][x] = v]
  /\ UNCHANGED <<phase, next, migration, hasError, returned, outcome>>

Bare == [annos |-> [f \in Formats |-> [x \in Fields |-> None]], rid |-> 0]

DropAnnotations(i) ==
  /\ phase = "fn"
  /\ items' = [items EXCEPT ![i] = Bare]
  /\ UNCHANGED <<phase, next, migration, hasError, returned, outcome>>

InsertObject(o) ==
  /\ phase = "fn" /\ Len(items) < MaxItems
  /\ \E at \in 1..Len(items) + 1 : items' = InsertAt(items, at, o)
  /\ UNCHANGED <<phase, next, migration, hasError, returned, outcome>>

DeleteObject(i) ==
  /\ phase = "fn"
  /\ items' = RemoveAt(items, i)
  /\ UNCHANGED <<phase, next, migration, hasError, returned, outcome>>

AddErrorResult ==
  /\ phase = "fn"
  /\ hasError' = TRUE
  /\ UNCHANGED <<phase, items, next, migration, returned, outcome>>

FunctionThrows ==
  /\ phase = "fn"
  /\ \E code \in {ExceptionError, FunctionConfigError} : Throw(code)

FunctionReturns ==
  /\ phase = "fn"
  /\ phase' = "format"
  /\ next' = 1
  /\ returned' = items
  /\ UNCHANGED <<items, migration, hasError, outcome>>

Function ==
  \/ \E i \in DOMAIN items :
       \/ \E f \in Formats, x \in Fields, v \in AnyValue : Edit(i, f, x, v)
       \/ DropAnnotations(i)
       \/ DeleteObject(i)
       \/ InsertObject(items[i])
  \/ InsertObject(Bare)
  \/ AddErrorResult
  \/ FunctionThrows
  \/ FunctionReturns

-----------------------------------------------------------------------------
\* Mutant: the loop does not get past an object without annotations.
ScanFormatStuck ==
  /\ phase = "format" /\ next <= Len(original)
  /\ LET a == original[next]
         used == [f \in Formats |-> use[f] \/ Uses(a, f)]
     IN IF Annotated(a) /\ \E f \in Formats : Uses(a, f) # used[f]
        THEN Throw(ExceptionError)
        ELSE /\ next' = IF Annotated(a) THEN next + 1 ELSE next
             /\ use' = IF Annotated(a) THEN used ELSE use
             /\ seen' = (seen \/ Annotated(a))
             /\ UNCHANGED <<phase, items, original>>
             /\ UNCHANGED <<hasError, returned, outcome>>

\* determineAnnotationFormat: one of the saved annotations, and after the last
ScanFormat ==
  /\ phase = "format" /\ next <= Len(original)
  /\ LET a == original[next]
         used == [f \in Formats |-> use[f] \/ Uses(a, f)]
     IN IF Annotated(a) /\ \E f \in Formats : Uses(a, f) # used[f]
        THEN Throw(ExceptionError)
        ELSE /\ next' = next + 1
             /\ use' = IF Annotated(a) THEN used ELSE use
             /\ seen' = (seen \/ Annotated(a))
             /\ UNCHANGED <<phase, items, original>>
             /\ UNCHANGED <<hasError, returned, outcome>>

\* Mutant: an input without annotations is taken to use no format.
FormatUnseen ==
  /\ phase = "format" /\ next > Len(original)
  /\ phase' = "reconcile"
  /\ next' = 1
  /\ UNCHANGED <<items, migration, hasError, returned, outcome>>

FormatDecided ==
  /\ phase = "format" /\ next > Len(original)
  /\ phase' = "reconcile"
  /\ next' = 1
  /\ use' = IF seen THEN use ELSE [f \in Formats |-> TRUE]
  /\ UNCHANGED <<items, original, seen, hasError, returned, outcome>>

\* reconcileAnnotations: one object of its loop, in the formats decided on
Known(o) == o.rid \in DOMAIN original

Altered(o) ==
  IF Known(o) THEN Propagate(SetMissing(o.annos), original[o.rid])
              ELSE SetMissing(o.annos)

\* Mutant: the resource id is left in the object.
ReconciledWithId(o) == [annos |-> Format(Altered(o), use), rid |-> o.rid]

Reconciled(o) == [annos |-> Format(Altered(o), use), rid |-> 0]

Rejected(o) ==
  \/ Known(o) /\ Conflict(SetMissing(o.annos), original[o.rid])
  \/ Mismatched(Reconciled(o).annos)

ReconcileObject ==
  /\ phase = "reconcile" /\ next <= Len(items)
  /\ IF Rejected(items[next])
     THEN Throw(ExceptionError)
     ELSE /\ items' = [items EXCEPT ![next] = Reconciled(items[next])]
          /\ next' = next + 1
          /\ UNCHANGED <<phase, migration, hasError, returned, outcome>>

\* Mutant: the results are looked at before the output is written.
ReconcileDoneOrError ==
  /\ phase = "reconcile" /\ next > Len(items)
  /\ IF hasError
     THEN Throw(ResultError)
     ELSE /\ phase' = "write"
          /\ UNCHANGED <<items, next, migration, hasError, returned, outcome>>

ReconcileDone ==
  /\ phase = "reconcile" /\ next > Len(items)
  /\ phase' = "write"
  /\ UNCHANGED <<items, next, migration, hasError, returned, outcome>>

\* writeConfigs, and its promise rejected
WriteOutput ==
  /\ phase = "write"
  /\ phase' = "report"
  /\ written' = TRUE
  /\ UNCHANGED <<items, next, migration, hasError, returned, exitCode>>

WriteFails == phase = "write" /\ Throw(ExceptionError)

\* the loop over getResults() that ends runFn, and the catch clause of run
Report == phase = "report" /\ Throw(IF hasError THEN ResultError ELSE 0)

Runtime ==
  \/ SaveObject \/ CallFunction
  \/ ScanFormat \/ FormatDecided \/ ReconcileObject \/ ReconcileDone
  \/ WriteOutput \/ WriteFails \/ Report

Next == ReadInput \/ ReadFails \/ Function \/ Runtime

\* Fairness: the JavaScript runtime goes on with what run() has to do.  The
\* function need not return, and the input need not arrive.
Spec == Init /\ [][Next]_vars /\ WF_vars(Runtime)

-----------------------------------------------------------------------------
(* Properties *)

TypeOK ==
  /\ phase \in Phases
  /\ items \in Seq(Item)
  /\ next \in Nat \ {0}
  /\ original \in Seq(Annotations)
  /\ use \in [Formats -> BOOLEAN]
  /\ seen \in BOOLEAN
  /\ hasError \in BOOLEAN
  /\ returned \in Seq(Item)
  /\ written \in BOOLEAN
  /\ exitCode \in {0, ResultError, ExceptionError, FunctionConfigError}

\* What the loops have done so far.
ScannedUpTo(n) ==
  LET scanned == {o \in DOMAIN original : o < n /\ Annotated(original[o])}
  IN /\ seen <=> scanned # {}
     /\ \A f \in Formats :
          use[f] <=> \E o \in scanned : Uses(original[o], f)

Reconciling == phase \in {"reconcile", "write", "report"} \/ written

ReconciledUpTo(n) ==
  /\ Len(items) = Len(returned)
  /\ \A i \in DOMAIN items :
       /\ i < n => items[i] = Reconciled(returned[i]) /\ ~Rejected(returned[i])
       /\ i >= n => items[i] = returned[i]

\* The inductive invariant of a run.
LoopInv ==
  /\ Len(items) <= MaxItems
  /\ phase \in {"args", "save", "fn"} => ScannedUpTo(1)
  /\ phase = "format" => ScannedUpTo(next) /\ items = returned
  /\ Reconciling =>
       /\ seen => ScannedUpTo(Len(original) + 1)
       /\ ~seen => \A f \in Formats : use[f]
       /\ ~seen => \A o \in DOMAIN original : ~Annotated(original[o])
       /\ ReconciledUpTo(next)
  /\ phase \in {"write", "report"} \/ written => next > Len(items)
  /\ written <=> \/ phase = "report"
                 \/ phase = "exited" /\ exitCode \in {0, ResultError}
  /\ phase # "exited" => exitCode = 0
  /\ exitCode = ResultError <=> phase = "exited" /\ written /\ hasError

IInv == TypeOK /\ LoopInv

(***************************************************************************)
(* An edit of the function's survives: if it gave a path or an index a new *)
(* value - under either key, with the other key edited alike, left alone   *)
(* or removed - then every format that is written has that value; if it    *)
(* gave the two keys different new values nothing is written; and if it    *)
(* only removed one of the keys, the value comes back.                     *)
(***************************************************************************)
NewValues(i, x) ==
  {v \in {returned[i].annos[f][x] : f \in Formats} :
     Truthy(v) /\ v # Saved(original[returned[i].rid], x)}

EditsSurvive ==
  written =>
    \A i \in DOMAIN returned, x \in AlteredFields :
      /\ Known(returned[i])
      /\ Truthy(Saved(original[returned[i].rid], x))
      /\ \E f \in Formats : Truthy(returned[i].annos[f][x])
      => \A f \in Formats :
           use[f] =>
             {items[i].annos[f][x]} =
               IF NewValues(i, x) = {}
               THEN {Saved(original[returned[i].rid], x)} ELSE NewValues(i, x)

(***************************************************************************)
(* The output keeps the formats of the input: when the annotated objects   *)
(* of the input all use the same formats, then every object of the output, *)
(* those the function added included, has its annotations in exactly these *)
(* formats, with the same values in each.                                  *)
(***************************************************************************)
FormatsOf(a) == {f \in Formats : Uses(a, f)}

FormatsKept ==
  written =>
    \A F \in SUBSET Formats :
      /\ \E o \in DOMAIN original : Annotated(original[o])
      /\ \A o \in DOMAIN original :
           Annotated(original[o]) => FormatsOf(original[o]) = F
      => \A i \in DOMAIN items, x \in Fields :
           /\ \A f \in Formats \ F : ~Truthy(items[i].annos[f][x])
           /\ \A f, g \in F : Truthy(items[i].annos[f][x]) =>
                items[i].annos[g][x] = items[i].annos[f][x]

(***************************************************************************)
(* The resource ids run() adds for its own use never reach the output.     *)
(***************************************************************************)
ResourceIdsRemoved == written => \A i \in DOMAIN items : items[i].rid = 0

(***************************************************************************)
(* All or nothing: the process exits with 0 or 1 exactly when it has       *)
(* written an output, every object of which was reconciled, and with 1     *)
(* exactly when that output has an error result.                           *)
(***************************************************************************)
ExitCodes ==
  phase = "exited" =>
    /\ exitCode \in {0, ResultError} <=> written
    /\ exitCode = ResultError <=> written /\ hasError
    /\ written => \A i \in DOMAIN items : ~Mismatched(items[i].annos)

(***************************************************************************)
(* Once the promise of the function has settled, and from the start until  *)
(* it is called, the process goes on until it exits.                       *)
(***************************************************************************)
RunEnds ==
  /\ phase = "save" ~> phase \in {"fn", "exited"}
  /\ phase = "format" ~> phase = "exited"

(***************************************************************************)
(* determineAnnotationFormat rejects an input whose annotated objects do   *)
(* not all use the same formats ("the legacy and internal annotation       *)
(* formats mismatch"), whatever order they come in.                        *)
(***************************************************************************)
MixedFormatsRejected ==
  written =>
    \A i, j \in DOMAIN original :
      Annotated(original[i]) /\ Annotated(original[j]) =>
        FormatsOf(original[i]) = FormatsOf(original[j])
=============================================================================
