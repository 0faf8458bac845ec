# A verification project for the kpt functions SDK

kpt functions are programs that read a `ResourceList` (Kubernetes objects, a
`functionConfig` and results), change the objects or report results, and write
it back; kpt runs them in pipelines. This repository has an SDK for writing
them in TypeScript, one for Go, functions to read and write directories, and the
tools around them. The modules here model the parts of both SDKs every function
goes through, the directory a pipeline begins and ends with, and the generator
of types; TLC checks them on small instances, and TLAPS proves the properties
that matter most for every instance.

Contents: [the system](#the-system), [the modules](#the-modules),
[the runs](#the-runs), [the proofs](#the-proofs),
[what disagrees](#what-the-runs-found), [what is not modelled](#what-is-not-modelled),
[the plan](#the-plan).

## The system

Everything runs in one process, and nothing is persisted but the output and the
directory of the sink. The hard part is seldom interleaving. It is state that
code of the *user* - the function - changes between two steps of the SDK,
references to one node held in several places, and failures half way.

| Component | State | Operations | What is hard | What makes it correct | Module |
|---|---|---|---|---|---|
| `Configs` (`ts/kpt-functions/src/types.ts`) | a sorted array of pairs of key and object; functionConfig; results | `insert`, `delete`, `deleteAll`, `deepCopy`, `getAll`, `get`, `groupBy`, ... | objects are handed out by reference, so a key may be stale; a recursive binary search with a running offset | it is a map from the keys of insertion; `insert` replaces and `delete` removes what has not been renamed, a copy misses no key | `Configs`, `KeyedStore` |
| `run` (`run.ts`, with `io.ts`, `metadata.ts`) | the objects' annotations, the map from resource ids to saved annotations, the phase, the exit code | read, save annotations, call the function, decide the format, reconcile, write, report | the same value under an internal and a legacy annotation, of which the function may change either; exceptions in the middle of a loop | edits survive, the formats of the input are kept, nothing is written after an exception, the exit code tells what happened | `KptRun` |
| Go pipeline (`go/fn/run.go`, `runnerProcessor.go`, `resourcelist.go`, `io.go`) | `ResourceList` with its results; the verdict of the chain | `AsMain`, `Run`, `Execute`, `WithContext(...).Process`, `Chain`, `ApplyFnBySelector`, `LogResult` | two kinds of failure (`false`, an error), a chain that goes on after the one and stops at the other, results handed on by append or by assignment | success means that all passed, no result is lost, the output is written before an error is returned | `FnRun` |
| Go results (`result.go`) | a slice | adders, `ExitCode`, `Sort` | severities that decide nothing | an order, sorting is stable | partly in `FnRun` |
| Go objects (`object.go`, `origin.go`) and YAML nodes (`internal/`) | a tree of YAML nodes shared by reference | nested get, set, remove, upsert; slices of sub-objects; typed conversion | aliasing, maps detached while they are referred to, duplicate keys, failure half way down a path, a protected annotation with several ways in | what is written is read, a failed call changes nothing, the upstream identifier is protected as far as its lock reaches; it is a tree | `SubObjects`, `KubeTree` |
| `read_yaml`, `write_yaml` (`ts/demo-functions`) | a directory | read all files; write, overwrite and delete files | partial failure and retries, annotations in two formats, indices that tie | the directory afterwards is the input, nothing is deleted before all is written, source and sink are inverse | `SourceSink` |
| other demo functions, `testing.ts`, `result.ts` | none of their own | a loop over objects | nothing | - | environment of `Configs`, `KptRun` |
| `typegen` | parsed swagger, a registry of objects, a worklist | parse, filter, print | circles of references, the arbitrary order of Go maps, references to nothing | every file has or imports what it refers to, at every moment; it ends | `Typegen` |
| `kfn`, `create-kpt-functions` | files, child processes | build, init, prompts | which file is used | - | not modelled |
| generated types (`gen/`), `go/api` | none | none | - | - | not modelled |

How they interact: a function's main program calls `run` (or `AsMain`). It
builds the `Configs` (the `ResourceList`) from the input, and hands it to the
function by reference. The function calls the store's operations and edits
objects in place. After it returns, `run` walks over the same objects again,
then writes the store. Go adds a level: what is called may be a chain of
processors, each of which gets what the one before left, and changes objects
through `SubObject`s that share their nodes. A pipeline may begin with `readYaml`
and end with `writeYaml`, which are functions themselves: the annotations `run`
adds around them are part of what they read and write.

## The modules

### `KeyedStore`: what a store promises

A map from keys to objects, and the call in progress with the arguments it has
left: `Put` and `Remove` handle the next argument at the key it has now, `Clear`
and `Copy` empty the map, `Request` is a new call and `Rename` an edit between
calls. It is the abstract specification `Configs` implements; the only thing it
leaves open is the order in which `Copy` hands on the objects.

### `Configs`: the store of the TypeScript SDK

| Code | Model |
|---|---|
| `kubernetesKey(o)` at this moment | `key[o]`; `Rename(o, k)` is an edit through a reference from `getAll` |
| `this.objects`, an array of `[key, object]` | `objects`, a sequence of entries; an entry's key is the one its object had when it was inserted |
| a call of `insert`, `delete` or `deepCopy` and its remaining arguments | `call`, with the action of the same name |
| the slice and the offset a call of `indexOf` has | `window`; one action per recursive call: `LookBefore`, `LookAfter` |
| `indexOf` returning, and the `splice` after it | `InsertHere`, `DeleteHere`, with `Found`, `Missing` and `Index` for what it returns |
| `deepCopy`: a new store filled by `insert` | the copy takes the place of `objects`, the original stays in `source` until the copy is done |

JavaScript runs one call to its end, so renames and new calls happen only
between calls; the steps inside a call show the search, not concurrency. Keys
are numbers (strings are only compared by the code). The function may rename any
object at any time between calls, stored or not; the properties name the objects
that a stale key keeps the store from finding (`Renamed`).

### `KptRun`: one run of a TypeScript function

`phase` is how far `runFn` has got, and `next` the object that the loop of that
phase is at. An object is its annotations, in the two formats `internal` and
`legacy`, and its resource id `rid`.

| Code | Model |
|---|---|
| parse arguments, `readConfigs` | `ReadInput`, `ReadFails` |
| `preprocessResourceForInternalAnnotationsMigration` | `SaveObject` per object (`Mismatched` is `checkMismatchAnnos`) |
| `await fn(configs)` | `CallFunction`, then any number of steps of `Function`, then `FunctionReturns` or `FunctionThrows` |
| `determineAnnotationFormat` | `ScanFormat` per saved annotations, `FormatDecided` |
| `reconcileAnnotations` | `ReconcileObject` per object: `SetMissing`, `Conflict`, `Propagate`, `Format`, `Mismatched`, in the order of the code |
| `writeConfigs` | `WriteOutput`, `WriteFails` |
| the loop over results; the catch clause of `run` | `Report`; `Throw(code)` sets `process.exitCode` |

The values of annotations are abstract, but for one distinction the code makes:
the empty string is an annotation that is present yet falsy (`EmptyValues`).
The annotations that `checkAnnotationsAltered` compares with the saved ones are
`AlteredFields` (path and index), `Fields` has the id as well. What the function
may do is bounded by nothing but `MaxItems`.

### `FnRun`: one run of a Go function

`chain` is the list of processors: a Runner wrapped by `WithContext` (of four
kinds, by what `config` can do with them), a function, or a function that calls
`ApplyFnBySelector`.

| Code | Model |
|---|---|
| `AsMain` refusing its argument | `Refuse` |
| `ParseResourceList`, `byteReadWriter.Read` | `Parse`, `ReadFails`: the results come along in one and not in the other |
| `Chain`, `ChainFunctions` | `Returns(passed, err)` and `ChainReturns` |
| `runnerProcessor.Process` up to the Runner | `RunWithoutConfig`, `RejectConfig`, `RunWithConfig`, `ProcessPanics` |
| `Runner.Run` and the append behind it | `RunnerAddsResult`, `RunnerReturns` |
| a `ResourceListProcessorFunc` | `CallFunc`, `LogResult`, `FuncReturns` |
| `ApplyFnBySelector` | `ApplyFails` per object that fails, `ApplyReturns` |
| `ToYAML` and the write to stdout; `byteReadWriter.Write` | `Write`, `WriteFails`; `Encoded` says which results are written |

`verdicts` and `logged` are history: what each processor returned and every
result any of them added. Of the results of the input we assume of kyaml's
`ByteReadWriter` that it writes back those it read unless `Write` replaced them.

### `KubeTree` and `SubObjects`: the fields of a Go object

`KubeTree` is what an object is to a function: a tree, in which a step changes the
fields at one path and below and leaves all others alone. `SubObjects` implements
it on a heap of nodes. The pairs of a map are kept by key, as sequences, since one
key may have several pairs.

| Code | Model |
|---|---|
| a `yaml.Node` and its `Content` | `heap[n]`, with `fields[k]`, the values of its pairs with key `k`, or `items` |
| the `SubObject`s a function has | `held`; the root is the object, to begin with `metadata`, `annotations` and the identifier in them |
| a value: a scalar, a slice, a Go map or a struct | `Value`; a map or a struct has a path of names, one per level, to a string; `NodesOf` are the nodes it becomes |
| `SetNestedField`, `SetSlice`, `RemoveNestedField`, `RemoveAnnotationsIfEmpty`, `NestedSubObject` | the action of that name begins the `call` |
| a turn of the loops of `SetNestedValue`, `RemoveNestedField`, `GetNestedValue` | `Descend`, `MakeMap`, and at the end `SetValue`, `RemoveField`, `FoundSubObject` or `GiveUp` |
| `UpsertMap`, `GetMap`, `NestedSlice` | one step each |
| `hasUpstreamIdentifier` | `Locked` |

`Settable` says which kinds of value the function sets. A Go map or a struct that
has annotations inside (`BringsAnnotations`) passes the lock, which looks only at
the last field of a path and at the keys of a map that is set as annotations;
`LockHolds` says that nothing else does.

### `SourceSink`: a directory, its source and its sink

`disk` maps paths to documents, and is all that outlives a function. `phase` is
the function that runs; each call of the file system is a step that may be the
last one (`SourceFails`, `SinkFails`, `TearFile` for a write that stops half way).
Between two functions, others change the objects and users the files.

| Code | Model |
|---|---|
| `readYaml`, and `parseFile` for each file | `StartSource`, `ParseFile`, with `Inserted` for the annotations and `insert` |
| `reconcileAnnotations` and `writeConfigs` after it | `SourceReturns`, unless `Mismatched` |
| `writeYaml`: the check for files, the groups, each file | `StartSink`, `WriteFile` (`Path`, `Before`, `Documents`) |
| `filesToDelete` | `toDelete`, `DeleteFile` |

A document keeps what stays in the file besides the object: the legacy annotations
and run's resource id, which decide whether a file is up to date.

### `Typegen`: from definitions to files

| Code | Model |
|---|---|
| `parseDefinition`, `parseObject` | `ParseDefinition` of any of `Definitions`; `kubernetes` are the Refs for which `RefObjects` has a Kubernetes object |
| inline types: `NestedTypes`, and those that `parseArray` drops | `nested`, `dropped` of a `Definition`; `objects` are those with a kind and an `ObjectMeta`; `NestedRefs` are those that are named; `ShortPackages` have names of two parts |
| `Imports` | `Imports`; inline types have names of two parts (`IsNested`) |
| the matching of filters | `Select`: any subset |
| the loop over `refs` in `FilterDefinitions` | `Include`, `Skip`, `Filtered`; the order of Go maps is any order |
| `printTS` | `PrintPackage` (`Contents`: classes, inner classes, imports, the import of `KubernetesObject`), `PrintPanics` (not `Printable`: a nil definition, or a package whose name is too short), `WriteFails`, `Printed` |

## The runs

Deadlock is checked in the runs of `Configs` and `SourceSink`. In the others the
system may stop: a process exits, `typegen` ends, and `SubObjects` comes to its
bounds. `MCKptRun` adds the symmetry of the annotation values, which the
run with a liveness property does not use.

| Run | Question | Bounds |
|---|---|---|
| `configs` | is the store right, whatever the function renames? | 3 objects, 3 keys, up to 2 arguments |
| `configs_stale_delete` | does `delete` find a renamed object? (no) | 2 objects |
| `kpt_run` | all edits, conflicting ones included, clones, insertions and deletions | 2 objects, 1 annotation in 2 formats, 3 values up to symmetry |
| `kpt_run_empty` | empty values, an annotation that is not compared with its saved value, and that the run ends | 1 object, 2 annotations, 1 value and the empty one |
| `kpt_run_mixed` | are mixed formats rejected? (depends on the order) | 2 objects |
| `fn_run` | does a run swallow a failure, return before it has written, run what it should not, lose or reorder a result; does it end? | both entry points, all 4 arguments, 2 processors of 6 kinds, 1 result in the input, 2 added |
| `fn_run_selector` | are results appended with `ApplyFnBySelector`? (no) | up to 2 processors |
| `sub_objects` | what do references to shared nodes break? Nothing of what the tree promises | 5 nodes before the last value is set, 3 names, paths of 2 fields, values of 2 levels and all kinds, 2 references |
| `sub_objects_lock` | can a function that sets Go maps overwrite the identifier? (yes) | values of 2 levels |
| `source_sink` | what is in the directory after any sequence of runs, failures and changes? | 2 files, 2 objects, 3 documents to begin with |
| `source_sink_annotations` | are the source's annotations removed from the files? (only one format of them) | 1 file |
| `typegen` | do the printed files fit together at every moment, and does it end? | 3 packages, one with a short name, 2 names, 2 definitions, 2 references and inline types, with references to nothing |

Why the bounds are enough for TLC's part: three objects make the binary search
take both turns and end both ways, at every index of arrays of length 0 to 3,
and let a rename collide with another key; reconciliation handles each object by
itself, so two show how one affects the other (formats, clones); three values
are the saved one and two different edits, which is all `Conflict` compares;
two processors put one before or behind the one that fails. Four nodes are the
object to begin with, its metadata, annotations and identifier; one more, and what the
last calls add, is enough to detach the annotations, to write others into a map
that a second reference holds, and to upsert a map under a key that has a value, and
read or remove the two pairs it then has (that a set replaces the first of them is left to
`WritesAlwaysLand`). Two levels of a value
are a map that is set at `metadata` with annotations inside. Two files and objects let an object move from one file to
another while the run stops between the two writes (three files were also
checked, with one document to begin with). Two definitions can refer to each
other in a circle, be in two packages, and refer to what is not there; two links are such a
circle, or one reference (to itself, or of a Kubernetes object to `ObjectMeta`) and an inline type. Beyond
the bounds the theorems take over, which hold for any.

**Fairness.** Weak fairness is assumed of the steps of the SDK alone (`Step`,
`Runtime`, and `Filter` and `PrintTS` of typegen): they are sequential code without loops that wait, and the language's
runtime executes the next statement. `SourceSink` and `SubObjects` assume none:
a run may be killed at any step. Nothing is assumed of the function, which
need not return, nor of the input, which need not arrive. So `CallsReturn` says
that a call of the store returns, `RunEnds` that a run ends once the function has
settled, and `TypegenEnds` that the worklist runs out.

## The proofs

`Configs_proofs`, `ConfigsStore_proofs`, `KptRun_proofs`, `FnRun_proofs`,
`SubObjects_proofs`, `SubObjectsTree_proofs`, `SourceSink_proofs` and
`Typegen_proofs` hold theorems, for any values of the constants that satisfy the
named assumptions of the modules. Every safety property of the passing runs is
one of them, and so are both refinements.

- **`Configs`.** `StoreInvariant`: the inductive invariant `IInv` is the types,
  `SortedByKey` and `SearchedOutside` - the entries outside the window of the
  running search have smaller keys before it and larger ones behind it. The
  order alone is not inductive: that an insertion keeps it needs to know where
  the search ended; `AlwaysSearchedOutside` is the other half by itself. The lemmas `SpliceIn`, `SpliceOver` and `SpliceOut` say
  what `splice` does to a sequence; `SortedIn` and its siblings what that does
  to the order. `InsertAlwaysReplaces`, `DeleteAlwaysRemoves`
  and `DeepCopyAlwaysKeepsKeys` say what single calls leave behind, with no hypothesis
  on what has been renamed. The first two follow from the order, in which a key
  identifies its entry (`OneEntryPerKey`). The last needs `CopyUnderWay`: what the copy
  holds has its present key and is of the original, and each object of the original is
  still to come or has its key taken (`CopiedEntries`). `ImplementsKeyedStore`: `Spec`
  implies `StoreSpec`, the refinement of the map; every step of a search is a
  stutter and each splice is the `Put` or the `Remove` of the argument at hand
  (`RefineInsert`, `RefineDelete`; `MissingEntries` for a key that is not there).
  This holds with renames too: the map's keys are those of insertion.
- **`KptRun`.** `RunInvariant`: `IInv` is the types and `LoopInv`, which says what
  the loops have done so far: `use` and `seen` summarise the saved annotations up
  to `next` (`ScannedUpTo`), and the objects before `next` are the reconciled
  ones the function returned while those behind are untouched (`ReconciledUpTo`).
  From it follow `NeverResourceIds`, `ExitCodesTell`, `AlwaysFormatsKept` (through
  `AlteredInBoth`: before unused formats are removed every annotation is there in
  both) and `AlwaysEditsSurvive` (by cases on which of the two annotations the
  function changed).
- **`FnRun`.** `ChainInvariant`: `success` and `fnErr` summarise the verdicts, only
  the last of which is an error (`ReturnsChain` is the step that matters).
  `FailuresAlwaysSurface` and `AlwaysStopsAtErrors` follow. `ErrorsAlwaysAfterOutput`
  relates what the entry point returns to what it has written before: its
  invariant says that the error result of each rejected functionConfig is among the
  results from then on (`Explained`). `AlwaysAppended`: unless a
  processor calls `ApplyFnBySelector`, `AsMain` writes the results of the input followed by
  all that were added, and `Execute` those added, or those of the input if there are none.
  Its invariant relates `results`, the Runner's own `fresh` ones and `logged` to what
  has been read (`AppendInv`).
  `ResultsOnlyGrow` is the same of the results in memory, for `Execute` too; it
  needs only that no results are gathered outside a Runner (`FreshInv`).
  `RejectedNeverRun`: `RejectedInv` says that the processor that runs is not a
  rejected one, and what the rejected ones in front of it have logged.
  `AlwaysInOrder` holds for every chain, `ApplyFnBySelector` included: what is
  written are some of the results of the input and those added, each at most
  once and in the order they were added. "In order" is stated by a function from
  the places of the one sequence to those of the other that keeps their order
  (`InOrder`), so that appending, dropping and taking a part are one lemma each;
  `OrderInv` says it of the results in memory, of those a Runner gathers, and of
  both together while it runs.
- **`SourceSink`.** `DirectoryInvariant`: `IInv` is the types, `SourceInv` (what
  `readYaml` has inserted is what it has read), `SinkInv` (what `writeYaml` has got
  through is on disk and not to be deleted) and `IdleInv`. From it follow
  `DirectoryBecomesInput`, `NeverDeletedEarly`, `AlwaysKeptWithoutOverwrite` and
  `SecondRunNeverChanges`, for any number of files, objects, retries and
  failures. The documents of a file are its objects sorted by index; that
  sorting lists each once is `DocumentsInOrder`. The model picks the i-th object
  as the one with i - 1 before it, and `Ranks` shows that in any finite strict order
  there is exactly one. `AlwaysRoundTrip`: a directory without duplicates that
  `readYaml` has read is what `writeYaml` would write (`CleanIsDocuments`).
- **`SubObjects`.** `NodesInvariant`: `IInv` says that a node is the value of one
  pair at most (`OnePlace`), that the root is a map and in none (`RootOnTop`), that
  a call that has changed nodes is on its way through maps it made itself
  (`OnlyMade`) and that a value on its way has passed the lock (`OnlyUnlocked`).
  All steps that write are one kind of change - the pairs of one key in one map
  are replaced, and nodes appended - which `Changes` names and `ChangedHeap`
  describes; each conjunct is shown of a change, not of each method.
  `FailedNeverChange` follows from `OnlyMade`: a map just made has no pairs, so a
  call that has made one cannot fail. `LockAlwaysHolds` needs no hypothesis on
  what the function sets. It names the strings that are forged in the whole heap,
  whether or not a reader finds them, so that a detached map cannot hide one; from
  `OnlyUnlocked` follows that no step adds to them but a `SetValue` whose value has
  annotations inside.
- **`SubObjects` as a tree.** `NodesImplementTree`: `Spec` implies `KubeTree`'s
  specification under the refinement `tree`, for paths of any length and any
  number of references. What a reader finds is defined by recursion on the depth
  (`Levels`); that the recursive function exists, and every fact about all levels,
  is shown by the least number for which it fails (`AllNumbers`). From `OnePlace`
  follows that a node is at one path (`OnePath`), a path leads to one node
  (`OneNode`), and a change of one pair leaves all paths alone that do not go
  through it (`SamePlaces`). `WritesAlwaysLand` adds `CallWay`: the nodes the call
  has gone through lead, field by field, from its `SubObject` to where it is, even
  though other references exist; so a reader finds the one exactly if it finds
  the other (`WayUp`, `WayDown`).
- **`Typegen`.** `WorklistInvariant`: `IInv` says that what is included, and what
  waits in the worklist, holds every type that the included ones need
  (`WorklistInv`), so that an empty worklist leaves nothing out; and that
  nothing gets in that is not needed. `FilesAlwaysFit` follows from it and from
  what the files hold of the included types (`FilesInv`, `KubernetesInv`):
  whatever the references are, circles included, in whatever order the maps are
  walked, and wherever typegen stops, be it by a panic. What it leaves out is false
  of the code (below).

Only model-checked: liveness under fairness (`CallsReturn`, `RunEnds`,
`TypegenEnds`), which is out of the prover's reach. The bounds of the runs are
arbitrary numbers in the theorems (`BoundsAssumption`): any number of nodes,
references and fields, and readers that look as deep as `MaxFields` allows.

## What the runs found

The disagreements between the code and what the repository says of it are the
runs expected to be violated; `PROJECT.json` quotes the lines.

1. A store searches by the keys its objects had when they were inserted. Once the
   function has renamed one, `delete` does not find it. For the same reason `insert`
   does not replace it (`types.ts:96-97`, `:107`), and `deepCopy` loses one of two that now
   have the same key (`types.ts:280`, `:287`); `InsertReplaces` and `DeepCopyKeepsKeys`
   say what is left of these.
2. An input that mixes annotation formats is rejected or accepted depending on
   the order of its objects: a format found unused is set again by a later object.
3. `ApplyFnBySelector` drops the results of the input and of earlier processors.
4. The lock on the upstream identifier, which should not be modified, looks at the
   last field of a path and at the keys of a map that is set as annotations. A map
   of maps that is set at `metadata` passes it, and so does a struct, and
   overwrites the identifier.
5. The sink removes the annotations of the source in one format only. The legacy
   ones stay in the files, and when a file is renamed, or an earlier document of
   it dropped, the next source run ends with an exception.

More show in the modules without a run of their own. The first five are why
properties make exceptions; TLC has a counterexample to each without them.

- `Execute` drops the results of the input as soon as a processor adds one: `Read` does
  not take them over (`io.go:46-49`), and `Write` assigns those of the chain over them
  (`io.go:63`), although results are said to be only appended (`runnerProcessor.go:68`).
  `ResultsKept` says what is written.
- "Error indicates the result is an error. Will cause the function to exit non-0."
  (`result.go:27`) It does not: only the verdict or the error of a processor does
  (`run.go:83`). `FailuresSurface` therefore says when an invocation succeeds by the
  verdicts alone, and nothing of the results.
- "Imports are the imports required to use this Definition." (`definition.go:24`) An alias
  of an array or a map of a type has none (`alias.go:30`): the type is neither imported
  nor, with a filter, printed.
- An inline item type of an array that is in an array (`arrays.go:73`), a map
  (`map.go:46`) or an alias, which is said to have no nested types (`parser.go:79`), is
  named and never printed.
- "Import KubernetesObject only if there is a KubernetesObject in this package."
  (`ts.go:61`) A class printed inside another may be one (`properties.go:75`), and a
  definition may lose its place in the registry to an inline type with its last name
  (`objects.go:136`); the header sees neither and lacks the import.
- `Refuse` takes the bare `Runner` and the user's own processor that the comment of
  `AsMain` allows (`run.go:28`).
- The upstream identifier can also be taken away, by numbers, slices, maps above
  it and removals.
- `UpsertMap` adds a second pair of a key where it says that it replaces
  (`map.go:276`); `GetMap` returns a `SubObject` of what is no map, although it says
  that it panics (`object.go:845`).

## What is not modelled

- Reading and writing YAML and JSON, and the wording of messages: a read or a
  write succeeds or fails.
- `Configs`: `groupBy` and the `functionConfig` accessors, which change nothing.
- `KptRun` sees `configs.getAll()` as a sequence; that it is one, and in which
  order, is what `Configs` is about. Arguments are parsed in one step; `--help`,
  with which argparse exits 0 before anything is read, is left out.
- `FnRun`: the items; a Runner that panics does so in one step; the context.
- `SubObjects`: the order of different keys in a map, comments, parsing and the
  encoding of values. A Go map or a struct has one field per level; empty ones are left
  out (`UpsertMap` makes them). Cycles through slices: slices are leaves to the
  properties, and `GetMap` of one is left out. Getters that return no reference.
- `SourceSink`: a path has one spelling; paths that differ only in `./` name one
  file in the directory but two to the sink, which then overwrites or deletes
  (`write_yaml.ts:62`, `:70`). Directories, and file types other than YAML. The
  source begins a pipeline and has no input, so `run` has saved nothing when it
  returns: `SourceReturns` needs no reconciliation by the resource ids that a sink may have
  left in the files (`run.ts:328-385`). `writeYaml` strips path and index from the
  objects it was given (`write_yaml.ts:56-59`); nothing comes after it in the
  pipeline, and `SinkReturns` leaves them as they were.
- `Typegen`: descriptions and the text of fields and constructors; filters are an
  arbitrary choice, though the code matches `Pod` to `PodTemplate` too. Inline
  types are one level deep, and two of one definition have different last names.
  A write that fails leaves no file, where the code may leave part of one.
- `UpsertObjectToItems`, `CheckResourceDuplication` and the sorting of items and
  results in the Go SDK: pure functions of one call, left to its unit tests.
- The demo functions that loop once over the objects are the `Function` of the
  modules. `kfn` and `create-kpt-functions` call docker and git and prompt the
  user. Test helpers have no state of their own.
- The generated types: by far most of the lines of the repository, copies of one
  another in four packages. They are data that `typegen` printed; what it prints,
  and what it imports, is `Typegen`.

## The plan

1. **done** `KeyedStore`, `Configs`, `KptRun`, `FnRun`, and their proofs.
2. **done** `SubObjects` with `KubeTree`, `SourceSink`, `Typegen`, model-checked.
3. **done** Proofs of the new modules, and the properties of single calls of
   `Configs` and the order of results in `FnRun`.
4. The safety half of termination, which the prover can reach: each step of a
   search, of a run and of the worklist makes a bounded number smaller, so that
   only fairness is left to the liveness runs.
