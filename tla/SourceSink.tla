------------------------------ MODULE SourceSink ------------------------------
(***************************************************************************)
(* A directory of YAML files and the functions that read and write it:     *)
(* readYaml and writeYaml of ts/demo-functions, both run by `run'.         *)
(*                                                                         *)
(* readYaml replaces its objects by those in the files, and annotates each *)
(* with its file and its index there.  Other functions change the objects. *)
(* writeYaml brings the directory up to date, one file after the other,    *)
(* and then deletes the files that were there at its start and that it has *)
(* not come across.  Each step can fail, and each function be run again.   *)
(***************************************************************************)
EXTENDS Integers, Sequences, FiniteSets, SequencesExt

CONSTANTS MaxFiles,     \* bound: paths in the directory
          MaxKeys,      \* bound: objects
          MaxDocs,      \* bound: documents in all at the beginning
          BothFormats   \* does run annotate in the legacy format as well?

ASSUME BoundsAssumption ==
  MaxFiles \in Nat \ {0} /\ MaxKeys \in Nat /\ MaxDocs \in Nat
ASSUME FormatsAssumption == BothFormats \in BOOLEAN

VARIABLES disk,      \* the documents of each YAML file that is there
          phase,     \* the function that runs
          option,    \* its filter_invalid, or its overwrite
          objects,   \* the Configs, by key; between functions, the ResourceList
          rejected,  \* has readYaml added an error result?
          todo,      \* the files to read, or to write
          toDelete   \* filesToDelete

vars == <<disk, phase, option, objects, rejected, todo, toDelete>>

\* Files in the order of glob, objects in the order of their keys
Files == 1..MaxFiles
Keys == 1..MaxKeys

\* The path and index annotations, in the format the functions use and in the
\* legacy one that only run knows
Place(file, index) == [file |-> file, index |-> index]
NoPlace == Place(0, 0)
Object(place, legacy) == [place |-> place, legacy |-> legacy]

\* A document: an object with the annotations that are left in the file, and
\* run's resource id; or what is no Kubernetes object; or no YAML at all.
Doc(key, legacy, id) == [key |-> key, legacy |-> legacy, id |-> id]
Plain(key) == Doc(key, NoPlace, 0)
Invalid == Plain(-1)
Torn == Plain(-2)

Present == DOMAIN disk
Least(S) == CHOOSE x \in S : \A y \in S : x <= y

-----------------------------------------------------------------------------
Init ==
  /\ \E present \in SUBSET Files :
       disk \in [present -> UNION {[1..n -> {Plain(k) : k \in Keys} \cup {Invalid}] :
                                     n \in 0..MaxDocs}]
  /\ Cardinality(UNION {{f} \X DOMAIN disk[f] : f \in Present}) <= MaxDocs
  /\ phase = "idle" /\ option = FALSE
  /\ objects = <<>> /\ rejected = FALSE
  /\ todo = {} /\ toDelete = {}

Start(function, with, files) ==
  /\ phase = "idle"
  /\ phase' = function /\ option' = with
  /\ todo' = files
  /\ UNCHANGED <<disk, rejected>>

\* The function returns, throws or is killed.
Exit ==
  /\ phase' = "idle" /\ option' = FALSE /\ rejected' = FALSE
  /\ todo' = {} /\ toDelete' = {}

-----------------------------------------------------------------------------
(* readYaml *)

\* deleteAll, and the list of files
StartSource(filterInvalid) ==
  /\ Start("source", filterInvalid, Present)
  /\ objects' = <<>>
  /\ UNCHANGED toDelete

\* The keys in a file that is no torn one, and the last document with one of them
KeysOf(f) == {d.key : d \in Range(disk[f]) \ {Invalid}}
LastOf(f, k) ==
  CHOOSE i \in DOMAIN disk[f] :
    disk[f][i].key = k /\ \A j \in DOMAIN disk[f] : disk[f][j].key = k => j <= i

\* Documents that are filtered out have no index.
IndexOf(f, i) == Cardinality({j \in 1..i - 1 : disk[f][j] # Invalid})

\* Mutant: the index annotation is left out.
InsertedWithoutIndex(f) ==
  [k \in DOMAIN objects \cup KeysOf(f) |->
     IF k \in KeysOf(f) THEN Object(Place(f, 0), disk[f][LastOf(f, k)].legacy)
                        ELSE objects[k]]

\* insert keeps the last of the objects with one key.
Inserted(f) ==
  [k \in DOMAIN objects \cup KeysOf(f) |->
     IF k \in KeysOf(f)
     THEN Object(Place(f, IndexOf(f, LastOf(f, k))), disk[f][LastOf(f, k)].legacy)
     ELSE objects[k]]

\* parseFile, where one invalid document is a reason to insert none of the file.
ParseFile ==
  LET f == Least(todo) IN
  /\ phase = "source" /\ todo # {} /\ Torn \notin Range(disk[f])
  /\ IF Invalid \in Range(disk[f]) /\ ~option
     THEN rejected' = TRUE /\ UNCHANGED objects
     ELSE objects' = Inserted(f) /\ UNCHANGED rejected
  /\ todo' = todo \ {f}
  /\ UNCHANGED <<disk, phase, option, toDelete>>

\* run's reconcileAnnotations finds that a file has another object's annotations.
Mismatched ==
  BothFormats /\ \E k \in DOMAIN objects :
                   objects[k].legacy \notin {NoPlace, objects[k].place}

\* An error result ends the pipeline, although run writes the output.
SourceReturns ==
  /\ phase = "source" /\ todo = {} /\ ~Mismatched
  /\ objects' = IF rejected THEN <<>> ELSE
                [k \in DOMAIN objects |->
                   Object(objects[k].place,
                          IF BothFormats THEN objects[k].place ELSE NoPlace)]
  /\ Exit
  /\ UNCHANGED disk

\* A file cannot be read or parsed, or run throws.
SourceFails ==
  /\ phase = "source"
  /\ objects' = <<>>
  /\ Exit
  /\ UNCHANGED disk

-----------------------------------------------------------------------------
(* writeYaml *)

\* buildSourcePath; a conventional path may be any function of the key.
Path(k) ==
  IF objects[k].place # NoPlace THEN objects[k].place.file ELSE 1 + (k % MaxFiles)

Group(f) == {k \in DOMAIN objects : Path(k) = f}
Groups == {Path(k) : k \in DOMAIN objects}

\* run numbers the objects in the order of their keys.
ResourceId(k) == Cardinality({l \in DOMAIN objects : l <= k})

\* Mutant: the documents of a file are not sorted.
BeforeByKey(k, l) == k < l

\* compareSourceIndex, and the order of groupBy among equals
Before(k, l) ==
  LET i == objects[k].place.index  j == objects[l].place.index
  IN i < j \/ (i = j /\ k < l)

\* The i-th document has i - 1 others before it.
Rank(k) == Cardinality({l \in Group(Path(k)) : Before(l, k)})
KeyAt(f, i) == CHOOSE k \in Group(f) : Rank(k) = i - 1

Documents(f) ==
  [i \in 1..Cardinality(Group(f)) |->
     Doc(KeyAt(f, i), objects[KeyAt(f, i)].legacy, ResourceId(KeyAt(f, i)))]

\* groupBy has the groups in the order of their first keys.
NextGroup == Path(Least({k \in DOMAIN objects : Path(k) \in todo}))

WithFile(f, docs) == [g \in Present \cup {f} |-> IF g = f THEN docs ELSE disk[g]]

\* Mutant: the check for files is left out.
StartSinkAnyway(overwrite) ==
  /\ Start("sink", overwrite, Groups)
  /\ toDelete' = Present
  /\ UNCHANGED objects

\* Without overwrite writeYaml throws if there are any files.
StartSink(overwrite) ==
  /\ overwrite \/ Present = {}
  /\ Start("sink", overwrite, Groups)
  /\ toDelete' = Present
  /\ UNCHANGED objects

\* Mutant: a file that is up to date is left among filesToDelete.
WriteFileIfStale ==
  /\ phase = "sink" /\ todo # {}
  /\ disk' = WithFile(NextGroup, Documents(NextGroup))
  /\ todo' = todo \ {NextGroup}
  /\ toDelete' = IF disk' = disk THEN toDelete ELSE toDelete \ {NextGroup}
  /\ UNCHANGED <<phase, option, objects, rejected>>

WriteFile ==
  /\ phase = "sink" /\ todo # {}
  /\ disk' = WithFile(NextGroup, Documents(NextGroup))
  /\ todo' = todo \ {NextGroup}
  /\ toDelete' = toDelete \ {NextGroup}
  /\ UNCHANGED <<phase, option, objects, rejected>>

\* Mutant: files that are up to date are written again.
TearAnyFile ==
  /\ phase = "sink" /\ todo # {}
  /\ disk' = WithFile(NextGroup, <<Torn>>)
  /\ Exit
  /\ UNCHANGED objects

\* writeFileSync fails half way; a file that is up to date is not written.
TearFile ==
  /\ phase = "sink" /\ todo # {}
  /\ NextGroup \in Present => disk[NextGroup] # Documents(NextGroup)
  /\ disk' = WithFile(NextGroup, <<Torn>>)
  /\ Exit
  /\ UNCHANGED objects

\* Mutant: files are deleted while others are being written.
DeleteFileAtOnce ==
  /\ phase = "sink" /\ toDelete # {}
  /\ disk' = [g \in Present \ {Least(toDelete)} |-> disk[g]]
  /\ toDelete' = toDelete \ {Least(toDelete)}
  /\ UNCHANGED <<phase, option, objects, rejected, todo>>

DeleteFile ==
  /\ phase = "sink" /\ todo = {} /\ toDelete # {}
  /\ disk' = [g \in Present \ {Least(toDelete)} |-> disk[g]]
  /\ toDelete' = toDelete \ {Least(toDelete)}
  /\ UNCHANGED <<phase, option, objects, rejected, todo>>

SinkReturns ==
  /\ phase = "sink" /\ todo = {} /\ toDelete = {}
  /\ Exit
  /\ UNCHANGED <<disk, objects>>

\* Any other call of the file system fails, or the process is killed.
SinkFails ==
  /\ phase = "sink"
  /\ Exit
  /\ UNCHANGED <<disk, objects>>

-----------------------------------------------------------------------------
(* What happens in between. *)

\* A function, between source and sink, moves an object to a file (its index stays,
\* and is 0 if it had none), drops one or adds one.  run keeps the formats equal.
Function ==
  /\ phase = "idle"
  /\ \/ \E k \in DOMAIN objects, f \in Files :
          LET p == Place(f, objects[k].place.index)
          IN objects' = [objects EXCEPT ![k] =
                           Object(p, IF BothFormats THEN p ELSE NoPlace)]
     \/ \E gone \in DOMAIN objects :
          objects' = [k \in DOMAIN objects \ {gone} |-> objects[k]]
     \/ \E new \in Keys \ DOMAIN objects :
          objects' = [k \in DOMAIN objects \cup {new} |->
                        IF k = new THEN Object(NoPlace, NoPlace) ELSE objects[k]]
  /\ UNCHANGED <<disk, phase, option, rejected, todo, toDelete>>

\* Someone renames or deletes a file.
User ==
  /\ phase = "idle"
  /\ \E f \in Present, to \in SUBSET Files :
       /\ Cardinality(to) <= 1
       /\ disk' = [g \in (Present \ {f}) \cup to |-> disk[IF g \in to THEN f ELSE g]]
  /\ UNCHANGED <<phase, option, objects, rejected, todo, toDelete>>

Source == ParseFile \/ SourceReturns \/ SourceFails
Sink == WriteFile \/ TearFile \/ DeleteFile \/ SinkReturns \/ SinkFails

Next ==
  \/ \E with \in BOOLEAN : StartSource(with) \/ StartSink(with)
  \/ Source \/ Sink \/ Function \/ User

Spec == Init /\ [][Next]_vars

-----------------------------------------------------------------------------
(* Properties *)

Places == {NoPlace} \cup [file : Files, index : Nat]
Docs == {Invalid, Torn} \cup [key : Keys, legacy : Places, id : 0..MaxKeys]

TypeOK ==
  /\ Present \subseteq Files
  /\ disk \in [Present -> Seq(Docs)]
  /\ phase \in {"idle", "source", "sink"} /\ option \in BOOLEAN
  /\ DOMAIN objects \subseteq Keys
  /\ objects \in [DOMAIN objects -> [place : Places, legacy : Places]]
  /\ rejected \in BOOLEAN
  /\ todo \subseteq Files /\ toDelete \subseteq Files

\* A directory that one run of writeYaml may have made: every file has objects
\* only, and no object is there twice.
KeysIn(docs) == [i \in DOMAIN docs |-> docs[i].key]

Clean ==
  /\ \A f \in Present : disk[f] # <<>> /\ Range(KeysIn(disk[f])) \subseteq Keys
  /\ \A f, g \in Present : \A i \in DOMAIN disk[f], j \in DOMAIN disk[g] :
       disk[f][i].key = disk[g][j].key => f = g /\ i = j

\* What readYaml has got through, and what writeYaml has.
Read == Present \ todo

SourceInv ==
  phase = "source" =>
    /\ todo \subseteq Present /\ toDelete = {}
    /\ \A k \in DOMAIN objects : objects[k].place.file \in Read
    /\ rejected => \E f \in Read : Invalid \in Range(disk[f])
    /\ Clean => /\ DOMAIN objects = UNION {KeysOf(f) : f \in Read}
                /\ \A f \in Read : \A i \in DOMAIN disk[f] :
                     objects[disk[f][i].key].place = Place(f, i - 1)

SinkInv ==
  phase = "sink" =>
    /\ todo \subseteq Groups
    /\ \A f \in Groups \ todo : f \in Present /\ disk[f] = Documents(f)
    /\ toDelete \subseteq Present \ (Groups \ todo)
    /\ Present \subseteq Groups \cup toDelete
    /\ ~option => toDelete = {} /\ Present \cap todo = {}

IdleInv == phase = "idle" => ~rejected /\ todo = {} /\ toDelete = {}

IInv == TypeOK /\ SourceInv /\ SinkInv /\ IdleInv

\* The directory holds these objects and no others: each once, in the file of
\* its path and in the order of the indices there.
IsInput ==
  /\ Present = Groups
  /\ \A f \in Present :
       LET k == KeysIn(disk[f]) IN
       /\ Range(k) = Group(f)
       /\ \A i, j \in DOMAIN k :
            i < j => /\ k[i] # k[j]
                     /\ objects[k[i]].place.index <= objects[k[j]].place.index

(***************************************************************************)
(* When writeYaml returns, the directory is its input: whatever files were *)
(* there, after whatever failures of earlier runs, and whichever files the *)
(* input shares with the directory.                                        *)
(***************************************************************************)
DirectoryIsInput == [][SinkReturns => IsInput]_vars

(***************************************************************************)
(* Nothing is lost early: writeYaml deletes a file only when all objects   *)
(* of the input are on disk, each whole and in its file, and the file is   *)
(* none of those; so an object that moved is never without a file because  *)
(* of a deletion, wherever the run stops.                                  *)
(***************************************************************************)
NothingDeletedEarly ==
  [][phase = "sink" =>
       \A f \in Present \ Present' :
         /\ f \notin Groups
         /\ \A k \in DOMAIN objects :
              Path(k) \in Present /\ k \in Range(KeysIn(disk[Path(k)]))]_vars

(***************************************************************************)
(* Without overwrite, writeYaml touches no file it has not made, even if   *)
(* it fails.                                                               *)
(***************************************************************************)
KeptWithoutOverwrite ==
  [][phase = "sink" /\ ~option =>
       \A f \in Present : f \in Present' /\ disk'[f] = disk[f]]_vars

(***************************************************************************)
(* A second run changes nothing: once the directory is what writeYaml      *)
(* would write, no step of a run touches a file, not even one that fails.  *)
(***************************************************************************)
UpToDate == Present = Groups /\ \A f \in Groups : disk[f] = Documents(f)

SecondRunChangesNothing == [][phase = "sink" /\ disk' # disk => ~UpToDate]_vars

(***************************************************************************)
(* Source and sink are inverse: if every file has objects only and no key  *)
(* is there twice, readYaml returns objects that writeYaml would write to  *)
(* the same files in the same order.                                       *)
(***************************************************************************)
RoundTrip ==
  [][SourceReturns /\ Clean =>
       /\ Groups' = Present
       /\ \A f \in Present : KeysIn(Documents(f)') = KeysIn(disk[f])]_vars

(***************************************************************************)
(* "Remove these annotations before writing files" (write_yaml.ts:53): of  *)
(* the annotations the source has set, none is left in a file.             *)
(***************************************************************************)
AnnotationsRemoved ==
  \A f \in Present : \A i \in DOMAIN disk[f] : disk[f][i].legacy = NoPlace
=============================================================================
