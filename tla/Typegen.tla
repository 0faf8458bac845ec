------------------------------- MODULE Typegen -------------------------------
(***************************************************************************)
(* typegen: TypeScript types from a swagger.json.                          *)
(*                                                                         *)
(* The parser reads the definitions, in the order in which Go ranges over  *)
(* a map; FilterDefinitions keeps those the filters name and what they     *)
(* need, by a worklist; printTS writes a file for each package.            *)
(***************************************************************************)
EXTENDS Integers, Sequences, FiniteSets

CONSTANTS Packages,        \* packages of definitions
          ShortPackages,   \* those whose names have two parts only
          Names,           \* their names, and the last names of inline types
          MetaPackage,     \* the package of ObjectMeta
          MetaName,        \* the name "ObjectMeta"
          ItemName,        \* the name "Item"
          MaxDefinitions,  \* bound: definitions
          MaxLinks         \* bound: references and inline types of them all

Ref(package, name) == [package |-> package, name |-> name]

\* What has a place of its own in swagger.json; inline types have longer names.
Refs == {Ref(p, <<n>>) : p \in Packages, n \in Names}
IsNested(r) == Len(r.name) > 1

\* The type of the metadata of Kubernetes objects
ObjectMeta == Ref(MetaPackage, <<MetaName>>)

ASSUME ObjectMetaAssumption ==
  MetaPackage \in Packages \ ShortPackages /\ MetaName \in Names
ASSUME BoundsAssumption == MaxDefinitions \in Nat /\ MaxLinks \in Nat

VARIABLES phase,        \* how far typegen has got
          definitions,  \* the Definitions parsed so far
          kubernetes,   \* the Refs IsKubernetesObject is true of
          selected,     \* history: the Refs that match the filters
          refs,         \* the worklist of FilterDefinitions
          included,     \* its result
          files         \* what has been written, by package

vars == <<phase, definitions, kubernetes, selected, refs, included, files>>

-----------------------------------------------------------------------------
(***************************************************************************)
(* A definition: an object, an alias of one type, or an alias of an array  *)
(* or a map.  uses are the other definitions it names, itself or in the    *)
(* inline types printed with it.  Its inline types are nested, the         *)
(* NestedTypes of the object, or dropped: an inline item type of an array  *)
(* that is in an array, a map or an alias, always called ItemName, is no   *)
(* NestedType of anything, nor are those inside it.  An object is a        *)
(* Kubernetes object if it has a kind and its metadata is an ObjectMeta;   *)
(* objects are the inline types that are.  Left out are inline types of    *)
(* one definition with the same last name.                                 *)
(***************************************************************************)
Definition == [form : {"object", "alias", "container"}, kubernetes : BOOLEAN,
               uses : SUBSET Refs, nested : SUBSET Names, dropped : SUBSET Names,
               objects : SUBSET Names]

WellFormed(d) ==
  /\ d.kubernetes => d.form = "object" /\ ObjectMeta \in d.uses
  /\ d.form # "object" => d.nested = {} /\ Cardinality(d.uses) <= 1
  /\ d.form = "alias" => d.dropped = {}
  /\ d.form = "container" => d.uses = {} \/ d.dropped = {}
  /\ d.nested \cap d.dropped = {}
  /\ d.dropped # {} => ItemName \in d.dropped
  /\ d.objects \subseteq d.nested \cup d.dropped
  /\ d.objects \cap d.nested # {} => ObjectMeta \in d.uses

Links(d) == Cardinality(d.uses) + Cardinality(d.nested) + Cardinality(d.dropped)

\* What swagger.json can define
Definitions == {d \in Definition : WellFormed(d) /\ Links(d) <= MaxLinks}

\* Inline types of r, by their full names, and as the parser records them.
InlineRefs(r, names) == {Ref(r.package, Append(r.name, n)) : n \in names}
LastRefs(r, names) == {Ref(r.package, <<n>>) : n \in names}

\* The inline types a definition names
NestedRefs(r, d) == InlineRefs(r, d.nested \cup (d.dropped \cap {ItemName}))

\* Mutant: an object imports only what is of its own package.
OwnImports(r) ==
  LET d == definitions[r]
  IN IF d.form = "container" THEN {}
     ELSE {u \in d.uses : u.package = r.package} \cup NestedRefs(r, d)

\* What Imports returns; an alias has imports only if it is of a Ref itself.
Imports(r) ==
  LET d == definitions[r]
  IN IF d.form = "container" THEN {} ELSE d.uses \cup NestedRefs(r, d)

Parsed == DOMAIN definitions

Init ==
  /\ phase = "parse"
  /\ definitions = <<>> /\ kubernetes = {}
  /\ selected = {} /\ refs = {} /\ included = {}
  /\ files = <<>>

LinksSoFar ==
  Cardinality({l \in Parsed \X Refs : l[2] \in definitions[l[1]].uses})
    + Cardinality({l \in Parsed \X Names : l[2] \in definitions[l[1]].nested})
    + Cardinality({l \in Parsed \X Names : l[2] \in definitions[l[1]].dropped})

\* parseObject records inline types, and then the object, under their last names.
ParseDefinition(r, d) ==
  /\ phase = "parse"
  /\ r \notin Parsed
  /\ Cardinality(Parsed) < MaxDefinitions
  /\ LinksSoFar + Links(d) <= MaxLinks
  /\ definitions' = [s \in Parsed \cup {r} |->
                       IF s = r THEN d ELSE definitions[s]]
  /\ LET others == (kubernetes \ LastRefs(r, d.nested \cup d.dropped))
                      \cup LastRefs(r, d.objects)
     IN kubernetes' = IF d.kubernetes THEN others \cup {r}
                      ELSE IF d.form = "object" THEN others \ {r} ELSE others
  /\ UNCHANGED <<phase, selected, refs, included, files>>

-----------------------------------------------------------------------------
(* FilterDefinitions *)

\* The filters match any of the definitions; * matches all.
Select(matching) ==
  /\ phase = "parse"
  /\ phase' = "filter"
  /\ selected' = matching /\ refs' = matching
  /\ UNCHANGED <<definitions, kubernetes, included, files>>

\* Mutant: a Ref that has been included is included again.
IncludeAgain(r) ==
  /\ phase = "filter" /\ r \in refs
  /\ ~IsNested(r)
  /\ included' = included \cup {r}
  /\ refs' = (refs \ {r}) \cup (IF r \in Parsed THEN Imports(r) ELSE {})
  /\ UNCHANGED <<phase, definitions, kubernetes, selected, files>>

\* Mutant: what an included definition needs is not followed.
IncludeAlone(r) ==
  /\ phase = "filter" /\ r \in refs
  /\ r \notin included /\ ~IsNested(r)
  /\ included' = included \cup {r}
  /\ refs' = refs \ {r}
  /\ UNCHANGED <<phase, definitions, kubernetes, selected, files>>

\* The next Ref of the worklist; what it needs goes to the end, in any order.
Include(r) ==
  /\ phase = "filter" /\ r \in refs
  /\ r \notin included /\ ~IsNested(r)
  /\ included' = included \cup {r}
  /\ refs' = (refs \ {r}) \cup (IF r \in Parsed THEN Imports(r) ELSE {})
  /\ UNCHANGED <<phase, definitions, kubernetes, selected, files>>

Skip(r) ==
  /\ phase = "filter" /\ r \in refs
  /\ r \in included \/ IsNested(r)
  /\ refs' = refs \ {r}
  /\ UNCHANGED <<phase, definitions, kubernetes, selected, included, files>>

Filtered ==
  /\ phase = "filter" /\ refs = {}
  /\ phase' = "print"
  /\ UNCHANGED <<definitions, kubernetes, selected, refs, included, files>>

-----------------------------------------------------------------------------
(* printTS *)

Package(p) == {r \in included : r.package = p}
ToPrint == {r.package : r \in included} \ DOMAIN files

\* The classes and, inside them, inner ones; and the header: imports by package,
\* and one line if one of the definitions, by its last name, is a Kubernetes object.
Contents(p) ==
  [classes    |-> Package(p),
   inner      |-> UNION {InlineRefs(r, definitions[r].nested) : r \in Package(p)},
   imports    |-> {u.package : u \in UNION {Imports(r) : r \in Package(p)}} \ {p},
   kubernetes |-> Package(p) \cap kubernetes # {}]

\* No Ref to nothing has been included, with a Definition that is nil, and no
\* other package it names has a name that is too short for tsPackageAlias.
Printable(p) ==
  /\ Package(p) \subseteq Parsed
  /\ \A r \in Package(p) : \A u \in definitions[r].uses :
       u.package \notin ShortPackages \ {p}

PrintPackage(p) ==
  /\ phase = "print" /\ p \in ToPrint
  /\ Printable(p)
  /\ files' = [q \in DOMAIN files \cup {p} |-> IF q = p THEN Contents(p) ELSE files[q]]
  /\ UNCHANGED <<phase, definitions, kubernetes, selected, refs, included>>

Stop(how) ==
  /\ phase' = how
  /\ UNCHANGED <<definitions, kubernetes, selected, refs, included, files>>

PrintPanics(p) ==
  /\ phase = "print" /\ p \in ToPrint
  /\ ~Printable(p)
  /\ Stop("panic")

WriteFails == phase = "print" /\ ToPrint # {} /\ Stop("failed")

Printed == phase = "print" /\ ToPrint = {} /\ Stop("done")

Filter == (\E r \in refs : Include(r) \/ Skip(r)) \/ Filtered
PrintTS == (\E p \in Packages : PrintPackage(p) \/ PrintPanics(p)) \/ WriteFails \/ Printed

Next ==
  \/ \E r \in Refs, d \in Definitions : ParseDefinition(r, d)
  \/ \E matching \in SUBSET Parsed : Select(matching)
  \/ Filter \/ PrintTS

\* Nothing but its own next statement keeps typegen from going on.
Spec == Init /\ [][Next]_vars /\ WF_vars(Filter) /\ WF_vars(PrintTS)

-----------------------------------------------------------------------------
(* Properties *)

Ended == {"done", "failed", "panic"}

TypeOK ==
  /\ phase \in {"parse", "filter", "print"} \cup Ended
  /\ Parsed \subseteq Refs
  /\ \A r \in Parsed : definitions[r] \in Definition
  /\ kubernetes \subseteq Refs
  /\ selected \subseteq Refs /\ included \subseteq Refs
  /\ \A r \in refs : r \in Refs \/ IsNested(r)
  /\ DOMAIN files \subseteq Packages

\* With each of its definitions, a closed set has what that needs.
Closed(S, T) ==
  \A r \in S \cap Parsed : \A u \in Imports(r) : u \in T \/ IsNested(u)

\* The worklist has what is missing, and nothing has come in that is not needed.
WorklistInv ==
  /\ selected \subseteq included \cup refs
  /\ Closed(included, included \cup refs)
  /\ \A S \in SUBSET Refs :
       selected \subseteq S /\ Closed(S, S) =>
         included \subseteq S /\ \A r \in refs : r \in S \/ IsNested(r)
  /\ phase \in {"print"} \cup Ended => refs = {}

IInv == TypeOK /\ WorklistInv

(***************************************************************************)
(* The files fit together, and do so at every moment: each definition that *)
(* a printed one names is in the same file or in one that its file         *)
(* imports, which is written unless typegen has stopped before it; its     *)
(* nested types are printed inside it; and a file with a definition that   *)
(* implements KubernetesObject imports that.  Three things are left out:   *)
(* what an alias of an array or a map names, for which Imports returns     *)
(* nothing (alias.go:30); inline types that are dropped (arrays.go:73,     *)
(* map.go:46); and the import of KubernetesObject for nested types and for *)
(* definitions with the last name of one (objects.go:136, ts.go:64).       *)
(***************************************************************************)
NestedName(r) ==
  \E s \in Parsed :
    s.package = r.package
      /\ r.name \in {<<n>> : n \in definitions[s].nested \cup definitions[s].dropped}

\* The file p can name u, whose own file is written, or would be next.
Reaches(p, u) ==
  /\ u.package \in files[p].imports \cup {p}
  /\ \/ u.package \in DOMAIN files /\ u \in files[u.package].classes
     \/ phase # "done" /\ u.package \in ToPrint

FilesFit ==
  \A p \in DOMAIN files : \A r \in files[p].classes :
    /\ definitions[r].form # "container" =>
         \A u \in definitions[r].uses : Reaches(p, u)
    /\ InlineRefs(r, definitions[r].nested) \subseteq files[p].inner
    /\ definitions[r].kubernetes /\ ~NestedName(r) => files[p].kubernetes

(***************************************************************************)
(* typegen ends, although definitions refer to each other in circles, as   *)
(* JSONSchemaProps does to itself.                                         *)
(***************************************************************************)
TypegenEnds == (phase = "filter") ~> (phase \in Ended)
=============================================================================
