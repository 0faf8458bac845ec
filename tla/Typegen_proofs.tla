--------------------------- MODULE Typegen_proofs ---------------------------
(***************************************************************************)
(* Proofs about Typegen: the worklist holds what is missing, nothing comes *)
(* in that is not needed, and the files printed fit together.              *)
(***************************************************************************)
EXTENDS Typegen, TLAPS

\* A Ref to a definition has a name of one part, and is no Ref to a nested type.
LEMMA RefNames == \A r \in Refs : \E n \in Names : r.name = <<n>>
  <1> TAKE r \in Refs
  <1>1. PICK p \in Packages, n \in Names : r = Ref(p, <<n>>)
    BY DEF Refs
  <1> QED
    BY <1>1 DEF Ref

LEMMA RefsOfPackages == \A p \in Packages, n \in Names : Ref(p, <<n>>) \in Refs
  <1> TAKE p \in Packages, n \in Names
  <1>1. \E q \in Packages, m \in Names : Ref(p, <<n>>) = Ref(q, <<m>>)
    OBVIOUS
  <1> QED
    BY <1>1 DEF Refs

LEMMA RefParts == \A r \in Refs : r.package \in Packages
  BY DEF Refs, Ref

LEMMA RefsNotNested == \A r \in Refs : ~IsNested(r)
  <1> TAKE r \in Refs
  <1>1. PICK n \in Names : r.name = <<n>>
    BY RefNames
  <1>2. Len(<<n>>) = 1
    OBVIOUS
  <1> QED
    BY <1>1, <1>2 DEF IsNested

\* What a definition imports are definitions and its own nested types.
LEMMA ImportsType ==
  ASSUME NEW r \in Parsed, Parsed \subseteq Refs, definitions[r] \in Definition
  PROVE  \A u \in Imports(r) : u \in Refs \/ IsNested(u)
  <1> SUFFICES ASSUME NEW u \in NestedRefs(r, definitions[r])
               PROVE  IsNested(u)
    BY DEF Imports, Definition
  <1>1. PICK n \in Names : u = Ref(r.package, Append(r.name, n))
    BY DEF NestedRefs, InlineRefs, Definition
  <1>2. PICK m \in Names : r.name = <<m>>
    BY RefNames
  <1>3. u.name = Append(<<m>>, n)
    BY <1>1, <1>2 DEF Ref
  <1>4. Len(Append(<<m>>, n)) = 2
    OBVIOUS
  <1> QED
    BY <1>3, <1>4 DEF IsNested

-----------------------------------------------------------------------------
\* The files hold what printTS has made of the packages, before it had to stop.
FilesInv ==
  /\ phase \in {"parse", "filter"} => files = <<>>
  /\ \A p \in DOMAIN files : Package(p) \subseteq Parsed /\ files[p] = Contents(p)
  /\ phase = "done" => ToPrint = {}

\* Nothing is in the worklist before the filters are applied.
PhaseInv == phase = "parse" => selected = {} /\ refs = {} /\ included = {}

\* Kubernetes objects are known, but for those that nested types have replaced.
KubernetesInv ==
  \A r \in Parsed : definitions[r].kubernetes /\ ~NestedName(r) => r \in kubernetes

\* The definitions and the registry are as they were parsed.
ParsedInv == TypeOK /\ PhaseInv /\ KubernetesInv

Inv == ParsedInv /\ WorklistInv /\ FilesInv

-----------------------------------------------------------------------------
LEMMA InitInv == Init => Inv
  <1> SUFFICES ASSUME Init PROVE Inv
    OBVIOUS
  <1>1. Parsed = {} /\ DOMAIN files = {}
    BY DEF Init, Parsed
  <1>2. ParsedInv
    BY <1>1 DEF Init, ParsedInv, TypeOK, PhaseInv, KubernetesInv, Ended
  <1>3. WorklistInv
    BY DEF Init, WorklistInv, Closed, Ended
  <1>4. FilesInv
    BY <1>1 DEF Init, FilesInv
  <1> QED
    BY <1>2, <1>3, <1>4 DEF Inv

-----------------------------------------------------------------------------
\* Types are kept: a definition parsed is well-formed, a Ref included is no nested one.
LEMMA TypeStep == Inv /\ [Next]_vars => TypeOK'
  <1> SUFFICES ASSUME Inv, [Next]_vars PROVE TypeOK'
    OBVIOUS
  <1> USE DEF Inv, ParsedInv, TypeOK, Ended
  <1>1. CASE \E r \in Refs, d \in Definitions : ParseDefinition(r, d)
    <2>1. PICK r \in Refs, d \in Definitions : ParseDefinition(r, d)
      BY <1>1
    <2>2. kubernetes' \subseteq Refs
      <3>1. d \in Definition /\ d.objects \subseteq Names
        BY DEF Definitions, Definition
      <3>2. LastRefs(r, d.objects) \subseteq Refs
        BY <3>1, RefParts, RefsOfPackages DEF LastRefs
      <3> QED
        BY <2>1, <3>2 DEF ParseDefinition
    <2>3. Parsed' = Parsed \cup {r} /\ \A s \in Parsed' : definitions'[s] \in Definition
      BY <2>1 DEF ParseDefinition, Parsed, Definitions
    <2>4. UNCHANGED <<phase, selected, refs, included, files>>
      BY <2>1 DEF ParseDefinition
    <2> QED
      BY <2>2, <2>3, <2>4
  <1>2. CASE \E matching \in SUBSET Parsed : Select(matching)
    BY <1>2 DEF Select, Parsed
  <1>3. CASE \E r \in refs : Include(r)
    <2>1. PICK r \in refs : Include(r)
      BY <1>3
    <2>2. r \in Refs
      BY <2>1 DEF Include
    <2>3. r \in Parsed => \A u \in Imports(r) : u \in Refs \/ IsNested(u)
      BY ImportsType
    <2> QED
      BY <2>1, <2>2, <2>3 DEF Include, Parsed
  <1>4. CASE \E r \in refs : Skip(r)
    BY <1>4 DEF Skip, Parsed
  <1>5. CASE Filtered
    BY <1>5 DEF Filtered, Parsed
  <1>6. CASE \E p \in Packages : PrintPackage(p)
    <2>1. PICK p \in Packages : PrintPackage(p)
      BY <1>6
    <2>2. DOMAIN files' = DOMAIN files \cup {p}
      BY <2>1 DEF PrintPackage
    <2> QED
      BY <2>1, <2>2 DEF PrintPackage, Parsed
  <1>7. CASE PrintTS /\ ~\E p \in Packages : PrintPackage(p)
    BY <1>7 DEF PrintTS, PrintPanics, WriteFails, Printed, Stop, Parsed
  <1>8. CASE UNCHANGED vars
    BY <1>8 DEF vars, Parsed
  <1> QED
    BY <1>1, <1>2, <1>3, <1>4, <1>5, <1>6, <1>7, <1>8 DEF Next, Filter, PrintTS

\* A step either parses a definition or leaves all definitions alone.
LEMMA DefinitionsStay ==
  [Next]_vars =>
    \/ UNCHANGED <<definitions, kubernetes>>
    \/ \E r \in Refs, d \in Definitions : ParseDefinition(r, d)
  BY DEF Next, Filter, PrintTS, Select, Include, Skip, Filtered, PrintPackage, PrintPanics,
         WriteFails, Printed, Stop, vars

\* A Kubernetes object is known from when it is parsed until a nested type takes its name.
LEMMA KubernetesStep == Inv /\ [Next]_vars => KubernetesInv'
  <1> SUFFICES ASSUME Inv, [Next]_vars PROVE KubernetesInv'
    OBVIOUS
  <1>1. CASE UNCHANGED <<definitions, kubernetes>>
    BY <1>1 DEF Inv, ParsedInv, KubernetesInv, NestedName, Parsed
  <1>2. CASE \E r \in Refs, d \in Definitions : ParseDefinition(r, d)
    <2>1. PICK r \in Refs, d \in Definitions : ParseDefinition(r, d)
      BY <1>2
    <2> DEFINE others == (kubernetes \ LastRefs(r, d.nested \cup d.dropped))
                           \cup LastRefs(r, d.objects)
    <2>2. /\ r \notin Parsed /\ Parsed' = Parsed \cup {r}
          /\ definitions'[r] = d
          /\ \A s \in Parsed : definitions'[s] = definitions[s]
      BY <2>1 DEF ParseDefinition, Parsed
    <2>3. kubernetes' = IF d.kubernetes THEN others \cup {r}
                        ELSE IF d.form = "object" THEN others \ {r} ELSE others
      BY <2>1 DEF ParseDefinition
    <2> SUFFICES ASSUME NEW s \in Parsed', definitions'[s].kubernetes, ~NestedName(s)'
                 PROVE  s \in kubernetes'
      BY DEF KubernetesInv
    <2>4. CASE s = r
      BY <2>2, <2>3, <2>4
    <2>5. CASE s # r
      <3>1. s \in Parsed /\ definitions[s].kubernetes
        BY <2>2, <2>5
      <3>2. ~NestedName(s)
        BY <2>2 DEF NestedName
      <3>3. s \in kubernetes
        BY <3>1, <3>2 DEF Inv, ParsedInv, KubernetesInv
      <3>4. ASSUME NEW n \in d.nested \cup d.dropped, s = Ref(r.package, <<n>>) PROVE FALSE
        <4>1. r.package = s.package /\ s.name = <<n>>
          BY <3>4 DEF Ref
        <4>2. NestedName(s)'
          BY <4>1, <2>2 DEF NestedName
        <4> QED
          BY <4>2
      <3>5. s \in others
        BY <3>3, <3>4 DEF LastRefs
      <3> QED
        BY <3>5, <2>3, <2>5
    <2> QED
      BY <2>4, <2>5
  <1> QED
    BY <1>1, <1>2, DefinitionsStay

\* The worklist stays complete, and whatever set is closed stays big enough.
LEMMA WorklistStep == Inv /\ [Next]_vars => WorklistInv'
  <1> SUFFICES ASSUME Inv, [Next]_vars PROVE WorklistInv'
    OBVIOUS
  <1>1. CASE \E r \in Refs, d \in Definitions : ParseDefinition(r, d)
    <2>1. phase' = "parse" /\ selected' = {} /\ refs' = {} /\ included' = {}
      BY <1>1 DEF ParseDefinition, Inv, ParsedInv, PhaseInv
    <2> QED
      BY <2>1 DEF WorklistInv, Closed, Ended
  <1>2. CASE \E matching \in SUBSET Parsed : Select(matching)
    <2>1. phase' = "filter" /\ selected' = refs' /\ included' = {}
      BY <1>2 DEF Select, Inv, ParsedInv, PhaseInv
    <2> QED
      BY <2>1 DEF WorklistInv, Closed, Ended
  <1> DEFINE Needed(S) == selected \subseteq S /\ Closed(S, S)
  <1>3. CASE \E r \in refs : Include(r)
    <2>1. PICK r \in refs : Include(r)
      BY <1>3
    <2> DEFINE new == IF r \in Parsed THEN Imports(r) ELSE {}
    <2>2. /\ included' = included \cup {r} /\ refs' = (refs \ {r}) \cup new
          /\ phase' = "filter" /\ selected' = selected /\ definitions' = definitions
      BY <2>1 DEF Include
    <2>3. Closed(included, included \cup refs)'
      <3> SUFFICES ASSUME NEW s \in included' \cap Parsed, NEW u \in Imports(s)
                   PROVE  u \in included' \cup refs' \/ IsNested(u)
        BY <2>2 DEF Closed, Imports, NestedRefs, Parsed
      <3>1. CASE s = r
        BY <3>1, <2>2
      <3>2. CASE s # r
        <4>1. u \in included \cup refs \/ IsNested(u)
          BY <3>2, <2>2 DEF Inv, WorklistInv, Closed
        <4> QED
          BY <4>1, <2>2
      <3> QED
        BY <3>1, <3>2
    <2>4. ASSUME NEW S \in SUBSET Refs, Needed(S)
          PROVE  included' \subseteq S /\ \A u \in refs' : u \in S \/ IsNested(u)
      <3>1. included \subseteq S /\ \A u \in refs : u \in S \/ IsNested(u)
        BY <2>4 DEF Inv, WorklistInv
      <3>2. r \in S
        BY <2>1, <3>1 DEF Include
      <3>3. \A u \in new : u \in S \/ IsNested(u)
        BY <2>4, <3>2 DEF Closed
      <3> QED
        BY <3>1, <3>2, <3>3, <2>2
    <2>5. \A S : Closed(S, S)' <=> Closed(S, S)
      BY <2>2 DEF Closed, Imports, NestedRefs, Parsed
    <2>6. selected' \subseteq included' \cup refs'
      BY <2>2 DEF Inv, WorklistInv
    <2> QED
      BY <2>2, <2>3, <2>4, <2>5, <2>6 DEF WorklistInv, Ended
  <1>4. CASE \E r \in refs : Skip(r)
    <2>1. PICK r \in refs : Skip(r)
      BY <1>4
    <2>2. /\ refs' = refs \ {r} /\ phase' = "filter"
          /\ UNCHANGED <<selected, definitions, included>>
      BY <2>1 DEF Skip
    <2>3. r \in included \/ IsNested(r)
      BY <2>1 DEF Skip
    <2>4. selected \subseteq Refs
      BY DEF Inv, ParsedInv, TypeOK
    <2>5. selected' \subseteq included' \cup refs'
      BY <2>2, <2>3, <2>4, RefsNotNested DEF Inv, WorklistInv
    <2>6. Closed(included, included \cup refs)'
      <3> SUFFICES ASSUME NEW s \in included \cap Parsed, NEW u \in Imports(s)
                   PROVE  u \in included \cup refs' \/ IsNested(u)
        BY <2>2 DEF Closed, Imports, NestedRefs, Parsed
      <3>1. u \in included \cup refs \/ IsNested(u)
        BY DEF Inv, WorklistInv, Closed
      <3> QED
        BY <3>1, <2>2, <2>3
    <2>7. \A S : Closed(S, S)' <=> Closed(S, S)
      BY <2>2 DEF Closed, Imports, NestedRefs, Parsed
    <2>8. ASSUME NEW S \in SUBSET Refs, Needed(S)
          PROVE  included' \subseteq S /\ \A u \in refs' : u \in S \/ IsNested(u)
      BY <2>2, <2>8 DEF Inv, WorklistInv
    <2> QED
      BY <2>2, <2>5, <2>6, <2>7, <2>8 DEF WorklistInv, Ended
  <1>5. CASE UNCHANGED <<selected, definitions, included, refs>>
              /\ (phase' \in {"print"} \cup Ended => refs = {})
    <2>1. \A S, T : Closed(S, T)' <=> Closed(S, T)
      BY <1>5 DEF Closed, Imports, NestedRefs, Parsed
    <2> QED
      BY <1>5, <2>1 DEF Inv, WorklistInv
  <1>6. CASE Filtered \/ PrintTS \/ UNCHANGED vars
    <2>1. UNCHANGED <<selected, definitions, included, refs>>
      BY <1>6 DEF Filtered, PrintTS, PrintPackage, PrintPanics, WriteFails, Printed, Stop, vars
    <2>2. phase \in {"print"} \cup Ended => refs = {}
      BY DEF Inv, WorklistInv
    <2>3. phase' \in {"print"} \cup Ended => refs = {}
      BY <1>6, <2>2
         DEF Filtered, PrintTS, PrintPackage, PrintPanics, WriteFails, Printed, Stop, vars, Ended
    <2> QED
      BY <1>5, <2>1, <2>3
  <1> QED
    BY <1>1, <1>2, <1>3, <1>4, <1>6 DEF Next, Filter

\* What a file holds does not change once it is written, nor does what it was made from.
LEMMA FilesStep == Inv /\ [Next]_vars => FilesInv' /\ PhaseInv'
  <1> SUFFICES ASSUME Inv, [Next]_vars PROVE FilesInv' /\ PhaseInv'
    OBVIOUS
  <1> USE DEF Inv, ParsedInv, FilesInv, PhaseInv
  <1>1. CASE \E r \in Refs, d \in Definitions : ParseDefinition(r, d)
    <2>1. phase' = "parse" /\ files' = <<>> /\ UNCHANGED <<selected, refs, included>>
      BY <1>1 DEF ParseDefinition
    <2>2. selected' = {} /\ refs' = {} /\ included' = {}
      BY <1>1, <2>1 DEF ParseDefinition
    <2> QED
      BY <2>1, <2>2
  <1>2. CASE \E matching \in SUBSET Parsed : Select(matching)
    BY <1>2 DEF Select
  <1>3. CASE \E r \in refs : Include(r) \/ Skip(r)
    BY <1>3 DEF Include, Skip
  <1>4. CASE Filtered
    BY <1>4 DEF Filtered
  <1> DEFINE Same == UNCHANGED <<definitions, kubernetes, included>>
  <1>5. Same => \A p : Package(p)' = Package(p) /\ Contents(p)' = Contents(p) /\ Parsed' = Parsed
    BY DEF Package, Contents, Imports, NestedRefs, Parsed
  <1>6. CASE \E p \in Packages : PrintPackage(p)
    <2>1. PICK p \in Packages : PrintPackage(p)
      BY <1>6
    <2>2. Same /\ phase = "print" /\ phase' = "print" /\ Package(p) \subseteq Parsed
      BY <2>1 DEF PrintPackage, Printable
    <2>3. /\ DOMAIN files' = DOMAIN files \cup {p}
          /\ \A q \in DOMAIN files' : files'[q] = IF q = p THEN Contents(p) ELSE files[q]
      BY <2>1 DEF PrintPackage
    <2> QED
      BY <2>2, <2>3, <1>5
  <1>7. CASE \E how \in Ended : Stop(how) /\ phase = "print" /\ (how = "done" => ToPrint = {})
    <2>1. Same /\ files' = files /\ phase' \in Ended
      BY <1>7 DEF Stop
    <2>2. ToPrint' = ToPrint
      BY <2>1 DEF ToPrint
    <2>3. phase' = "done" => ToPrint = {}
      BY <1>7 DEF Stop
    <2> QED
      BY <2>1, <2>2, <2>3, <1>5 DEF Ended
  <1>8. CASE UNCHANGED vars
    <2>1. Same /\ UNCHANGED <<phase, files, selected, refs>> /\ ToPrint' = ToPrint
      BY <1>8 DEF vars, ToPrint
    <2> QED
      BY <2>1, <1>5
  <1>9. CASE PrintTS
    <2>1. CASE \E p \in Packages : PrintPackage(p)
      BY <2>1, <1>6
    <2>2. CASE \E p \in Packages : PrintPanics(p)
      BY <2>2, <1>7 DEF PrintPanics, Ended
    <2>3. CASE WriteFails
      BY <2>3, <1>7 DEF WriteFails, Ended
    <2>4. CASE Printed
      BY <2>4, <1>7 DEF Printed, Ended
    <2> QED
      BY <1>9, <2>1, <2>2, <2>3, <2>4 DEF PrintTS
  <1> QED
    BY <1>1, <1>2, <1>3, <1>4, <1>8, <1>9 DEF Next, Filter

LEMMA Invariant == Spec => []Inv
  <1>1. Inv /\ [Next]_vars => Inv'
    BY TypeStep, KubernetesStep, WorklistStep, FilesStep DEF Inv, ParsedInv
  <1> QED
    BY InitInv, <1>1, PTL DEF Spec

-----------------------------------------------------------------------------
(***************************************************************************)
(* FilterDefinitions has what is needed and nothing else: at every moment  *)
(* what is included and what is in the worklist hold the selected          *)
(* definitions, all that the included ones import, and nothing that is     *)
(* not in every set with these two properties.                             *)
(***************************************************************************)
THEOREM WorklistInvariant == Spec => []IInv
  <1>1. Inv => IInv
    BY DEF Inv, ParsedInv, IInv
  <1> QED
    BY Invariant, <1>1, PTL

(***************************************************************************)
(* The files fit together at every moment, whatever the definitions, the   *)
(* order in which Go has gone through them and where typegen has stopped.  *)
(***************************************************************************)
THEOREM FilesAlwaysFit == Spec => []FilesFit
  <1>1. Inv => FilesFit
    <2> SUFFICES ASSUME Inv, NEW p \in DOMAIN files, NEW r \in files[p].classes
                 PROVE  /\ definitions[r].form # "container" =>
                             \A u \in definitions[r].uses : Reaches(p, u)
                        /\ InlineRefs(r, definitions[r].nested) \subseteq files[p].inner
                        /\ definitions[r].kubernetes /\ ~NestedName(r) => files[p].kubernetes
      BY DEF FilesFit
    <2>1. /\ phase = "done" => ToPrint = {}
          /\ refs = {}
          /\ \A q \in DOMAIN files : files[q] = Contents(q)
      <3>1. phase \in {"print"} \cup Ended
        BY DEF Inv, ParsedInv, TypeOK, FilesInv
      <3> QED
        BY <3>1 DEF Inv, FilesInv, WorklistInv
    <2>2. r \in Package(p) /\ r \in included /\ r \in Parsed
      BY <2>1 DEF Inv, FilesInv, Contents, Package
    <2>3. ASSUME definitions[r].form # "container", NEW u \in definitions[r].uses
          PROVE  Reaches(p, u)
      <3>1. u \in Imports(r)
        BY <2>3 DEF Imports
      <3>2. u \in Refs
        BY <2>2 DEF Inv, ParsedInv, TypeOK, Definition
      <3>3. u \in included
        BY <2>1, <2>2, <3>1, <3>2, RefsNotNested DEF Inv, WorklistInv, Closed
      <3>4. u.package \in DOMAIN files \/ u.package \in ToPrint
        BY <3>3 DEF ToPrint
      <3>5. u.package \in DOMAIN files => u \in files[u.package].classes
        BY <2>1, <3>3 DEF Contents, Package
      <3>6. u.package \in files[p].imports \cup {p}
        <4>1. u \in UNION {Imports(s) : s \in Package(p)}
          BY <2>2, <3>1
        <4>2. u.package \in {v.package : v \in UNION {Imports(s) : s \in Package(p)}}
          BY <4>1
        <4>3. files[p].imports =
                {v.package : v \in UNION {Imports(s) : s \in Package(p)}} \ {p}
          BY <2>1 DEF Contents
        <4> QED
          BY <4>2, <4>3
      <3> QED
        BY <2>1, <3>4, <3>5, <3>6 DEF Reaches
    <2>4. definitions[r].kubernetes /\ ~NestedName(r) => files[p].kubernetes
      <3>1. definitions[r].kubernetes /\ ~NestedName(r) => r \in kubernetes
        BY <2>2 DEF Inv, ParsedInv, KubernetesInv
      <3>2. files[p].kubernetes = (Package(p) \cap kubernetes # {})
        BY <2>1 DEF Contents
      <3>3. r \in kubernetes => Package(p) \cap kubernetes # {}
        BY <2>2
      <3> QED
        BY <3>1, <3>2, <3>3
    <2>5. InlineRefs(r, definitions[r].nested) \subseteq files[p].inner
      <3>1. files[p].inner =
              UNION {InlineRefs(s, definitions[s].nested) : s \in Package(p)}
        BY <2>1 DEF Contents
      <3> QED
        BY <2>2, <3>1
    <2> QED
      BY <2>3, <2>4, <2>5
  <1> QED
    BY Invariant, <1>1, PTL
=============================================================================
