------------------------------- MODULE KubeTree -------------------------------
(***************************************************************************)
(* What the fields of a Kubernetes object are to a function: a tree of     *)
(* maps, in which every field has one place.  A step puts a field, with    *)
(* all that is below it, into one map of the tree, in place of what the    *)
(* map has under that name, or takes it out; it leaves every field outside *)
(* alone.  SubObjects implements it on nodes that references share.        *)
(***************************************************************************)
EXTENDS Sequences, SequencesExt

CONSTANTS Paths,     \* bound: the paths looked at, closed under prefixes
          Contents,  \* what a field may hold
          Map        \* what a field holds whose fields have places of their own

VARIABLE tree        \* the fields there are, each with its path and content

Field(path, content) == [path |-> path, content |-> content]

\* Each field has one content, and is in a map that is there, but for the object.
IsTree(t) ==
  LET paths == {f.path : f \in t}
      maps == {f.path : f \in {g \in t : g.content = Map}}
  IN /\ paths \subseteq Paths
     /\ \A f, g \in t : f.path = g.path => f = g
     /\ \A p \in paths \ {<<>>} : Front(p) \in maps

TreeInit == IsTree(tree) /\ Field(<<>>, Map) \in tree

\* From t to u, no field changes, comes or goes but the one at p and those below.
Changes(p, t, u) ==
  /\ Field(Front(p), Map) \in t
  /\ \A f \in (t \ u) \cup (u \ t) : IsPrefix(p, f.path)

ChangesOnePlace(t, u) == \E p \in Paths \ {<<>>} : Changes(p, t, u)

TreeNext ==
  /\ tree' # tree
  /\ IsTree(tree')
  /\ ChangesOnePlace(tree, tree')

TreeSpec == TreeInit /\ [][TreeNext]_tree
=============================================================================
