------------------------------- MODULE Listing -------------------------------
(***************************************************************************)
(* The list operation (List in workspace/workspace.go, and filepath.Walk   *)
(* as it uses it) on a plain file, or on a directory whose entries come    *)
(* and go meanwhile.                                                       *)
(*                                                                         *)
(* Walk asks for the state of an entry, reads the names in a directory     *)
(* before the callback sees the directory, and visits these names one      *)
(* after the other.  The callback returns every error it is given.         *)
(***************************************************************************)
EXTENDS Naturals, Sequences, FiniteSets

CONSTANTS
  Paths,       \* the paths that may be there, in and below Top
  Folders,     \* those that are directories
  Top,         \* the directory, or the plain file, that is listed
  ParentOf,    \* the directory of a path
  Above,       \* Above[p]: the directories above path p, up to Top
  Rank,        \* the place of a path in the order of the names
  MaxChanged,  \* bound: the paths that come or go during the walk
  MaxSpecial   \* bound: the paths that are ignored, and that cannot be read

ASSUME PathsAssumption ==
  /\ IsFiniteSet(Paths) /\ Folders \subseteq Paths /\ Top \in Paths
  /\ MaxChanged \in Nat /\ MaxSpecial \in Nat
  /\ Rank \in [Paths -> Nat] /\ \A p, q \in Paths : Rank[p] = Rank[q] => p = q

\* The paths are a tree below Top.
ASSUME TreeAssumption ==
  /\ ParentOf \in [Paths \ {Top} -> Folders] /\ Above \in [Paths -> SUBSET Folders]
  /\ Above[Top] = {}
  /\ \A p \in Paths \ {Top} : /\ Above[p] = {ParentOf[p]} \cup Above[ParentOf[p]]
                            /\ Top \in Above[p] /\ p \notin Above[p]

VARIABLES
  list,      \* program counter of the operation
  options,   \* the arguments, and what is ignored or cannot be read
  present,   \* the paths that are there
  changed,   \* those that have come or gone since the walk began
  todo,      \* the paths Walk has still to visit
  visiting,  \* whether the state of the first of them is known
  entries    \* the entries so far

listVars == <<list, options, present, changed, todo, visiting, entries>>

Below(p) == {q \in Paths \ {Top} : ParentOf[q] = p}

\* The paths in set S in the order of their names.
InOrder(S) == {names \in [1..Cardinality(S) -> S] :
                 \A i, j \in DOMAIN names : i < j => Rank[names[i]] < Rank[names[j]]}

\* isRoot: Top is the root of the workspace.
Options == [recursive : BOOLEAN, isRoot : BOOLEAN, ignored : SUBSET Paths,
            unreadable : SUBSET Folders]

ListTypeOK ==
  /\ list \in {"begin", "walk", "ok", "error"} /\ options \in Options
  /\ present \subseteq Paths /\ changed \subseteq Paths
  /\ todo \in Seq(Paths) /\ visiting \in BOOLEAN /\ entries \in Seq(Paths)

ListInit ==
  /\ list = "begin" /\ changed = {} /\ todo = <<>> /\ visiting = FALSE /\ entries = <<>>
  /\ options = [recursive |-> FALSE, isRoot |-> TRUE, ignored |-> {}, unreadable |-> {}]
  /\ present = Paths

\* A path without entries below it goes, or one that was gone is there again.
Change(p) ==
  /\ list = "walk" /\ p # Top
  /\ \/ p \in present /\ Below(p) \cap present = {} /\ present' = present \ {p}
     \/ p \notin present /\ ParentOf[p] \in present /\ present' = present \cup {p}
  /\ changed' = changed \cup {p} /\ Cardinality(changed') <= MaxChanged
  /\ UNCHANGED <<list, options, todo, visiting, entries>>

\* safePath: the path is refused, or the walk begins.  A root is a directory.
BeginWalk ==
  /\ list = "begin" /\ options' \in Options /\ (options'.isRoot => Top \in Folders)
  /\ Cardinality(options'.ignored) <= MaxSpecial /\ Cardinality(options'.unreadable) <= MaxSpecial
  /\ \/ list' = "error" /\ UNCHANGED todo
     \/ list' = "walk" /\ todo' = <<Top>>
  /\ UNCHANGED <<present, changed, visiting, entries>>

\* Lstat of the next path fails when it is gone, and the list with it.
LstatNext ==
  /\ list = "walk" /\ todo # <<>> /\ ~visiting
  /\ IF Head(todo) \in present THEN visiting' = TRUE /\ UNCHANGED list
     ELSE list' = "error" /\ UNCHANGED visiting
  /\ UNCHANGED <<options, present, changed, todo, entries>>

Ignored(p) == p \in options.ignored

\* The callback adds the path to the entries.
Listed(p) == ~(p = Top /\ options.isRoot) /\ ~Ignored(p)

\* Mutant: the directory that is listed is not excepted.
Descends_NotTop(p) ==
  /\ (p = Top /\ options.isRoot) \/ ~Ignored(p)
  /\ options.recursive

\* The callback does not return SkipDir for directory p.
Descends(p) ==
  \/ p = Top /\ options.isRoot
  \/ ~Ignored(p) /\ (options.recursive \/ p = Top)

VisitFile ==
  LET p == Head(todo)
  IN /\ list = "walk" /\ visiting /\ p \notin Folders
     /\ entries' = IF Listed(p) THEN Append(entries, p) ELSE entries
     /\ todo' = Tail(todo) /\ visiting' = FALSE
     /\ UNCHANGED <<list, options, present, changed>>

\* The names in the directory are read first, whether they are wanted or not.
VisitDir ==
  LET p == Head(todo)
  IN /\ list = "walk" /\ visiting /\ p \in Folders
     /\ IF p \notin present \/ p \in options.unreadable
        THEN list' = "error" /\ UNCHANGED <<todo, visiting, entries>>
        ELSE /\ entries' = IF Listed(p) THEN Append(entries, p) ELSE entries
             /\ \E names \in InOrder(IF Descends(p) THEN Below(p) \cap present ELSE {}) :
                  todo' = names \o Tail(todo)
             /\ visiting' = FALSE /\ UNCHANGED list
     /\ UNCHANGED <<options, present, changed>>

WalkEnds ==
  /\ list = "walk" /\ todo = <<>> /\ list' = "ok"
  /\ UNCHANGED <<options, present, changed, todo, visiting, entries>>

ListStep == BeginWalk \/ LstatNext \/ VisitFile \/ VisitDir \/ WalkEnds \/ \E p \in Paths : Change(p)
-----------------------------------------------------------------------------
\* Path p belongs into the list: neither it nor a directory above it is
\* ignored, and it is not deeper than was asked for.
Wanted(p) ==
  /\ p = Top => ~options.isRoot
  /\ \A q \in ({p} \cup Above[p]) \ (IF options.isRoot THEN {Top} ELSE {}) : ~Ignored(q)
  /\ options.recursive \/ Above[p] \subseteq {Top}

\* A list that succeeds names everything that was there all the time and that
\* belongs into it, names nothing that does not or never was there, and nothing
\* twice, however the tree has changed under the walk.
ListIsComplete == list = "ok" =>
  /\ \A p \in present \ changed : Wanted(p) => \E i \in DOMAIN entries : entries[i] = p
  /\ \A i \in DOMAIN entries : Wanted(entries[i]) /\ entries[i] \in present \cup changed
  /\ \A i, j \in DOMAIN entries : entries[i] = entries[j] => i = j

=============================================================================
