----------------------------- MODULE MCWorkspace -----------------------------
(***************************************************************************)
(* An instance of Workspace for TLC.                                       *)
(***************************************************************************)
EXTENDS Workspace

CONSTANTS w2, s2, v1, v2, f1, f2, f3, g1, g2, g3, top, sub, a, b

\* The second writer, a command, brings more than fits into memory.
Sizes == [w \in Writers |-> IF w = w2 THEN MaxAlloc + 1 ELSE 2]

\* The whole file, pages of two bytes, and the largest limit: from before the
\* first byte, and from the second one, where the sum has no int64.
Pages == {[offset |-> 0, limit |-> 0], [offset |-> 0, limit |-> 2],
          [offset |-> -1, limit |-> IntBound - 1], [offset |-> 1, limit |-> IntBound - 1]}

\* The second version of the skill has lost a file of the first one and has a
\* new one.
TwoVersions == [v \in Archives |-> IF v = v1 THEN <<f1, f2>> ELSE <<f2, f3>>]
Tasks == [s \in Syncs |-> IF s = s2 THEN v2 ELSE v1]

\* Two include patterns, which both name the first file, for the Go backend; rg
\* ignores that file, and selects another one.  In the second file a line is too
\* long for the scanner, and one matches only as an expression.
Both     == {"rg", "go"}
Lines    == [f \in Searched |-> CASE f = g1 -> <<Both, {}, Both>>
                                  [] f = g2 -> <<Both, {"rg"}, {"rg", "go", "long"}, Both>>
                                  [] f = g3 -> <<{"rg"}>>]
Patterns == <<g1, g1, g2>>

\* Directory top holds directory sub, with file a in it, and file b.
Tree  == [p \in Paths \ {Top} |-> IF p = a THEN sub ELSE top]
Up    == [p \in Paths |-> IF p = top THEN {} ELSE IF p = a THEN {sub, top} ELSE {top}]
Ranks == [p \in Paths |-> CASE p = top -> 0 [] p = sub -> 1 [] p = a -> 2 [] p = b -> 3]

=============================================================================
