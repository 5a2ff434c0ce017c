----------------------------- MODULE Permission -----------------------------
(***************************************************************************)
(* The permission checker (permission/permission.go).                      *)
(*                                                                         *)
(* NewChecker turns a map of patterns into a list of rules; a Go map is    *)
(* ranged over in an arbitrary order, so the patterns are collected in any *)
(* order and sorted afterwards.  Check walks over the call expressions of  *)
(* a parsed command and applies the last rule that matches each of them.   *)
(*                                                                         *)
(* A pattern and a call expression are names; which pattern matches which  *)
(* call, and how the patterns compare as strings, are parameters.          *)
(***************************************************************************)
EXTENDS Naturals, Sequences, SequencesExt

CONSTANTS
  Patterns,   \* patterns of rules
  Star,       \* the pattern "*"
  Rank,       \* the order in which sort.Strings puts the patterns
  Calls,      \* call expressions
  Matches,    \* the pairs of a pattern and a call it matches
  Commands    \* commands, each the sequence of its call expressions

Actions == {"allow", "deny", "other"}
NoPattern == "none"

ASSUME PatternsAssumption ==
  /\ Star \in Patterns /\ NoPattern \notin Patterns /\ "nil" \notin Patterns
  /\ Rank \in [Patterns -> Nat]
  /\ \A p, q \in Patterns : Rank[p] = Rank[q] => p = q
ASSUME MatchesAssumption ==
  /\ Matches \subseteq Patterns \X Calls /\ \A c \in Calls : <<Star, c>> \in Matches
ASSUME CommandsAssumption == Commands \subseteq Seq(Calls)

VARIABLES
  patterns,   \* the map NewChecker is given
  todo,       \* the keys that have not been ranged over
  result,     \* the keys getSortedPatterns has collected
  rules,      \* c.rules
  pc,         \* "range", "idle", "walk"
  command,    \* the command being checked
  next,       \* the call expression syntax.Walk comes to next
  checkErr,   \* "nil", or the pattern the denial names
  verdict     \* what Check has returned: "none", "nil" or "error"

vars == <<patterns, todo, result, rules, pc, command, next, checkErr, verdict>>

Init ==
  /\ patterns \in UNION {[D -> Actions] : D \in SUBSET Patterns}
  /\ todo = DOMAIN patterns \ {Star}
  /\ result = <<>> /\ rules = <<>>
  /\ pc = "range" /\ command = <<>> /\ next = 1
  /\ checkErr = "nil" /\ verdict = "none"

Rule(p) == [pattern |-> p, action |-> patterns[p]]
-----------------------------------------------------------------------------
\* getSortedPatterns: the map yields its keys in any order.
Collect(p) ==
  /\ pc = "range" /\ p \in todo
  /\ result' = Append(result, p)
  /\ todo' = todo \ {p}
  /\ UNCHANGED <<patterns, rules, pc, command, next, checkErr, verdict>>

\* Mutant: the patterns are not sorted.
Sorted_NotAtAll(ps) == ps

\* sort.Strings: the keys of a map are distinct, so they have one sorted order.
Sorted(ps) ==
  CHOOSE qs \in [DOMAIN ps -> Range(ps)] :
    /\ Range(qs) = Range(ps)
    /\ \A i, j \in DOMAIN ps : i < j => Rank[qs[i]] < Rank[qs[j]]

\* NewChecker: the default rule comes first, then the sorted patterns.
NewChecker ==
  /\ pc = "range" /\ todo = {} /\ pc' = "idle"
  /\ rules' = LET all == (IF Star \in DOMAIN patterns THEN <<Star>> ELSE <<>>)
                           \o Sorted(result)
              IN [i \in DOMAIN all |-> Rule(all[i])]
  /\ UNCHANGED <<patterns, todo, result, command, next, checkErr, verdict>>

\* evaluateRules: deny, unless rules match; the last one that does decides.
evaluateRules(c) ==
  LET matched == {i \in DOMAIN rules : <<rules[i].pattern, c>> \in Matches}
  IN IF matched = {} THEN [pattern |-> NoPattern, action |-> "deny"]
                     ELSE rules[Max(matched)]

\* Check: an empty command, or one that does not parse, is an error at once.
CheckRejects ==
  /\ pc = "idle" /\ verdict' = "error" /\ command' = <<>>
  /\ next' = 1 /\ checkErr' = "nil"
  /\ UNCHANGED <<patterns, todo, result, rules, pc>>

\* Check: the walk over the parsed command begins.
Check(cmd) ==
  /\ pc = "idle" /\ pc' = "walk"
  /\ command' = cmd /\ next' = 1 /\ checkErr' = "nil" /\ verdict' = "none"
  /\ UNCHANGED <<patterns, todo, result, rules>>

\* Mutant: the walk goes on after an error, and a later error replaces it.
Visit_LastError ==
  /\ pc = "walk" /\ next <= Len(command)
  /\ LET r == evaluateRules(command[next])
     IN checkErr' = IF r.action = "deny" THEN r.pattern ELSE checkErr
  /\ next' = next + 1
  /\ UNCHANGED <<patterns, todo, result, rules, pc, command, verdict>>

\* The walk comes to a call expression; after an error it only runs out.
Visit ==
  /\ pc = "walk" /\ next <= Len(command)
  /\ LET r == evaluateRules(command[next])
     IN checkErr' = IF checkErr = "nil" /\ r.action = "deny" THEN r.pattern ELSE checkErr
  /\ next' = next + 1
  /\ UNCHANGED <<patterns, todo, result, rules, pc, command, verdict>>

\* Check returns checkErr.
Return ==
  /\ pc = "walk" /\ next > Len(command) /\ pc' = "idle"
  /\ verdict' = IF checkErr = "nil" THEN "nil" ELSE "error"
  /\ UNCHANGED <<patterns, todo, result, rules, command, next, checkErr>>

Next == \/ \E p \in Patterns : Collect(p)
        \/ NewChecker \/ CheckRejects \/ Visit \/ Return
        \/ \E cmd \in Commands : Check(cmd)

Spec == Init /\ [][Next]_vars
-----------------------------------------------------------------------------
\* The policy the map expresses, without an order of evaluation: among the
\* matching patterns "*" counts least, and of the others the greatest string
\* counts; a call that no pattern matches is denied.
Counts(p, q) == p = Star \/ (q # Star /\ Rank[p] <= Rank[q])
Denied(c) ==
  LET matching == {p \in DOMAIN patterns : <<p, c>> \in Matches}
  IN \A q \in matching : (\A p \in matching : Counts(p, q)) => patterns[q] = "deny"

\* Check denies a command exactly when the policy denies one of the calls in
\* it, in whatever order the map was ranged over and wherever the call stands.
\* Nothing is claimed of a command without any call, such as a redirection alone:
\* the policy has no say about it, and Check lets it pass under every map, an
\* empty one included (permission.go:93-101).  The comment at :94 says that
\* redirections are checked, and :169 and README.md:260 that all is denied.
VerdictFollowsPolicy ==
  [][pc = "walk" /\ pc' = "idle" /\ command # <<>> =>
       (verdict' = "error" <=> \E i \in DOMAIN command : Denied(command[i]))]_vars

\* A denial names the rule that denies the first denied call, and no rule only
\* if none matches that call (denyError).
DenialNamesFirst ==
  checkErr # "nil" =>
    \E i \in 1..(next - 1) :
      /\ Denied(command[i]) /\ \A j \in 1..(i - 1) : ~Denied(command[j])
      /\ IF checkErr = NoPattern
           THEN \A p \in DOMAIN patterns : <<p, command[i]>> \notin Matches
           ELSE <<checkErr, command[i]>> \in Matches /\ patterns[checkErr] = "deny"

=============================================================================
