-------------------------- MODULE PermissionProofs --------------------------
(***************************************************************************)
(* Proofs about Permission, for any map of rules, any order in which it is *)
(* ranged over, any relation of patterns and calls and any commands.       *)
(***************************************************************************)
EXTENDS Permission, FiniteSetTheorems, WellFoundedInduction, TLAPS

\* How many keys sort.Strings puts no later than p.
Position(S, p) == Cardinality({q \in S : Rank[q] <= Rank[p]})

LEMMA PositionInRange ==
  ASSUME NEW S \in SUBSET Patterns, IsFiniteSet(S), NEW p \in S
  PROVE  Position(S, p) \in 1..Cardinality(S)
<1> DEFINE upTo == {q \in S : Rank[q] <= Rank[p]}
<1>1. p \in upTo
  BY PatternsAssumption
<1>2. IsFiniteSet(upTo) /\ Cardinality(upTo) <= Cardinality(S)
  BY FS_Subset, upTo \in SUBSET S
<1>3. Cardinality(upTo) \in Nat /\ Cardinality(S) \in Nat /\ Cardinality(upTo) # 0
  BY <1>1, <1>2, FS_CardinalityType, FS_EmptySet
<1> HIDE DEF upTo
<1>4. Cardinality(upTo) \in 1..Cardinality(S)
  BY <1>2, <1>3
<1> QED
  BY <1>4 DEF Position, upTo

LEMMA PositionGrows ==
  ASSUME NEW S \in SUBSET Patterns, IsFiniteSet(S), NEW p \in S, NEW q \in S,
         Rank[p] < Rank[q]
  PROVE  Position(S, p) < Position(S, q)
<1> DEFINE upToP == {r \in S : Rank[r] <= Rank[p]}
           upToQ == {r \in S : Rank[r] <= Rank[q]}
<1>1. upToP \in SUBSET upToQ /\ q \in upToQ /\ q \notin upToP
  BY PatternsAssumption
<1>2. IsFiniteSet(upToQ)
  BY FS_Subset, upToQ \in SUBSET S
<1> HIDE DEF upToP, upToQ
<1>3. /\ IsFiniteSet(upToP)
      /\ Cardinality(upToP) <= Cardinality(upToQ)
      /\ Cardinality(upToP) # Cardinality(upToQ)
  BY <1>1, <1>2, FS_Subset
<1>4. Cardinality(upToP) \in Nat /\ Cardinality(upToQ) \in Nat
  BY <1>2, <1>3, FS_CardinalityType
<1>5. Cardinality(upToP) < Cardinality(upToQ)
  BY <1>3, <1>4
<1> QED
  BY <1>5 DEF Position, upToP, upToQ

\* sort.Strings has a result, and it is in order, for any keys.
LEMMA SortedProperties ==
  ASSUME NEW ps \in Seq(Patterns),
         \A i, j \in DOMAIN ps : ps[i] = ps[j] => i = j
  PROVE  /\ Sorted(ps) \in [DOMAIN ps -> Range(ps)]
         /\ Range(Sorted(ps)) = Range(ps)
         /\ \A i, j \in DOMAIN ps : i < j => Rank[Sorted(ps)[i]] < Rank[Sorted(ps)[j]]
<1> DEFINE S == Range(ps)
           n == Len(ps)
           pos == [p \in S |-> Position(S, p)]
           qs == [i \in 1..n |-> CHOOSE p \in S : pos[p] = i]
<1>1. n \in Nat /\ DOMAIN ps = 1..n /\ S \in SUBSET Patterns
  BY DEF Range
<1>2. IsFiniteSet(S) /\ Cardinality(S) = n
  <2>1. ps \in Surjection(1..n, S)
    BY <1>1 DEF Surjection, Range
  <2>2. ps \in Injection(1..n, S)
    BY <1>1, <2>1 DEF Injection, Surjection, IsInjective
  <2>3. IsFiniteSet(1..n) /\ Cardinality(1..n) = n
    BY <1>1, FS_Interval
  <2> QED
    BY <2>1, <2>2, <2>3, FS_Surjection
<1> HIDE DEF S, n
<1>3. pos \in [S -> 1..n] /\ \A p, q \in S : Rank[p] < Rank[q] => pos[p] < pos[q]
  BY <1>1, <1>2, PositionInRange, PositionGrows
<1> HIDE DEF pos
<1>4. \A p, q \in S : pos[p] = pos[q] => p = q
  <2> SUFFICES ASSUME NEW p \in S, NEW q \in S, pos[p] = pos[q] PROVE p = q
    OBVIOUS
  <2>1. Rank[p] \in Nat /\ Rank[q] \in Nat /\ pos[p] \in Nat
    BY <1>1, <1>3, PatternsAssumption
  <2>2. ~(Rank[p] < Rank[q]) /\ ~(Rank[q] < Rank[p])
    BY <1>3, <2>1
  <2>3. Rank[p] = Rank[q]
    BY <2>1, <2>2
  <2> QED
    BY <1>1, <2>3, PatternsAssumption
<1>5. \A i \in 1..n : \E p \in S : pos[p] = i
  <2>1. pos \in Injection(S, 1..n)
    BY <1>3, <1>4 DEF Injection, IsInjective
  <2>2. IsFiniteSet(1..n) /\ Cardinality(1..n) = Cardinality(S)
    BY <1>1, <1>2, FS_Interval
  <2>3. pos \in Surjection(S, 1..n)
    BY <2>1, <2>2, FS_Injection
  <2> QED
    BY <2>3 DEF Surjection
<1>6. \A i \in 1..n : qs[i] \in S /\ pos[qs[i]] = i
  BY <1>5
<1>7. qs \in [1..n -> S]
  BY <1>6
<1> HIDE DEF qs
<1>8. Range(qs) = S
  <2>1. \A p \in S : pos[p] \in 1..n /\ qs[pos[p]] = p
    BY <1>3, <1>4, <1>6
  <2> QED
    BY <1>7, <2>1 DEF Range
<1>9. \A i, j \in 1..n : i < j => Rank[qs[i]] < Rank[qs[j]]
  <2> SUFFICES ASSUME NEW i \in 1..n, NEW j \in 1..n, i < j,
                      ~(Rank[qs[i]] < Rank[qs[j]])
               PROVE  FALSE
    OBVIOUS
  <2>1. Rank[qs[i]] \in Nat /\ Rank[qs[j]] \in Nat
    BY <1>1, <1>6, PatternsAssumption
  <2>2. qs[i] \in Patterns /\ qs[j] \in Patterns
    BY <1>1, <1>6
  <2>3. Rank[qs[i]] = Rank[qs[j]] => qs[i] = qs[j]
    BY <2>2, PatternsAssumption
  <2>4. qs[i] = qs[j] \/ Rank[qs[j]] < Rank[qs[i]]
    BY <2>1, <2>3
  <2>5. i = pos[qs[i]] /\ j = pos[qs[j]]
    BY <1>6
  <2>6. i = j \/ j < i
    BY <2>4, <2>5, <1>3, <1>6
  <2> QED
    BY <2>6
<1> QED
  BY <1>1, <1>7, <1>8, <1>9 DEF Sorted, S, n

\* The last index of a rule that matches.
LEMMA MaxProperties ==
  ASSUME NEW n \in Nat, NEW S \in SUBSET (1..n), S # {}
  PROVE  Max(S) \in S /\ \A x \in S : x <= Max(S)
<1> DEFINE T == {k \in Nat : n - k \in S}
<1>1. T \subseteq Nat /\ T # {}
  <2>1. PICK x \in S : TRUE
    OBVIOUS
  <2>2. n - x \in Nat /\ n - (n - x) = x
    OBVIOUS
  <2> QED
    BY <2>1, <2>2
<1>2. PICK k \in T : \A l \in T : ~(<<l, k>> \in OpToRel(<, Nat))
  <2> HIDE DEF T
  <2> QED
    BY <1>1, WFMin, NatLessThanWellFounded
<1>3. \A l \in T : ~(l < k)
  BY <1>1, <1>2 DEF OpToRel
<1>4. \A x \in S : x <= n - k
  <2> SUFFICES ASSUME NEW x \in S PROVE x <= n - k
    OBVIOUS
  <2>1. n - x \in Nat /\ n - (n - x) = x /\ x \in Nat /\ k \in Nat
    OBVIOUS
  <2>2. n - x \in T
    BY <2>1
  <2>3. ~(n - x < k)
    BY <1>3, <2>2
  <2> QED
    BY <2>1, <2>3
<1> QED
  BY <1>4 DEF Max
-----------------------------------------------------------------------------
\* What is known while the patterns are collected.
Gathered == pc = "range" =>
  /\ result \in Seq(Patterns)
  /\ todo \subseteq DOMAIN patterns \ {Star}
  /\ Range(result) = (DOMAIN patterns \ {Star}) \ todo
  /\ \A i, j \in DOMAIN result : result[i] = result[j] => i = j
  /\ next = 1 /\ checkErr = "nil"

\* The rules are those of the map, in the order in which they count.
Ordered == pc # "range" =>
  /\ \E n \in Nat : DOMAIN rules = 1..n
  /\ \A i \in DOMAIN rules : /\ rules[i].pattern \in DOMAIN patterns
                             /\ rules[i] = Rule(rules[i].pattern)
  /\ \A p \in DOMAIN patterns : \E i \in DOMAIN rules : rules[i].pattern = p
  /\ \A i, j \in DOMAIN rules : i < j => Counts(rules[i].pattern, rules[j].pattern)

\* As long as there is no error, no call that was visited is denied.
Passed ==
  /\ DOMAIN patterns \subseteq Patterns
  /\ command \in Seq(Calls) /\ next \in 1..(Len(command) + 1)
  /\ checkErr = "nil" => \A i \in 1..(next - 1) : ~Denied(command[i])

PInv == Gathered /\ Ordered /\ Passed /\ DenialNamesFirst
-----------------------------------------------------------------------------
\* What evaluateRules finds in the list is what the policy says of the set.
LEMMA RulesFollowPolicy ==
  ASSUME Ordered, pc # "range", DOMAIN patterns \subseteq Patterns, NEW c
  PROVE  /\ evaluateRules(c).action = "deny" <=> Denied(c)
         /\ evaluateRules(c).pattern # "nil"
         /\ evaluateRules(c).action = "deny" =>
              IF evaluateRules(c).pattern = NoPattern
                THEN \A p \in DOMAIN patterns : <<p, c>> \notin Matches
                ELSE /\ <<evaluateRules(c).pattern, c>> \in Matches
                     /\ patterns[evaluateRules(c).pattern] = "deny"
<1> DEFINE matched == {i \in DOMAIN rules : <<rules[i].pattern, c>> \in Matches}
<1>1. PICK n \in Nat : DOMAIN rules = 1..n
  BY DEF Ordered
<1>2. CASE matched = {}
  <2>1. \A p \in DOMAIN patterns : <<p, c>> \notin Matches
    BY <1>2 DEF Ordered
  <2>2. evaluateRules(c) = [pattern |-> NoPattern, action |-> "deny"]
    BY <1>2 DEF evaluateRules
  <2>3. Denied(c)
    BY <2>1 DEF Denied
  <2>4. NoPattern # "nil"
    BY DEF NoPattern
  <2> QED
    BY <2>1, <2>2, <2>3, <2>4
<1>3. CASE matched # {}
  <2>1. matched \in SUBSET (1..n)
    BY <1>1
  <2>2. PICK m : m = Max(matched)
    OBVIOUS
  <2>3. m \in matched /\ \A i \in matched : i <= m
    BY <1>3, <2>1, <2>2, MaxProperties
  <2>4. evaluateRules(c) = rules[m]
    BY <1>3, <2>2 DEF evaluateRules
  <2>5. PICK q : q = rules[m].pattern
    OBVIOUS
  <2>6. q \in DOMAIN patterns /\ rules[m] = Rule(q) /\ <<q, c>> \in Matches
    BY <2>3, <2>5 DEF Ordered
  <2>7. \A p \in DOMAIN patterns : <<p, c>> \in Matches => Counts(p, q)
    <3> SUFFICES ASSUME NEW p \in DOMAIN patterns, <<p, c>> \in Matches
                 PROVE  Counts(p, q)
      OBVIOUS
    <3>1. PICK i \in DOMAIN rules : rules[i].pattern = p
      BY DEF Ordered
    <3>2. i \in matched /\ i \in 1..n /\ m \in 1..n
      BY <1>1, <2>1, <2>3, <3>1
    <3>3. i = m \/ i < m
      BY <2>3, <3>2
    <3>4. Rank[p] \in Nat
      BY PatternsAssumption
    <3>5. CASE i = m
      BY <2>5, <3>1, <3>4, <3>5 DEF Counts
    <3>6. CASE i < m
      BY <1>1, <2>5, <3>1, <3>2, <3>6 DEF Ordered
    <3> QED
      BY <3>3, <3>5, <3>6
  <2>8. \A p \in DOMAIN patterns : Counts(p, q) /\ Counts(q, p) => p = q
    <3> SUFFICES ASSUME NEW p \in DOMAIN patterns, Counts(p, q), Counts(q, p)
                 PROVE  p = q
      OBVIOUS
    <3>1. Rank[p] \in Nat /\ Rank[q] \in Nat
      BY <2>6, PatternsAssumption
    <3>2. p = q \/ Rank[p] = Rank[q]
      BY <3>1 DEF Counts
    <3> QED
      BY <2>6, <3>2, PatternsAssumption
  <2>9. Denied(c) <=> patterns[q] = "deny"
    BY <2>6, <2>7, <2>8 DEF Denied
  <2>10. rules[m].action = patterns[q] /\ q # "nil" /\ q # NoPattern
    BY <2>6, PatternsAssumption DEF Rule
  <2> QED
    BY <2>4, <2>5, <2>6, <2>9, <2>10
<1> QED
  BY <1>2, <1>3
-----------------------------------------------------------------------------
LEMMA InitPInv == Init => PInv
<1> SUFFICES ASSUME Init PROVE PInv
  OBVIOUS
<1>1. DOMAIN patterns \subseteq Patterns
  BY DEF Init
<1>2. result \in Seq(Patterns) /\ DOMAIN result = {} /\ Range(result) = {}
  BY DEF Init, Range
<1>3. Gathered
  BY <1>2 DEF Init, Gathered
<1>4. command \in Seq(Calls) /\ Len(command) = 0
  BY DEF Init
<1>5. Passed
  BY <1>1, <1>4 DEF Init, Passed
<1> QED
  BY <1>3, <1>5 DEF Init, PInv, Ordered, DenialNamesFirst

LEMMA CollectKeepsPInv ==
  ASSUME PInv, NEW p \in Patterns, Collect(p)
  PROVE  PInv'
<1> USE DEF Collect
<1>1. Gathered'
  <2>1. result \in Seq(Patterns) /\ p \in todo /\ p \notin Range(result)
    BY DEF PInv, Gathered
  <2>2. PICK n \in Nat : n = Len(result) /\ DOMAIN result = 1..n
    BY <2>1
  <2>3. /\ result' \in Seq(Patterns) /\ DOMAIN result' = 1..(n + 1)
        /\ result'[n + 1] = p /\ \A i \in 1..n : result'[i] = result[i]
    BY <2>1, <2>2
  <2>4. Range(result') = Range(result) \cup {p}
    BY <2>2, <2>3 DEF Range
  <2>5. \A i, j \in 1..(n + 1) : result'[i] = result'[j] => i = j
    <3> SUFFICES ASSUME NEW i \in 1..(n + 1), NEW j \in 1..(n + 1),
                        result'[i] = result'[j]
                 PROVE  i = j
      OBVIOUS
    <3>1. (i \in 1..n \/ i = n + 1) /\ (j \in 1..n \/ j = n + 1)
      OBVIOUS
    <3>2. \A k \in 1..n : result[k] # p
      BY <2>1, <2>2 DEF Range
    <3>3. \A k, l \in 1..n : result[k] = result[l] => k = l
      BY <2>2 DEF PInv, Gathered
    <3> QED
      BY <2>3, <3>1, <3>2, <3>3
  <2> QED
    BY <2>1, <2>3, <2>4, <2>5 DEF PInv, Gathered
<1>2. Ordered' /\ Passed' /\ DenialNamesFirst'
  BY DEF PInv, Gathered, Ordered, Passed, DenialNamesFirst, Denied
<1> QED
  BY <1>1, <1>2 DEF PInv

\* The rules NewChecker makes, from the order in which the map was ranged over.
LEMMA NewCheckerKeepsPInv == ASSUME PInv, NewChecker PROVE PInv'
<1> DEFINE first == IF Star \in DOMAIN patterns THEN <<Star>> ELSE <<>>
           rest == Sorted(result)
           all == first \o rest
<1>1. /\ result \in Seq(Patterns)
      /\ Range(result) = DOMAIN patterns \ {Star}
      /\ \A i, j \in DOMAIN result : result[i] = result[j] => i = j
      /\ next = 1 /\ checkErr = "nil" /\ DOMAIN patterns \subseteq Patterns
  BY DEF PInv, Gathered, Passed, NewChecker
<1>2. PICK n \in Nat : n = Len(result) /\ DOMAIN result = 1..n
  BY <1>1
<1>3. /\ rest \in [1..n -> DOMAIN patterns \ {Star}]
      /\ Range(rest) = DOMAIN patterns \ {Star}
      /\ \A i, j \in 1..n : i < j => Rank[rest[i]] < Rank[rest[j]]
  BY <1>1, <1>2, SortedProperties
<1> HIDE DEF rest
<1>4. rest \in Seq(DOMAIN patterns) /\ Len(rest) = n
  BY <1>3
<1>5. PICK f \in 0..1 : /\ first \in Seq(DOMAIN patterns) /\ Len(first) = f
                        /\ f = 1 => first[1] = Star
                        /\ f = 0 => Star \notin DOMAIN patterns
  <2>1. CASE Star \in DOMAIN patterns
    BY <2>1
  <2>2. CASE Star \notin DOMAIN patterns
    BY <2>2
  <2> QED
    BY <2>1, <2>2
<1> HIDE DEF first
<1>6. /\ DOMAIN all = 1..(f + n)
      /\ \A i \in 1..f : all[i] = Star
      /\ \A i \in (f + 1)..(f + n) : all[i] = rest[i - f]
  BY <1>4, <1>5
<1> HIDE DEF all
<1>7. \A i \in 1..(f + n) : i \in 1..f \/ (i \in (f + 1)..(f + n) /\ i - f \in 1..n)
  OBVIOUS
<1>8. \A i \in 1..(f + n) : all[i] \in DOMAIN patterns
  BY <1>3, <1>5, <1>6, <1>7
<1>9. rules' = [i \in 1..(f + n) |-> Rule(all[i])]
  BY <1>6 DEF NewChecker, all, first, rest
<1>10. PICK rs : rs = rules'
  OBVIOUS
<1>11. DOMAIN rs = 1..(f + n) /\ \A i \in 1..(f + n) : /\ rs[i].pattern = all[i]
                                                      /\ rs[i] = Rule(rs[i].pattern)
  BY <1>9, <1>10 DEF Rule
<1>12. \A p \in DOMAIN patterns : \E i \in DOMAIN rs : rs[i].pattern = p
  <2> SUFFICES ASSUME NEW p \in DOMAIN patterns
               PROVE  \E i \in 1..(f + n) : all[i] = p
    BY <1>11
  <2>1. CASE p = Star
    BY <1>5, <1>6, <2>1
  <2>2. CASE p # Star
    <3>1. PICK k \in 1..n : rest[k] = p
      BY <1>3, <2>2 DEF Range
    <3>2. k + f \in (f + 1)..(f + n) /\ (k + f) - f = k /\ k + f \in 1..(f + n)
      OBVIOUS
    <3> QED
      BY <1>6, <3>1, <3>2
  <2> QED
    BY <2>1, <2>2
<1>13. \A i, j \in DOMAIN rs : i < j => Counts(rs[i].pattern, rs[j].pattern)
  <2> SUFFICES ASSUME NEW i \in 1..(f + n), NEW j \in 1..(f + n), i < j
               PROVE  Counts(all[i], all[j])
    BY <1>11
  <2>1. CASE i \in 1..f
    BY <1>6, <2>1 DEF Counts
  <2>2. CASE i \in (f + 1)..(f + n)
    <3>1. j \in (f + 1)..(f + n) /\ i - f \in 1..n /\ j - f \in 1..n /\ i - f < j - f
      BY <2>2
    <3>2. Rank[all[i]] < Rank[all[j]] /\ all[j] # Star
      BY <1>3, <1>6, <2>2, <3>1
    <3>3. Rank[all[i]] \in Nat /\ Rank[all[j]] \in Nat
      BY <1>1, <1>8, PatternsAssumption
    <3> QED
      BY <3>2, <3>3 DEF Counts
  <2> QED
    BY <1>7, <2>1, <2>2
<1>14. Ordered'
  <2>1. patterns' = patterns /\ f + n \in Nat
    BY DEF NewChecker
  <2>2. \A i \in DOMAIN rs : rs[i].pattern \in DOMAIN patterns
    BY <1>8, <1>11
  <2> QED
    BY <1>10, <1>11, <1>12, <1>13, <2>1, <2>2 DEF Ordered, Rule, Counts
<1>15. Gathered' /\ Passed' /\ DenialNamesFirst'
  BY DEF PInv, NewChecker, Gathered, Passed, DenialNamesFirst, Denied
<1> QED
  BY <1>14, <1>15 DEF PInv

\* A walk begins, or the command is rejected before one.
LEMMA CheckKeepsPInv ==
  ASSUME PInv, CheckRejects \/ \E cmd \in Commands : Check(cmd)
  PROVE  PInv'
<1>1. /\ command' \in Seq(Calls) /\ next' = 1 /\ checkErr' = "nil"
      /\ pc = "idle" /\ pc' # "range" /\ patterns' = patterns /\ rules' = rules
  <2>1. CASE CheckRejects
    <3>1. <<>> \in Seq(Calls)
      OBVIOUS
    <3> QED
      BY <2>1, <3>1 DEF CheckRejects
  <2>2. CASE \E cmd \in Commands : Check(cmd)
    BY <2>2, CommandsAssumption DEF Check
  <2> QED
    BY <2>1, <2>2
<1>2. Len(command') \in Nat
  BY <1>1
<1>3. Passed'
  BY <1>1, <1>2 DEF PInv, Passed
<1> QED
  BY <1>1, <1>3 DEF PInv, Gathered, Ordered, DenialNamesFirst, Rule, Counts

LEMMA VisitKeepsPInv == ASSUME PInv, Visit PROVE PInv'
<1>1. PICK c : c = command[next]
  OBVIOUS
<1>2. PICK r : r = evaluateRules(c)
  OBVIOUS
<1>3. /\ pc = "walk" /\ next <= Len(command) /\ next' = next + 1
      /\ checkErr' = IF checkErr = "nil" /\ r.action = "deny" THEN r.pattern ELSE checkErr
      /\ patterns' = patterns /\ rules' = rules /\ pc' = pc /\ command' = command
  BY <1>1, <1>2 DEF Visit
<1>4. /\ r.action = "deny" <=> Denied(c)
      /\ r.pattern # "nil"
      /\ r.action = "deny" => IF r.pattern = NoPattern
                               THEN \A p \in DOMAIN patterns : <<p, c>> \notin Matches
                               ELSE <<r.pattern, c>> \in Matches /\ patterns[r.pattern] = "deny"
  BY <1>2, <1>3, RulesFollowPolicy DEF PInv, Passed
<1>5. /\ next \in Nat /\ next >= 1 /\ Len(command) \in Nat
      /\ next' \in 1..(Len(command) + 1) /\ next' - 1 = next
  BY <1>3 DEF PInv, Passed
<1>6. \A i \in 1..next : i = next \/ i \in 1..(next - 1)
  BY <1>5
<1>7. \A i \in 1..(next - 1) : i \in 1..next
  BY <1>5
<1>8. Passed'
  <2> SUFFICES ASSUME checkErr' = "nil", NEW i \in 1..next
               PROVE  ~Denied(command[i])
    BY <1>3, <1>5 DEF PInv, Passed, Denied, Counts
  <2>1. checkErr = "nil" /\ ~Denied(c)
    BY <1>3, <1>4
  <2> QED
    BY <1>1, <1>6, <2>1 DEF PInv, Passed
<1>9. DenialNamesFirst'
  <2>1. CASE checkErr # "nil"
    <3>1. checkErr' = checkErr
      BY <1>3, <2>1
    <3> QED
      BY <1>3, <1>5, <1>7, <2>1, <3>1 DEF PInv, DenialNamesFirst, Denied, Counts
  <2>2. CASE checkErr = "nil" /\ ~Denied(c)
    BY <1>3, <1>4, <2>2 DEF DenialNamesFirst
  <2>3. CASE checkErr = "nil" /\ Denied(c)
    <3>1. checkErr' = r.pattern /\ r.action = "deny"
      BY <1>3, <1>4, <2>3
    <3>2. \A j \in 1..(next - 1) : ~Denied(command[j])
      BY <2>3 DEF PInv, Passed
    <3>3. next \in 1..(next' - 1)
      <4>1. next \in 1..next
        BY <1>5
      <4> QED
        BY <1>5, <4>1
    <3>4. IF checkErr' = NoPattern
            THEN \A p \in DOMAIN patterns : <<p, c>> \notin Matches
            ELSE <<checkErr', c>> \in Matches /\ patterns[checkErr'] = "deny"
      BY <1>4, <3>1
    <3> QED
      BY <1>1, <1>3, <2>3, <3>2, <3>3, <3>4 DEF DenialNamesFirst, Denied, Counts
  <2> QED
    BY <2>1, <2>2, <2>3
<1> QED
  BY <1>3, <1>8, <1>9 DEF PInv, Gathered, Ordered, Rule, Counts

LEMMA NextPInv == PInv /\ [Next]_vars => PInv'
<1> SUFFICES ASSUME PInv, [Next]_vars PROVE PInv'
  OBVIOUS
<1>1. CASE \E p \in Patterns : Collect(p)
  BY <1>1, CollectKeepsPInv
<1>2. CASE NewChecker
  BY <1>2, NewCheckerKeepsPInv
<1>3. CASE CheckRejects \/ \E cmd \in Commands : Check(cmd)
  BY <1>3, CheckKeepsPInv
<1>4. CASE Visit
  BY <1>4, VisitKeepsPInv
<1>5. CASE Return \/ UNCHANGED vars
  <2>1. /\ patterns' = patterns /\ rules' = rules /\ command' = command
        /\ next' = next /\ checkErr' = checkErr /\ result' = result /\ todo' = todo
        /\ pc' = "range" <=> pc = "range"
    BY <1>5 DEF Return, vars
  <2>2. Gathered'
    BY <2>1 DEF PInv, Gathered
  <2>3. Ordered'
    BY <2>1 DEF PInv, Ordered, Rule, Counts
  <2>4. Passed'
    BY <2>1 DEF PInv, Passed, Denied, Counts
  <2>5. DenialNamesFirst'
    BY <2>1 DEF PInv, DenialNamesFirst, Denied, Counts
  <2> QED
    BY <2>2, <2>3, <2>4, <2>5 DEF PInv
<1> QED
  BY <1>1, <1>2, <1>3, <1>4, <1>5 DEF Next

\* The map of rules decides, not the order in which it was ranged over.
LEMMA PInvCorrect == Spec => []PInv
<1> QED
  BY InitPInv, NextPInv, PTL DEF Spec

\* DenialNamesFirst of any rules and commands: a denial names the rule that
\* refuses the first refused call, and no rule only if none matches the call.
THEOREM DenialsNameTheirRule == Spec => []DenialNamesFirst
<1>1. PInv => DenialNamesFirst
  BY DEF PInv
<1> QED
  BY <1>1, PInvCorrect, PTL

\* VerdictFollowsPolicy of any rules and commands: Check answers what the set of
\* rules says, in whatever order the map was ranged over.
THEOREM VerdictsFollowPolicy == Spec => VerdictFollowsPolicy
<1> DEFINE Verdict == pc = "walk" /\ pc' = "idle" /\ command # <<>> =>
             (verdict' = "error" <=> \E i \in DOMAIN command : Denied(command[i]))
<1>1. PInv /\ [Next]_vars => [Verdict]_vars
  <2> SUFFICES ASSUME PInv, Next, pc = "walk", pc' = "idle"
               PROVE  verdict' = "error" <=> \E i \in DOMAIN command : Denied(command[i])
    OBVIOUS
  <2>1. Return
    BY DEF Next, Collect, NewChecker, CheckRejects, Check, Visit
  <2>2. /\ next = Len(command) + 1 /\ DOMAIN command = 1..Len(command)
        /\ next - 1 = Len(command)
    BY <2>1 DEF PInv, Passed, Return
  <2>3. verdict' = "error" <=> checkErr # "nil"
    BY <2>1 DEF Return
  <2>4. CASE checkErr = "nil"
    BY <2>2, <2>3, <2>4 DEF PInv, Passed
  <2>5. CASE checkErr # "nil"
    BY <2>2, <2>3, <2>5 DEF PInv, DenialNamesFirst
  <2> QED
    BY <2>4, <2>5
<1> QED
  BY <1>1, PInvCorrect, PTL DEF Spec, VerdictFollowsPolicy

=============================================================================
