-------------------------------- MODULE Grep --------------------------------
(***************************************************************************)
(* The grep operation (Grep, grepWithRipgrep and grepWithGo in             *)
(* workspace/workspace.go, and rg and bufio.Scanner as they use them).     *)
(*                                                                         *)
(* With ripgrep the matches are the lines it has printed until it ends or  *)
(* is killed.  Which files it looks at is for its own rules to say (its    *)
(* --glob, ignored, hidden and binary files), a file it cannot read or     *)
(* finds to be binary is given up, and however it ends, grep succeeds.     *)
(* Without it the files of every include pattern are scanned one after the *)
(* other; a file that cannot be opened is passed over, and the scanner     *)
(* gives up at a line that is too long, without an error.                  *)
(*                                                                         *)
(* A line rg prints for a match has the form that is parsed; what else it  *)
(* prints (for a binary file) has not, and is dropped.  File names without *)
(* a colon are assumed.                                                    *)
(***************************************************************************)
EXTENDS LargeOutput

CONSTANTS
  Searched,   \* the files in the workspace
  LinesIn,    \* LinesIn[f]: for each line what is true of it: the expression
              \* of rg matches ("rg"), it contains the pattern ("go"), or it is
              \* too long for the scanner ("long")
  Globbed,    \* the files the include patterns name for doublestar, pattern
              \* after pattern
  RgSelected  \* the files rg selects with the same patterns

ASSUME GrepAssumption ==
  /\ LinesIn \in [Searched -> Seq(SUBSET {"rg", "go", "long"})]
  /\ Globbed \in Seq(Searched) /\ RgSelected \subseteq Searched /\ IsFiniteSet(RgSelected)

VARIABLES
  grep,      \* program counter of the operation
  grepStop,  \* the task has been cancelled
  rg,        \* how rg has ended, "go" when there is no rg
  agenda,    \* the files that have still to be searched, in this order
  skipped,   \* files that could not be opened, or that rg has given up
  matches,   \* the matches, in order
  found      \* the result

grepVars == <<grep, grepStop, rg, agenda, skipped, matches, found>>

GrepTypeOK ==
  /\ grep \in {"begin", "search", "process", "done"} /\ grepStop \in BOOLEAN
  /\ rg \in {"go", "running", "ended", "killed", "failed"}
  /\ agenda \in Seq(Searched) /\ skipped \subseteq Searched
  /\ matches \in Seq(Searched \X Nat) /\ found \in Replies

GrepInit ==
  /\ grep = "begin" /\ grepStop = FALSE /\ rg = "go" /\ agenda = <<>>
  /\ skipped = {} /\ matches = <<>> /\ found = NoReply

\* The orders in which rg, which searches in parallel, may come to its files.
Orders(S) == {order \in [1..Cardinality(S) -> S] : \A f \in S : \E i \in DOMAIN order : order[i] = f}

\* The lines of file f that the tool at work matches; the scanner comes to the
\* first line that is too long, and no further.
HitsOf(f) ==
  IF rg # "go" THEN {i \in DOMAIN LinesIn[f] : "rg" \in LinesIn[f][i]}
  ELSE {i \in DOMAIN LinesIn[f] : "go" \in LinesIn[f][i] /\ \A j \in 1..i : "long" \notin LinesIn[f][j]}

\* The matches at the lines in set S of file f, in the order of the lines.
MatchesAt(f, S) == {ms \in [1..Cardinality(S) -> {f} \X S] :
                      \A i, j \in DOMAIN ms : i < j => ms[i][2] < ms[j][2]}

\* The matches at the lines in set S of the next file are found.
Match(S) == \E ms \in MatchesAt(Head(agenda), S) : matches' = matches \o ms

StopGrep ==
  /\ grep # "done" /\ ~grepStop /\ grepStop' = TRUE
  /\ UNCHANGED <<grep, rg, agenda, skipped, matches, found, filesVars>>

\* LookPath finds rg, or it does not.
BeginGrep ==
  /\ grep = "begin" /\ grep' = "search"
  /\ \/ rg' = "running" /\ agenda' \in Orders(RgSelected)
     \/ rg' = "go" /\ agenda' = Globbed
  /\ UNCHANGED <<grepStop, skipped, matches, found, filesVars>>

\* rg prints the matches of one file after the other.
RgPrints ==
  /\ grep = "search" /\ rg = "running" /\ agenda # <<>>
  /\ Match(HitsOf(Head(agenda))) /\ agenda' = Tail(agenda)
  /\ UNCHANGED <<grep, grepStop, rg, skipped, found, filesVars>>

\* rg cannot open or read the next file, finds amid it that it is binary, or is
\* about to be killed: it has printed the matches up to some line.
RgGivesUp ==
  /\ grep = "search" /\ rg = "running" /\ agenda # <<>>
  /\ \E n \in 0..Len(LinesIn[Head(agenda)]) : Match(HitsOf(Head(agenda)) \cap (1..n))
  /\ skipped' = skipped \cup {Head(agenda)} /\ agenda' = Tail(agenda)
  /\ UNCHANGED <<grep, grepStop, rg, found, filesVars>>

\* The error of cmd.Run is ignored: an exit status of 2 for files given up or
\* for an expression that does not parse, and that rg was killed.
RgEnds ==
  /\ grep = "search" /\ rg = "running" /\ grep' = "process"
  /\ \/ agenda = <<>> /\ rg' = "ended"
     \/ matches = <<>> /\ skipped = {} /\ rg' = "failed"
     \/ grepStop /\ rg' = "killed"
  /\ UNCHANGED <<grepStop, agenda, skipped, matches, found, filesVars>>

\* grepWithGo scans the next file ...
GoScans ==
  /\ grep = "search" /\ rg = "go" /\ agenda # <<>>
  /\ Match(HitsOf(Head(agenda))) /\ agenda' = Tail(agenda)
  /\ UNCHANGED <<grep, grepStop, rg, skipped, found, filesVars>>

\* Mutant: the loop ends at a file that cannot be opened.
GoSkips_Breaks ==
  /\ grep = "search" /\ rg = "go" /\ agenda # <<>>
  /\ skipped' = skipped \cup {Head(agenda)} /\ agenda' = <<>>
  /\ UNCHANGED <<grep, grepStop, rg, matches, found, filesVars>>

\* ... or cannot open it.
GoSkips ==
  /\ grep = "search" /\ rg = "go" /\ agenda # <<>>
  /\ skipped' = skipped \cup {Head(agenda)} /\ agenda' = Tail(agenda)
  /\ UNCHANGED <<grep, grepStop, rg, matches, found, filesVars>>

GoEnds ==
  /\ grep = "search" /\ rg = "go" /\ agenda = <<>> /\ grep' = "process"
  /\ UNCHANGED <<grepStop, rg, agenda, skipped, matches, found, filesVars>>

\* The matches are joined, a line for each, and processed.
ReturnMatches ==
  LET n == Len(matches) * LineLength
  IN /\ grep = "process" /\ grep' = "done"
     /\ \/ FitsReply(n) /\ found' = Unchanged(n) /\ UNCHANGED filesVars
        \/ ~FitsReply(n) /\ Save(n, found')
     /\ UNCHANGED <<grepStop, rg, agenda, skipped, matches>>

GrepStep ==
  \/ StopGrep \/ BeginGrep \/ RgPrints \/ RgGivesUp \/ RgEnds \/ GoScans \/ GoSkips \/ GoEnds
  \/ ReturnMatches
-----------------------------------------------------------------------------
Times(x, seq) == Cardinality({i \in DOMAIN seq : seq[i] = x})

\* How often a line of file f that matches is to be reported.
Named(f) == IF rg = "go" THEN Times(f, Globbed) ELSE IF f \in RgSelected THEN 1 ELSE 0

\* Nothing is lost or doubled but what is given up: a search that comes to its
\* end has reported every matching line of every file that was not given up as
\* often as the include patterns name the file (grepWithGo), or once (rg, of the
\* files it selects itself); however a search ends it has reported no line more
\* often than that, and no other line.
GrepIsComplete == grep = "done" =>
  \A f \in Searched : \A i \in DOMAIN LinesIn[f] :
    LET n == Times(<<f, i>>, matches)
    IN /\ rg \in {"go", "ended"} /\ f \notin skipped /\ i \in HitsOf(f) => n = Named(f)
       /\ n <= IF i \in HitsOf(f) THEN Named(f) ELSE 0

=============================================================================
