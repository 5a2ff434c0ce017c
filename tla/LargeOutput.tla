----------------------------- MODULE LargeOutput -----------------------------
(***************************************************************************)
(* What becomes of an output that is too large for a reply                 *)
(* (workspace/large_output.go): it is saved in a file of its own, and the  *)
(* reply holds a preview of it and the path.                               *)
(*                                                                         *)
(* An output is its size and the length of its lines, the newline          *)
(* included.  The file is the one of module Files, which nobody else       *)
(* writes: its name is generated.                                          *)
(***************************************************************************)
EXTENDS Files

CONSTANTS
  MaxOutputSize,  \* DefaultMaxOutputSize (30000)
  PreviewSize,    \* DefaultPreviewSize (8000)
  PreviewLines,   \* DefaultPreviewLines (20)
  LineLength      \* the length of the lines of an output

ASSUME OutputAssumption ==
  /\ MaxOutputSize \in Nat \ {0} /\ PreviewSize \in 1..MaxOutputSize
  /\ PreviewLines \in Nat \ {0} /\ LineLength \in Nat \ {0}

\* strings.Split of n characters at the newlines, and the first lines joined.
LinesOf(n)   == n \div LineLength + 1
PreviewOf(n) == IF LinesOf(n) <= PreviewLines THEN n ELSE PreviewLines * LineLength - 1

NoReply    == [status |-> "none", shown |-> 0, truncated |-> FALSE, file |-> FALSE, total |-> 0]
ErrorReply == [NoReply EXCEPT !.status = "error"]
Replies    == [status : {"none", "ok", "error"}, shown : Nat, truncated : BOOLEAN,
               file : BOOLEAN, total : Nat]

\* An output of n characters that is returned as it is.
Unchanged(n) == [status |-> "ok", shown |-> n, truncated |-> FALSE, file |-> FALSE, total |-> n]

\* truncateContent: the preview of an output of n characters, with the path of
\* the file that holds it, or without one.
Truncated(n, file) ==
  [status |-> "ok", shown |-> Lesser(PreviewOf(n), PreviewSize), truncated |-> TRUE,
   file |-> file, total |-> n]

FitsReply(n) == n <= MaxOutputSize

\* WriteRaw puts the first n characters of the output, a slice, into a new file.
WriteRaw(n) ==
  /\ n <= MaxAlloc
  /\ data' = Append(data, Bytes("output", n)) /\ ino' = Len(data) + 1
  /\ UNCHANGED <<rd, wr, disturbed>>

\* Mutant: the reply names the file although it could not be written.
Save_Optimistic(n, reply) ==
  /\ \E k \in 0..n : WriteRaw(k)
  /\ reply = Truncated(n, TRUE)

\* Process, when the output does not fit: it is saved, and when that fails,
\* perhaps half way, the reply does not mention the file.
Save(n, reply) ==
  \/ WriteRaw(n) /\ reply = Truncated(n, TRUE)
  \/ UNCHANGED filesVars /\ reply = Truncated(n, FALSE)
  \/ (\E k \in 0..(n - 1) : WriteRaw(k)) /\ reply = Truncated(n, FALSE)

=============================================================================
