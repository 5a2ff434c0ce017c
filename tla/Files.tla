-------------------------------- MODULE Files --------------------------------
(***************************************************************************)
(* The read and write operations (Read, Write and WriteRaw in              *)
(* workspace/workspace.go) on one path.                                    *)
(*                                                                         *)
(* Read asks for the size of a file, opens it and reads it in three steps, *)
(* Write truncates it and writes it in two, and nothing locks the file, so *)
(* the size Read answers with and uses may be that of another content.     *)
(* The cloud reads a file page after page until the size it was told.      *)
(*                                                                         *)
(* A byte is named by its writer ("output" for the large outputs) and its  *)
(* position.  An open file (an inode) outlives its name.  offset + limit is*)
(* computed with the width of an int64.                                    *)
(***************************************************************************)
EXTENDS Integers, Sequences, FiniteSets

CONSTANTS
  Readers,    \* clients that read the file, page after page
  Requests,   \* the offsets and limits they ask for
  Writers,    \* the write tasks for this path, and commands that write it
  SizeOf,     \* SizeOf[w]: the length of the content writer w brings
  IntBound,   \* 2^63
  MaxAlloc    \* the longest slice Go can make (2^48 or less); a file may be longer

ASSUME FilesAssumption ==
  /\ IntBound \in Nat \ {0} /\ MaxAlloc \in 0..(IntBound - 1)
  /\ Requests \subseteq [offset : -IntBound..(IntBound - 1), limit : -IntBound..(IntBound - 1)]
  /\ SizeOf \in [Writers -> 0..(IntBound - 1)] /\ Readers \cap Writers = {}

VARIABLES
  ino,       \* the inode under the path, 0 for none
  data,      \* data[i]: the content of inode i
  rd,        \* rd[r]: the read operation client r is at
  wr,        \* wr[w]: the write operation w
  disturbed  \* those whose file was changed by another while they were at it

filesVars == <<ino, data, rd, wr, disturbed>>

Bytes(w, n) == [i \in 1..n |-> <<w, i>>]
Contents    == Seq((Writers \cup {"output"}) \X Nat)

\* The value of an int64 expression whose exact value is x.
Wrap(x) == ((x + IntBound) % (2 * IntBound)) - IntBound

Lesser(a, b) == IF a < b THEN a ELSE b

Clamped(offset) == IF offset < 0 THEN 0 ELSE offset

ReadIdle == [pc |-> "idle", from |-> 0, offset |-> 0, limit |-> 0, size |-> 0,
             fd |-> 0, got |-> <<>>]

ReadingPc == {"stat", "open", "read", "page"}
Reading == {r \in Readers : rd[r].pc \in ReadingPc}
Writing == {w \in Writers : wr[w].pc = "write"}

\* make panics, nothing recovers, and the process ends.
FilesPanicked == \E r \in Readers : rd[r].pc = "panic"

FilesTypeOK ==
  /\ ino \in 0..Len(data) /\ \A i \in DOMAIN data : data[i] \in Contents
  /\ rd \in [Readers -> [pc : ReadingPc \cup {"idle", "done", "error", "panic"},
                         from : Nat, offset : Int, limit : Int, size : Nat,
                         fd : 0..Len(data), got : Contents]]
  /\ wr \in [Writers -> [pc : {"idle", "write", "ok", "failed"}, fd : 0..Len(data)]]
  /\ disturbed \subseteq Readers \cup Writers

FilesInit ==
  /\ ino = 0 /\ data = <<>>
  /\ rd = [r \in Readers |-> ReadIdle]
  /\ wr = [w \in Writers |-> [pc |-> "idle", fd |-> 0]]
  /\ disturbed = {}
-----------------------------------------------------------------------------
(* Read.                                                                   *)

ReadGoto(r, from, to) == ~FilesPanicked /\ rd[r].pc = from /\ rd' = [rd EXCEPT ![r] = to]

\* A client asks for the first page.
ReadBegin(r, q) ==
  /\ ReadGoto(r, "idle", [ReadIdle EXCEPT !.pc = "stat", !.offset = q.offset, !.limit = q.limit,
                            !.from = Clamped(q.offset)])
  /\ UNCHANGED <<ino, data, wr, disturbed>>

\* safePath and os.Stat: an error, or the size of the file.
Stat(r) ==
  /\ IF ino = 0 THEN ReadGoto(r, "stat", [rd[r] EXCEPT !.pc = "error"])
     ELSE ReadGoto(r, "stat", [rd[r] EXCEPT !.pc = "open", !.size = Len(data[ino])])
  /\ UNCHANGED <<ino, data, wr, disturbed>>

\* os.Open, of what is under the path by now.
OpenRead(r) ==
  /\ IF ino = 0 THEN ReadGoto(r, "open", [rd[r] EXCEPT !.pc = "error"])
     ELSE ReadGoto(r, "open", [rd[r] EXCEPT !.pc = "read", !.fd = ino])
  /\ UNCHANGED <<ino, data, wr, disturbed>>

\* Mutant: only an offset beyond the end reduces the limit.
Extent_OffsetOnly(offset, limit, size) ==
  IF limit <= 0 \/ offset > size THEN size - offset ELSE limit

\* How many bytes readFileContent makes room for.
Extent(offset, limit, size) ==
  IF limit <= 0 \/ Wrap(offset + limit) > size THEN size - offset ELSE limit

\* Mutant: the end is one byte early.
PastEnd_OneEarly(offset, size) == offset + 1 >= size

PastEnd(offset, size) == offset >= size

\* readFileContent: nothing beyond the size, or else what ReadAt finds in the
\* file that was opened, which may have become shorter, or longer, since Stat.
ReadAt(r) ==
  LET s      == rd[r]
      offset == Clamped(s.offset)
      limit  == Extent(offset, s.limit, s.size)
      n      == Lesser(limit, Len(data[s.fd]) - offset)
  IN /\ s.pc = "read"
     /\ ReadGoto(r, "read",
          IF PastEnd(offset, s.size) THEN [s EXCEPT !.pc = "done"]
          ELSE IF limit > MaxAlloc THEN [s EXCEPT !.pc = "panic"]
          ELSE IF n <= 0 THEN [s EXCEPT !.pc = "error"]
          ELSE [s EXCEPT !.pc = "page", !.offset = offset + n,
                         !.got = @ \o SubSeq(data[s.fd], offset + 1, offset + n)])
     /\ UNCHANGED <<ino, data, wr, disturbed>>

\* The client asks for the page after the one it has got.
NextPage(r) ==
  /\ ReadGoto(r, "page", [rd[r] EXCEPT !.pc = "stat", !.fd = 0])
  /\ UNCHANGED <<ino, data, wr, disturbed>>

\* The path is refused or is a directory, or the file system reports an error.
ReadFails(r) ==
  /\ rd[r].pc \in {"stat", "open", "read"}
  /\ ReadGoto(r, rd[r].pc, [rd[r] EXCEPT !.pc = "error"])
  /\ UNCHANGED <<ino, data, wr, disturbed>>

ReadStep == \E r \in Readers :
  \/ \E q \in Requests : ReadBegin(r, q)
  \/ Stat(r) \/ OpenRead(r) \/ ReadAt(r) \/ NextPage(r) \/ ReadFails(r)
-----------------------------------------------------------------------------
(* Write, and what else happens to the path.                               *)

\* x changes the file or its name.
Disturb(x) == disturbed' = disturbed \cup Reading \cup (Writing \ {x})

\* Mutant: the file is not truncated when it is opened.
WriteOpen_Keeps(w) ==
  /\ ~FilesPanicked /\ wr[w].pc = "idle" /\ Disturb(w)
  /\ data' = IF ino = 0 THEN Append(data, <<>>) ELSE data
  /\ ino' = IF ino = 0 THEN Len(data) + 1 ELSE ino
  /\ wr' = [wr EXCEPT ![w] = [pc |-> "write", fd |-> ino']]
  /\ UNCHANGED rd

\* os.WriteFile opens the file: it is created, or truncated.
WriteOpen(w) ==
  /\ ~FilesPanicked /\ wr[w].pc = "idle" /\ Disturb(w)
  /\ data' = IF ino = 0 THEN Append(data, <<>>) ELSE [data EXCEPT ![ino] = <<>>]
  /\ ino' = IF ino = 0 THEN Len(data) + 1 ELSE ino
  /\ wr' = [wr EXCEPT ![w] = [pc |-> "write", fd |-> ino']]
  /\ UNCHANGED rd

\* The first n bytes of writer w over a content that may be longer by now.
Over(w, n, old) == Bytes(w, n) \o SubSeq(old, n + 1, Len(old))

\* os.WriteFile writes all of the content, or fails after some of it.
WriteData(w, n) ==
  /\ ~FilesPanicked /\ wr[w].pc = "write" /\ Disturb(w)
  /\ data' = [data EXCEPT ![wr[w].fd] = Over(w, n, @)]
  /\ wr' = [wr EXCEPT ![w].pc = IF n = SizeOf[w] THEN "ok" ELSE "failed"]
  /\ UNCHANGED <<ino, rd>>

\* The path is refused, the content is not base64, or there is no directory.
WriteFails(w) ==
  /\ ~FilesPanicked /\ wr[w].pc = "idle" /\ wr' = [wr EXCEPT ![w].pc = "failed"]
  /\ UNCHANGED <<ino, data, rd, disturbed>>

\* A command removes the file.
Unlink ==
  /\ ~FilesPanicked /\ ino # 0 /\ ino' = 0
  /\ disturbed' = disturbed \cup Reading \cup Writing
  /\ UNCHANGED <<data, rd, wr>>

WriteStep == \E w \in Writers :
  WriteOpen(w) \/ WriteFails(w) \/ \E n \in 0..SizeOf[w] : WriteData(w, n)
-----------------------------------------------------------------------------
(* Properties.                                                             *)

\* The pages a client has got up to the size it was told are the file from the
\* offset it began with, nothing missing, doubled or out of place, if nobody
\* changed the file meanwhile; this is how saved output is meant to be read.
PagesReassemble ==
  [][\A r \in Readers :
       rd[r].pc # "done" /\ rd'[r].pc = "done" /\ r \notin disturbed
         => rd'[r].got = SubSeq(data[ino], rd[r].from + 1, Len(data[ino]))]_filesVars

\* offset and limit are legal by themselves, and their sum has no int64.
Overflows(s) == s.offset + s.limit >= IntBound

\* However a file grows or shrinks between Stat and ReadAt, a page ends within
\* the size it is answered with, so the client's next offset is a valid one.
\* The buffer for a page ends the process only when what the file still holds is
\* more than memory does and the client has not asked for less, or when the sum
\* of offset and limit overflows: pages of moderate size are safe in any file.
ReadIsInBounds == \A r \in Readers :
  /\ rd[r].pc = "page" => rd[r].offset \in 1..rd[r].size \/ Overflows(rd[r])
  /\ rd[r].pc = "panic" =>
       \/ rd[r].size - Clamped(rd[r].offset) > MaxAlloc /\ rd[r].limit \notin 1..MaxAlloc
       \/ Overflows(rd[r])

\* A write that reports success leaves its content, all of it and nothing of
\* what was there before, unless the file was changed while it was written.
WriteIsExact ==
  [][\A w \in Writers :
       wr[w].pc # "ok" /\ wr'[w].pc = "ok" /\ w \notin disturbed'
         => data'[ino'] = Bytes(w, SizeOf[w])]_filesVars

=============================================================================
