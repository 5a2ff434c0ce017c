----------------------------- MODULE FilesProofs -----------------------------
(***************************************************************************)
(* Proofs about the file the operations of the workspace meet at, for any  *)
(* number of readers and writers, contents of any size and any int64: what *)
(* the write operations and the saved outputs leave in it (FilesInv), and  *)
(* what the read operations get of it, page after page (ReadInv).          *)
(***************************************************************************)
EXTENDS WorkspaceProofs

\* Files fit into memory, and a file is open while it is written.
Stored ==
  /\ data \in Seq(Contents) /\ \A i \in DOMAIN data : Len(data[i]) < IntBound
  /\ ino \in 0..Len(data) /\ disturbed \subseteq Readers \cup Writers
  /\ wr \in [Writers -> [pc : {"idle", "write", "ok", "failed"}, fd : 0..Len(data)]]
  /\ \A w \in Writers : wr[w].pc = "write" => wr[w].fd # 0

\* A writer whose file nobody else has changed has it empty and under its path.
Truncates == \A w \in Writers : wr[w].pc = "write" /\ w \notin disturbed =>
  ino # 0 /\ wr[w].fd = ino /\ data[ino] = <<>>

\* An output is saved by the last step of an operation, and not written again.
SavesLast ==
  /\ op # "files" => \A w \in Writers : wr[w].pc = "idle"
  /\ Result.file => ino # 0
  /\ reply.file \in BOOLEAN /\ (reply.file => bash = "done")
  /\ fetched.file \in BOOLEAN /\ (fetched.file => fetch = "done")
  /\ found.file \in BOOLEAN /\ (found.file => grep = "done")

FilesInv == Stored /\ Truncates /\ SavesLast /\ SavedIsWhole

\* Which replies name a file.
LEMMA ReplyFile ==
  /\ NoReply.file = FALSE /\ ErrorReply.file = FALSE
  /\ \A n : Unchanged(n).file = FALSE
  /\ \A n, f : Truncated(n, f).file = f /\ Truncated(n, f).total = n
BY DEF NoReply, ErrorReply, Unchanged, Truncated

\* What an operation whose result is res does to the file: nothing, or it saves
\* its output, as a whole if the result says so.
Kept(res) ==
  UNCHANGED filesVars /\ (res' = res \/ ~(res.file \/ res'.file)) /\ res'.file \in BOOLEAN
SavedNow(res) ==
  \E n \in Nat : WriteRaw(n) /\ ~res.file /\ res'.file \in BOOLEAN /\ (res'.file => n = res'.total)

\* What is known of the outputs.
Outputs == BashInv /\ GrepInv

\* The outcomes of Save.
LEMMA SaveEffect ==
  ASSUME NEW n \in Nat, NEW res, Save(n, res)
  PROVE  /\ res.file \in BOOLEAN
         /\ \/ UNCHANGED filesVars /\ ~res.file
            \/ \E k \in Nat : WriteRaw(k) /\ (res.file => k = res.total)
<1>1. CASE WriteRaw(n) /\ res = Truncated(n, TRUE)
  <2>1. res.file = TRUE /\ res.total = n
    BY <1>1, ReplyFile
  <2> QED
    BY <1>1, <2>1
<1>2. CASE UNCHANGED filesVars /\ res = Truncated(n, FALSE)
  BY <1>2, ReplyFile
<1>3. CASE (\E k \in 0..(n - 1) : WriteRaw(k)) /\ res = Truncated(n, FALSE)
  <2>1. PICK k \in 0..(n - 1) : WriteRaw(k)
    BY <1>3
  <2>2. res.file = FALSE
    BY <1>3, ReplyFile
  <2>3. k \in Nat
    BY <2>1
  <2> QED
    BY <2>1, <2>2, <2>3
<1> QED
  BY <1>1, <1>2, <1>3 DEF Save

\* The operations that save an output do so as their last step.
LEMMA BashEffect ==
  ASSUME FilesInv, Outputs, BashEnvironment \/ BashOperation
  PROVE  /\ Kept(reply) \/ SavedNow(reply)
         /\ reply'.file => bash' = "done"
<1>1. CASE BashEnvironment
  BY <1>1 DEF BashEnvironment, Deadline, CancelTask, Fork, ChildEnds, BashExits, Produce, Kept,
    FilesInv, SavesLast
<1>2. CASE Refuse \/ Accept \/ StartOk \/ StartFails \/ Kill \/ Reap \/ RunReturns
           \/ (\E b \in BOOLEAN : ReturnOutput(b))
           \/ (\E s \in Streams : Copied(s) \/ CopyEnds(s))
  BY <1>2, ReplyFile DEF Refuse, Accept, StartOk, StartFails, Kill, Reap, RunReturns, ReturnOutput,
    Copied, CopyEnds, Conclude, Return, Kept, FilesInv, SavesLast
<1>3. CASE SaveOutput
  <2>1. ~reply.file /\ bash' = "done" /\ Save(kept["stdout"], reply') /\ kept["stdout"] \in Nat
    BY <1>3, BashAssumption DEF SaveOutput, FilesInv, SavesLast, Outputs, BashInv, Streamed
  <2>2. PICK res : res = reply'
    OBVIOUS
  <2>3. Save(kept["stdout"], res)
    BY <2>1, <2>2
  <2>4. /\ res.file \in BOOLEAN
        /\ \/ UNCHANGED filesVars /\ ~res.file
           \/ \E k \in Nat : WriteRaw(k) /\ (res.file => k = res.total)
    BY <2>1, <2>3, SaveEffect
  <2> QED
    BY <2>1, <2>2, <2>4 DEF Kept, SavedNow
<1> QED
  BY <1>1, <1>2, <1>3 DEF BashOperation

LEMMA FetchEffect ==
  ASSUME FilesInv, FetchEnvironment \/ FetchOperation
  PROVE  /\ Kept(fetched) \/ SavedNow(fetched)
         /\ fetched'.file => fetch' = "done"
<1>1. CASE FetchEnvironment
  BY <1>1 DEF FetchEnvironment, TimeUp, StopFetch, Arrive, NetFails, Kept, bodyVars, FilesInv, SavesLast
<1>2. CASE BadURL \/ Request \/ DoFails \/ DoOk \/ Abort \/ DeclaredTooLarge \/ ReadBody
           \/ ReadEnds \/ ReadBodyFails
  BY <1>2, ReplyFile DEF BadURL, Request, DoFails, DoOk, Abort, DeclaredTooLarge, ReadBody,
    ReadEnds, ReadBodyFails, FetchFails, Kept, bodyVars, FilesInv, SavesLast
<1>3. CASE ConvertAndReturn
  <2>1. PICK n \in Nat : \/ fetched' = Unchanged(n) /\ UNCHANGED filesVars
                         \/ Save(n, fetched')
    BY <1>3, FetchAssumption DEF ConvertAndReturn
  <2>2. ~fetched.file /\ fetch' = "done"
    BY <1>3 DEF ConvertAndReturn, FilesInv, SavesLast
  <2>3. PICK res : res = fetched'
    OBVIOUS
  <2>4. CASE fetched' = Unchanged(n) /\ UNCHANGED filesVars
    BY <2>2, <2>4, ReplyFile DEF Kept
  <2>5. CASE Save(n, fetched')
    <3>1. Save(n, res)
      BY <2>3, <2>5
    <3>2. /\ res.file \in BOOLEAN
          /\ \/ UNCHANGED filesVars /\ ~res.file
             \/ \E k \in Nat : WriteRaw(k) /\ (res.file => k = res.total)
      BY <2>2, <3>1, SaveEffect
    <3> QED
      BY <2>2, <2>3, <3>2 DEF Kept, SavedNow
  <2> QED
    BY <2>1, <2>4, <2>5
<1> QED
  BY <1>1, <1>2, <1>3 DEF FetchOperation

LEMMA GrepEffect ==
  ASSUME FilesInv, Outputs, GrepStep
  PROVE  /\ Kept(found) \/ SavedNow(found)
         /\ found'.file => grep' = "done"
<1>1. CASE StopGrep \/ BeginGrep \/ RgPrints \/ RgGivesUp \/ RgEnds \/ GoScans \/ GoSkips \/ GoEnds
  BY <1>1 DEF StopGrep, BeginGrep, RgPrints, RgGivesUp, RgEnds, GoScans, GoSkips, GoEnds, Kept, FilesInv, SavesLast
<1>2. CASE ReturnMatches
  <2>1. PICK n \in Nat : n = Len(matches) * LineLength
    BY LenProperties, OutputAssumption DEF Outputs, GrepInv, GrepTypeOK
  <2>3. ~found.file /\ grep' = "done"
    BY <1>2 DEF ReturnMatches, FilesInv, SavesLast
  <2>4. PICK res : res = found'
    OBVIOUS
  <2>5. CASE found' = Unchanged(n) /\ UNCHANGED filesVars
    BY <2>3, <2>5, ReplyFile DEF Kept
  <2>6. CASE Save(n, found')
    <3>1. Save(n, res)
      BY <2>4, <2>6
    <3>2. /\ res.file \in BOOLEAN
          /\ \/ UNCHANGED filesVars /\ ~res.file
             \/ \E k \in Nat : WriteRaw(k) /\ (res.file => k = res.total)
      BY <3>1, SaveEffect
    <3> QED
      BY <2>3, <2>4, <3>2 DEF Kept, SavedNow
  <2> QED
    BY <1>2, <2>1, <2>5, <2>6 DEF ReturnMatches
<1> QED
  BY <1>1, <1>2 DEF GrepStep

\* What a step does to the file: it is read or written as a file, or it is the
\* one of a saved output.
LEMMA FileSteps ==
  ASSUME FilesInv, Outputs, [Next]_workspaceVars
  PROVE  /\ op' = op
         /\ \/ op = "files" /\ (ReadStep \/ WriteStep \/ Unlink)
            \/ op # "files" /\ Result.file /\ ReadStep /\ UNCHANGED <<reply, fetched, found>>
            \/ Kept(Result)
            \/ op # "files" /\ SavedNow(Result)
         /\ reply'.file \in BOOLEAN /\ (reply'.file => bash' = "done")
         /\ fetched'.file \in BOOLEAN /\ (fetched'.file => fetch' = "done")
         /\ found'.file \in BOOLEAN /\ (found'.file => grep' = "done")
<1>1. CASE UNCHANGED workspaceVars
  BY <1>1, ReplyFile DEF workspaceVars, bashVars, fetchVars, grepVars, FilesInv, SavesLast, Kept, Result
<1>2. CASE OnFiles
  BY <1>2 DEF OnFiles, bashVars, fetchVars, grepVars, FilesInv, SavesLast
<1>3. CASE OnBash
  <2>1. op = "bash" /\ op' = op /\ Result = reply /\ Result' = reply'
        /\ UNCHANGED <<fetchVars, grepVars>>
    BY <1>3 DEF OnBash, Result
  <2>2. CASE BashEnvironment \/ BashOperation
    <3>1. (Kept(reply) \/ SavedNow(reply)) /\ (reply'.file => bash' = "done")
      BY <2>2, BashEffect
    <3> QED
      BY <2>1, <3>1 DEF Kept, SavedNow, fetchVars, grepVars, FilesInv, SavesLast
  <2>3. CASE ReadSaved /\ UNCHANGED bashVars
    BY <2>1, <2>3 DEF ReadSaved, bashVars, fetchVars, grepVars, FilesInv, SavesLast
  <2> QED
    BY <1>3, <2>2, <2>3 DEF OnBash
<1>4. CASE OnFetch
  <2>1. op = "webfetch" /\ op' = op /\ Result = fetched /\ Result' = fetched'
        /\ UNCHANGED <<bashVars, grepVars>>
    BY <1>4 DEF OnFetch, Result
  <2>2. CASE FetchEnvironment \/ FetchOperation
    <3>1. (Kept(fetched) \/ SavedNow(fetched)) /\ (fetched'.file => fetch' = "done")
      BY <2>2, FetchEffect
    <3> QED
      BY <2>1, <3>1 DEF Kept, SavedNow, bashVars, grepVars, FilesInv, SavesLast
  <2>3. CASE ReadSaved /\ UNCHANGED fetchVars
    BY <2>1, <2>3 DEF ReadSaved, bashVars, fetchVars, grepVars, FilesInv, SavesLast
  <2> QED
    BY <1>4, <2>2, <2>3 DEF OnFetch
<1>5. CASE OnGrep
  <2>1. op = "grep" /\ op' = op /\ Result = found /\ Result' = found'
        /\ UNCHANGED <<bashVars, fetchVars>>
    BY <1>5 DEF OnGrep, Result
  <2>2. CASE GrepStep
    <3>1. (Kept(found) \/ SavedNow(found)) /\ (found'.file => grep' = "done")
      BY <2>2, GrepEffect
    <3> QED
      BY <2>1, <3>1 DEF Kept, SavedNow, bashVars, fetchVars, FilesInv, SavesLast
  <2>3. CASE ReadSaved /\ UNCHANGED grepVars
    BY <2>1, <2>3 DEF ReadSaved, bashVars, fetchVars, grepVars, FilesInv, SavesLast
  <2> QED
    BY <1>5, <2>2, <2>3 DEF OnGrep
<1>6. CASE OnList \/ OnSkill
  <2>1. op \in {"list", "sync_skill"} /\ op' = op /\ UNCHANGED <<filesVars, bashVars, fetchVars, grepVars>>
    BY <1>6 DEF OnList, OnSkill
  <2>2. Result = NoReply /\ Result' = NoReply
    BY <2>1 DEF Result, NoReply
  <2> QED
    BY <2>1, <2>2, ReplyFile DEF bashVars, fetchVars, grepVars, Kept, FilesInv, SavesLast
<1>7. CASE Ended
  BY <1>1, <1>7 DEF Ended
<1> QED
  BY <1>1, <1>2, <1>3, <1>4, <1>5, <1>6, <1>7 DEF Next
-----------------------------------------------------------------------------
(* What is written and saved.                                            *)

\* There is no file yet.
LEMMA FilesInitInv == Init => FilesInv
<1> SUFFICES ASSUME Init PROVE FilesInv
  OBVIOUS
<1>1. reply = NoReply /\ fetched = NoReply /\ found = NoReply /\ Result = NoReply
  BY DEF Init, BashInit, FetchInit, GrepInit, Result
<1>2. data = <<>> /\ data \in Seq(Contents) /\ Len(data) = 0 /\ DOMAIN data = {} /\ ino = 0 /\ disturbed = {}
  BY DEF Init, FilesInit
<1>3. \A w \in Writers : wr[w].pc = "idle"
  BY DEF Init, FilesInit
<1>4. wr \in [Writers -> [pc : {"idle", "write", "ok", "failed"}, fd : 0..Len(data)]]
  BY <1>2 DEF Init, FilesInit
<1>5. Stored
  BY <1>2, <1>3, <1>4 DEF Stored
<1> QED
  BY <1>1, <1>2, <1>3, <1>5, ReplyFile DEF FilesInv, Truncates, SavesLast, SavedIsWhole

\* Steps that leave the file, its name and its writers alone.
LEMMA ReadsLeaveFile ==
  ASSUME ReadStep
  PROVE  UNCHANGED <<data, ino, wr, disturbed>>
BY DEF ReadStep, ReadBegin, Stat, OpenRead, ReadAt, NextPage, ReadFails

\* Nothing is done to the file.
LEMMA StoredStays ==
  ASSUME Stored, UNCHANGED <<data, ino, wr, disturbed>>
  PROVE  Stored'
BY DEF Stored

\* A file comes, or gets another content.
LEMMA ContentAdded ==
  ASSUME Stored, NEW c \in Contents, Len(c) < IntBound, data' = Append(data, c)
  PROVE  /\ data' \in Seq(Contents) /\ Len(data) \in Nat /\ Len(data') = Len(data) + 1
         /\ data'[Len(data')] = c /\ \A i \in DOMAIN data' : Len(data'[i]) < IntBound
<1>1. /\ data' \in Seq(Contents) /\ Len(data) \in Nat /\ Len(data') = Len(data) + 1
      /\ DOMAIN data = 1..Len(data) /\ DOMAIN data' = 1..(Len(data) + 1)
      /\ \A i \in 1..Len(data) : data'[i] = data[i]
      /\ data'[Len(data) + 1] = c
  BY AppendProperties, LenProperties DEF Stored
<1>2. \A i \in 1..Len(data) : Len(data'[i]) < IntBound
  BY <1>1 DEF Stored
<1>3. \A i \in 1..(Len(data) + 1) : i \in 1..Len(data) \/ i = Len(data) + 1
  BY <1>1
<1> QED
  BY <1>1, <1>2, <1>3

LEMMA ContentReplaced ==
  ASSUME Stored, NEW f \in DOMAIN data, NEW c \in Contents, Len(c) < IntBound,
         data' = [data EXCEPT ![f] = c]
  PROVE  /\ data' \in Seq(Contents) /\ Len(data') = Len(data) /\ data'[f] = c
         /\ \A i \in DOMAIN data' : Len(data'[i]) < IntBound
<1>1. DOMAIN data = 1..Len(data) /\ Len(data) \in Nat /\ data \in Seq(Contents)
  BY LenProperties DEF Stored
<1>2. /\ data' \in Seq(Contents) /\ Len(data') = Len(data) /\ DOMAIN data' = DOMAIN data
      /\ \A i \in 1..Len(data) : data'[i] = IF i = f THEN c ELSE data[i]
  BY <1>1, ExceptSeq
<1> QED
  BY <1>1, <1>2 DEF Stored

\* What is written fits into memory.
LEMMA BytesAre ==
  ASSUME NEW w \in Writers \cup {"output"}, NEW n \in Nat
  PROVE  Bytes(w, n) \in Contents /\ Len(Bytes(w, n)) = n
<1>1. Bytes(w, n) \in [1..n -> (Writers \cup {"output"}) \X Nat]
  BY DEF Bytes
<1> QED
  BY <1>1 DEF Contents

LEMMA OverIs ==
  ASSUME NEW w \in Writers, NEW n \in 0..SizeOf[w], NEW old \in Contents, Len(old) < IntBound
  PROVE  Over(w, n, old) \in Contents /\ Len(Over(w, n, old)) < IntBound
<1> DEFINE rest == SubSeq(old, n + 1, Len(old))
           B == (Writers \cup {"output"}) \X Nat
<1>1. n \in Nat /\ n < IntBound /\ IntBound \in Nat /\ Len(old) \in Nat /\ old \in Seq(B)
  BY FilesAssumption, LenProperties DEF Contents
<1>2. rest \in Seq(B) /\ Len(rest) = IF n + 1 <= Len(old) THEN Len(old) - (n + 1) + 1 ELSE 0
  <2>1. \A i \in (n + 1)..Len(old) : old[i] \in B
    BY <1>1, ElementOfSeq
  <2> HIDE DEF B
  <2> QED
    BY <1>1, <2>1, SubSeqProperties
<1>3. Bytes(w, n) \in Seq(B) /\ Len(Bytes(w, n)) = n
  BY <1>1, BytesAre DEF Contents
<1> HIDE DEF rest
<1>4. Bytes(w, n) \o rest \in Seq(B) /\ Len(Bytes(w, n) \o rest) = n + Len(rest)
  BY <1>2, <1>3, ConcatProperties
<1> QED
  BY <1>1, <1>2, <1>4 DEF Over, Contents, rest

\* The first step of a write makes the file empty.
LEMMA WriteOpenKeeps ==
  ASSUME FilesInv, NEW w \in Writers, WriteOpen(w)
  PROVE  Stored' /\ Truncates' /\ Len(data') >= Len(data)
<1>1. /\ Stored /\ ino \in 0..Len(data) /\ Len(data) \in Nat /\ DOMAIN data = 1..Len(data)
      /\ wr \in [Writers -> [pc : {"idle", "write", "ok", "failed"}, fd : 0..Len(data)]]
  BY LenProperties DEF FilesInv, Stored
<1>2. <<>> \in Contents /\ Len(<<>>) < IntBound
  BY FilesAssumption DEF Contents
<1>3. /\ data' \in Seq(Contents) /\ \A i \in DOMAIN data' : Len(data'[i]) < IntBound
      /\ Len(data') \in Nat /\ Len(data') >= Len(data) /\ ino' \in 1..Len(data') /\ data'[ino'] = <<>>
  <2>1. CASE ino = 0
    <3>1. data' = Append(data, <<>>) /\ ino' = Len(data) + 1
      BY <2>1 DEF WriteOpen
    <3> QED
      BY <1>1, <1>2, <3>1, ContentAdded
  <2>2. CASE ino # 0
    <3>1. data' = [data EXCEPT ![ino] = <<>>] /\ ino' = ino /\ ino \in DOMAIN data
      BY <1>1, <2>2 DEF WriteOpen
    <3>2. /\ data' \in Seq(Contents) /\ Len(data') = Len(data) /\ data'[ino] = <<>>
          /\ \A i \in DOMAIN data' : Len(data'[i]) < IntBound
      BY <1>1, <1>2, <3>1, ContentReplaced
    <3> QED
      BY <1>1, <3>1, <3>2
  <2> QED
    BY <2>1, <2>2
<1>4. /\ wr' = [wr EXCEPT ![w] = [pc |-> "write", fd |-> ino']]
      /\ disturbed' = disturbed \cup Reading \cup (Writing \ {w})
  BY DEF WriteOpen, Disturb
<1>5. /\ wr' \in [Writers -> [pc : {"idle", "write", "ok", "failed"}, fd : 0..Len(data')]]
      /\ wr'[w].fd = ino' /\ \A v \in Writers : v # w => wr'[v] = wr[v]
  <2>1. wr \in [Writers -> [pc : {"idle", "write", "ok", "failed"}, fd : 0..Len(data')]]
    BY <1>1, <1>3
  <2> QED
    BY <1>3, <1>4, <2>1
<1>6. \A v \in Writers : v # w /\ wr'[v].pc = "write" => v \in disturbed' /\ wr'[v].fd # 0
  BY <1>4, <1>5 DEF Writing, FilesInv, Stored
<1>7. disturbed' \subseteq Readers \cup Writers
  BY <1>4 DEF Reading, Writing, FilesInv, Stored
<1>8. ino' # 0 /\ ino' \in 0..Len(data')
  BY <1>3
<1>9. Stored'
  BY <1>3, <1>5, <1>6, <1>7, <1>8 DEF Stored
<1> QED
  BY <1>3, <1>5, <1>6, <1>8, <1>9 DEF Truncates

\* The second disturbs the writers that are at the file.
LEMMA WriteDataKeeps ==
  ASSUME FilesInv, NEW w \in Writers, NEW n \in 0..SizeOf[w], WriteData(w, n)
  PROVE  Stored' /\ Truncates' /\ Len(data') = Len(data)
<1>1. /\ Stored /\ ino \in 0..Len(data) /\ Len(data) \in Nat /\ DOMAIN data = 1..Len(data)
      /\ wr \in [Writers -> [pc : {"idle", "write", "ok", "failed"}, fd : 0..Len(data)]]
  BY LenProperties DEF FilesInv, Stored
<1>2. wr[w].fd \in DOMAIN data
  BY <1>1 DEF WriteData, Stored
<1>3. data[wr[w].fd] \in Contents /\ Len(data[wr[w].fd]) < IntBound
  BY <1>1, <1>2 DEF Stored
<1>4. /\ data' \in Seq(Contents) /\ \A i \in DOMAIN data' : Len(data'[i]) < IntBound
      /\ Len(data') = Len(data)
  <2>1. PICK c : c = Over(w, n, data[wr[w].fd])
    OBVIOUS
  <2>2. c \in Contents /\ Len(c) < IntBound
    BY <1>3, <2>1, OverIs
  <2>3. data' = [data EXCEPT ![wr[w].fd] = c]
    BY <2>1 DEF WriteData
  <2> QED
    BY <1>1, <1>2, <2>2, <2>3, ContentReplaced
<1>5. /\ wr' \in [Writers -> [pc : {"idle", "write", "ok", "failed"}, fd : 0..Len(data)]]
      /\ wr'[w].pc # "write" /\ \A v \in Writers : v # w => wr'[v] = wr[v]
  BY <1>1 DEF WriteData
<1>6. \A v \in Writers : wr'[v].pc = "write" => v \in disturbed' /\ wr'[v].fd # 0
  BY <1>1, <1>5 DEF WriteData, Disturb, Writing, Stored
<1>7. disturbed' \subseteq Readers \cup Writers
  BY <1>1 DEF WriteData, Disturb, Reading, Writing, Stored
<1>8. Stored'
  BY <1>1, <1>4, <1>5, <1>6, <1>7 DEF Stored, WriteData
<1> QED
  BY <1>4, <1>6, <1>8 DEF Truncates

\* A write that fails at once, and a removal.
LEMMA FailOrUnlinkKeeps ==
  ASSUME FilesInv, Unlink \/ \E w \in Writers : WriteFails(w)
  PROVE  Stored' /\ Truncates' /\ data' = data
<1>1. CASE Unlink
  <2>1. /\ wr' = wr /\ data' = data /\ ino' = 0 /\ disturbed' = disturbed \cup Reading \cup Writing
        /\ \A w \in Writers : wr[w].pc = "write" => w \in disturbed'
    BY <1>1 DEF Unlink, Writing
  <2>2. 0 \in 0..Len(data) /\ disturbed' \subseteq Readers \cup Writers
    BY <2>1, LenProperties DEF FilesInv, Stored, Reading, Writing
  <2>3. Stored'
    BY <2>1, <2>2 DEF FilesInv, Stored
  <2> QED
    BY <2>1, <2>3 DEF Truncates
<1>2. ASSUME NEW w \in Writers, WriteFails(w)
      PROVE  Stored' /\ Truncates' /\ data' = data
  <2>1. wr \in [Writers -> [pc : {"idle", "write", "ok", "failed"}, fd : 0..Len(data)]]
    BY DEF FilesInv, Stored
  <2>2. /\ wr' \in [Writers -> [pc : {"idle", "write", "ok", "failed"}, fd : 0..Len(data)]]
        /\ wr'[w].pc # "write" /\ \A v \in Writers : v # w => wr'[v] = wr[v]
        /\ UNCHANGED <<data, ino, disturbed>>
    BY <1>2, <2>1 DEF WriteFails
  <2>3. Stored'
    BY <2>2 DEF FilesInv, Stored
  <2> QED
    BY <2>2, <2>3 DEF FilesInv, Truncates
<1> QED
  BY <1>1, <1>2

\* The file of a saved output is new.
LEMMA SaveKeeps ==
  ASSUME FilesInv, SavedNow(Result)
  PROVE  /\ Stored' /\ wr' = wr /\ ino' # 0 /\ Len(data') >= Len(data)
         /\ Result'.file => data'[ino'] = Bytes("output", Result'.total)
<1>1. PICK n \in Nat : WriteRaw(n) /\ (Result'.file => n = Result'.total)
  BY DEF SavedNow
<1>2. Bytes("output", n) \in Contents /\ Len(Bytes("output", n)) < IntBound
  <2>1. Bytes("output", n) \in Contents /\ Len(Bytes("output", n)) = n
    BY BytesAre
  <2>2. n <= MaxAlloc
    BY <1>1 DEF WriteRaw
  <2>3. n \in Nat /\ MaxAlloc \in Nat /\ IntBound \in Nat /\ MaxAlloc < IntBound
    BY FilesAssumption
  <2>4. n < IntBound
    BY <2>2, <2>3
  <2> QED
    BY <2>1, <2>4
<1>3. /\ data' = Append(data, Bytes("output", n)) /\ ino' = Len(data) + 1
      /\ UNCHANGED <<rd, wr, disturbed>> /\ Stored
  BY <1>1 DEF WriteRaw, FilesInv
<1>4. /\ data' \in Seq(Contents) /\ Len(data) \in Nat /\ Len(data') = Len(data) + 1
      /\ data'[Len(data')] = Bytes("output", n) /\ \A i \in DOMAIN data' : Len(data'[i]) < IntBound
  BY <1>2, <1>3, ContentAdded
<1>5. wr' \in [Writers -> [pc : {"idle", "write", "ok", "failed"}, fd : 0..Len(data')]]
  BY <1>3, <1>4 DEF Stored
<1>6. ino' = Len(data') /\ ino' \in 0..Len(data') /\ ino' # 0
  BY <1>3, <1>4
<1>7. Stored'
  BY <1>3, <1>4, <1>5, <1>6 DEF Stored
<1> QED
  BY <1>1, <1>3, <1>4, <1>6, <1>7

LEMMA FilesNextInv == FilesInv /\ Outputs /\ [Next]_workspaceVars => FilesInv'
<1> SUFFICES ASSUME FilesInv, Outputs, [Next]_workspaceVars PROVE FilesInv'
  OBVIOUS
<1>1. /\ op' = op
      /\ reply'.file \in BOOLEAN /\ (reply'.file => bash' = "done")
      /\ fetched'.file \in BOOLEAN /\ (fetched'.file => fetch' = "done")
      /\ found'.file \in BOOLEAN /\ (found'.file => grep' = "done")
  BY FileSteps
<1>2. CASE op = "files" /\ (ReadStep \/ WriteStep \/ Unlink)
  <2>1. Result' = NoReply
    BY <1>1, <1>2 DEF Result
  <2>2. CASE ReadStep
    <3>1. UNCHANGED <<data, ino, wr, disturbed>>
      BY <2>2, ReadsLeaveFile
    <3> QED
      BY <1>1, <1>2, <2>1, <3>1, ReplyFile, StoredStays DEF FilesInv, Truncates, SavesLast, SavedIsWhole
  <2>3. CASE WriteStep \/ Unlink
    <3>1. Stored' /\ Truncates'
      BY <2>3, WriteOpenKeeps, WriteDataKeeps, FailOrUnlinkKeeps DEF WriteStep
    <3> QED
      BY <1>1, <1>2, <2>1, <3>1, ReplyFile DEF FilesInv, SavesLast, SavedIsWhole
  <2> QED
    BY <1>2, <2>2, <2>3
<1>3. CASE op # "files" /\ ReadStep /\ UNCHANGED <<reply, fetched, found>>
  <2>1. UNCHANGED <<data, ino, wr, disturbed>> /\ Result' = Result
    BY <1>1, <1>3, ReadsLeaveFile DEF Result
  <2> QED
    BY <1>1, <2>1, StoredStays DEF FilesInv, Truncates, SavesLast, SavedIsWhole
<1>4. CASE Kept(Result)
  <2>1. UNCHANGED <<data, ino, wr, disturbed>>
    BY <1>4 DEF Kept, filesVars
  <2> QED
    BY <1>1, <1>4, <2>1, StoredStays DEF Kept, FilesInv, Truncates, SavesLast, SavedIsWhole
<1>5. CASE op # "files" /\ SavedNow(Result)
  <2>1. /\ Stored' /\ wr' = wr /\ ino' # 0
        /\ Result'.file => data'[ino'] = Bytes("output", Result'.total)
    BY <1>5, SaveKeeps
  <2>2. \A w \in Writers : wr[w].pc = "idle"
    BY <1>5 DEF FilesInv, SavesLast
  <2> QED
    BY <1>1, <2>1, <2>2 DEF FilesInv, Truncates, SavesLast, SavedIsWhole
<1> QED
  BY <1>2, <1>3, <1>4, <1>5, FileSteps

LEMMA FilesInvariant == Spec => [](FilesInv /\ Outputs)
<1>1. Spec => []Outputs
  BY BashInvariant, GrepInvariant, PTL DEF Outputs
<1> QED
  BY <1>1, FilesInitInv, FilesNextInv, PTL DEF Spec

\* SavedIsWhole for outputs of any size: a reply names a file only if all of the
\* output is in it, whatever step of saving it fails.
THEOREM SavedFilesAreWhole == Spec => []SavedIsWhole
<1>1. FilesInv => SavedIsWhole
  BY DEF FilesInv
<1> QED
  BY <1>1, FilesInvariant, PTL

\* WriteIsExact for any writers: a write that succeeds and is not disturbed has
\* left its content and nothing else.
THEOREM WritesAreExact == Spec => WriteIsExact
<1> DEFINE Exact == \A w \in Writers :
             wr[w].pc # "ok" /\ wr'[w].pc = "ok" /\ w \notin disturbed'
               => data'[ino'] = Bytes(w, SizeOf[w])
<1>1. FilesInv /\ Outputs /\ [Next]_workspaceVars => [Exact]_filesVars
  <2> SUFFICES ASSUME FilesInv, Outputs, [Next]_workspaceVars, NEW w \in Writers,
                      wr[w].pc # "ok", wr'[w].pc = "ok", w \notin disturbed'
               PROVE  data'[ino'] = Bytes(w, SizeOf[w])
    OBVIOUS
  <2>1. wr' # wr
    OBVIOUS
  <2>2. wr \in [Writers -> [pc : {"idle", "write", "ok", "failed"}, fd : 0..Len(data)]]
    BY DEF FilesInv, Stored
  <2>3. WriteStep
    BY <2>1, FileSteps, ReadsLeaveFile DEF Kept, filesVars, SavedNow, WriteRaw, Unlink
  <2>4. WriteData(w, SizeOf[w])
    BY <2>2, <2>3 DEF WriteStep, WriteOpen, WriteFails, WriteData
  <2>5. wr[w].pc = "write" /\ w \notin disturbed
    BY <2>4 DEF WriteData, Disturb
  <2>6. ino # 0 /\ wr[w].fd = ino /\ data[ino] = <<>>
    BY <2>5 DEF FilesInv, Truncates
  <2>7. Over(w, SizeOf[w], <<>>) = Bytes(w, SizeOf[w])
    <3>1. SizeOf[w] \in Nat
      BY FilesAssumption
    <3>2. Bytes(w, SizeOf[w]) \in Seq({w} \X Nat)
      BY <3>1 DEF Bytes
    <3>3. SubSeq(<<>>, SizeOf[w] + 1, 0) = <<>>
      BY <3>1, SubSeqEmpty
    <3> QED
      BY <3>2, <3>3, ConcatEmptySeq DEF Over
  <2>8. data'[ino'] = Over(w, SizeOf[w], data[ino])
    <3>1. ino \in DOMAIN data
      BY <2>6, LenProperties DEF FilesInv, Stored
    <3> QED
      BY <2>4, <2>6, <3>1 DEF WriteData
  <2> QED
    BY <2>6, <2>7, <2>8
<1> QED
  BY <1>1, FilesInvariant, PTL DEF Spec, WriteIsExact
-----------------------------------------------------------------------------
(* What is read.                                                          *)

\* The states of a read operation when there are n files.
ReadRecords(n) == [pc : ReadingPc \cup {"idle", "done", "error", "panic"}, from : Nat,
                   offset : Int, limit : Int, size : Nat, fd : 0..n, got : Contents]

\* A file holds more than memory does, and a client asks for that much of it.
Unbounded(s) == s.size - Clamped(s.offset) > MaxAlloc /\ s.limit \notin 1..MaxAlloc

\* A file is open while it is read, and what is known of sizes and offsets.
Legal(s) ==
  /\ s.size < IntBound /\ s.limit < IntBound
  /\ s.pc = "read" => s.fd # 0
  /\ s.pc = "page" => s.offset \in 1..s.size \/ Overflows(s)
  /\ s.pc = "panic" => Unbounded(s) \/ Overflows(s)

\* A saved file is read once it is there.
Pages == \A r \in Readers :
  Legal(rd[r]) /\ (rd[r].pc # "idle" => op = "files" \/ Result.file)

\* What a client that nobody disturbs has got is the file from the offset it
\* began with up to the one it has come to.
Assembled(s) ==
  /\ s.pc \in {"open", "read"} => ino # 0 /\ s.size = Len(data[ino])
  /\ s.pc = "read" => s.fd = ino
  /\ s.pc \in ReadingPc =>
       \/ s.got = <<>> /\ s.from = Clamped(s.offset)
       \/ /\ ino # 0 /\ s.from < s.offset /\ s.offset <= Len(data[ino])
          /\ s.got = SubSeq(data[ino], s.from + 1, s.offset)

Steady == \A r \in Readers \ disturbed : Assembled(rd[r])

ReadInv == rd \in [Readers -> ReadRecords(Len(data))] /\ Pages /\ Steady

\* A sum of two int64 that are not negative is the sum, or it is negative.
LEMMA WrapIs ==
  ASSUME NEW x \in 0..(2 * IntBound - 1)
  PROVE  Wrap(x) = IF x < IntBound THEN x ELSE x - 2 * IntBound
<1>1. IntBound \in Nat \ {0}
  BY FilesAssumption
<1>2. CASE x < IntBound
  BY <1>1, <1>2 DEF Wrap
<1>3. CASE x >= IntBound
  <2>1. (x + IntBound) % (2 * IntBound) = x - IntBound
    BY <1>1, <1>3
  <2> QED
    BY <1>1, <1>3, <2>1 DEF Wrap
<1> QED
  BY <1>1, <1>2, <1>3

\* The room that is made ends within the size, unless the sum of offset and limit
\* has no int64; and there is too little only for a reason.
LEMMA ExtentIs ==
  ASSUME NEW offset \in Nat, NEW limit \in Int, limit < IntBound,
         NEW size \in Nat, size < IntBound, offset < size
  PROVE  LET e == Extent(offset, limit, size)
         IN /\ e \in Int /\ e > 0
            /\ e <= size - offset \/ offset + limit >= IntBound
            /\ e > MaxAlloc => \/ size - offset > MaxAlloc /\ limit \notin 1..MaxAlloc
                              \/ offset + limit >= IntBound
<1>1. IntBound \in Nat \ {0} /\ MaxAlloc \in Nat
  BY FilesAssumption
<1>2. CASE limit <= 0
  BY <1>1, <1>2 DEF Extent
<1>3. CASE limit > 0 /\ offset + limit < IntBound
  <2>1. Wrap(offset + limit) = offset + limit
    BY <1>1, <1>3, WrapIs
  <2> QED
    BY <1>1, <1>3, <2>1 DEF Extent
<1>4. CASE limit > 0 /\ offset + limit >= IntBound
  <2>1. Wrap(offset + limit) = offset + limit - 2 * IntBound
    BY <1>1, <1>4, WrapIs
  <2>2. Extent(offset, limit, size) = limit
    BY <1>1, <1>4, <2>1 DEF Extent
  <2> QED
    BY <1>1, <1>4, <2>2
<1> QED
  BY <1>1, <1>2, <1>3, <1>4

\* A piece of a sequence and the piece after it are one.
LEMMA PiecesJoin ==
  ASSUME NEW S, NEW c \in Seq(S), NEW a \in Nat, NEW b \in a..Len(c), NEW d \in b..Len(c)
  PROVE  SubSeq(c, a + 1, b) \o SubSeq(c, b + 1, d) = SubSeq(c, a + 1, d)
<1>1. Len(c) \in Nat
  BY LenProperties
<1>2. PICK m \in 1..(Len(c) + 1) : m = a + 1
  BY <1>1
<1>3. b \in (m - 1)..Len(c)
  BY <1>1, <1>2
<1>4. SubSeq(c, m, b) \o SubSeq(c, b + 1, d) = SubSeq(c, m, d)
  BY <1>3, ConcatAdjacentSubSeq
<1> QED
  BY <1>2, <1>4

\* No client reads yet.
LEMMA ReadInitInv == Init => ReadInv
<1> SUFFICES ASSUME Init PROVE ReadInv
  OBVIOUS
<1>1. ReadIdle \in ReadRecords(Len(data))
  <2>1. Len(data) = 0 /\ <<>> \in Contents
    BY DEF Init, FilesInit, Contents
  <2> QED
    BY <2>1 DEF ReadIdle, ReadRecords
<1>2. ReadIdle.pc = "idle" /\ ReadIdle.size = 0 /\ ReadIdle.limit = 0 /\ "idle" \notin ReadingPc
  BY DEF ReadIdle, ReadingPc
<1>3. rd = [r \in Readers |-> ReadIdle]
  BY DEF Init, FilesInit
<1>4. Pages
  BY <1>2, <1>3, FilesAssumption DEF Pages, Legal
<1>5. Steady
  BY <1>2, <1>3 DEF Steady, Assembled, ReadingPc
<1> QED
  BY <1>1, <1>3, <1>4, <1>5 DEF ReadInv

\* What ReadAt finds in the file.
LEMMA ReadAtIs ==
  ASSUME Stored, ReadInv, NEW r \in Readers, ReadAt(r)
  PROVE  LET s == rd[r]
             t == rd'[r]
             offset == Clamped(s.offset)
         IN /\ s.pc = "read" /\ s.fd \in DOMAIN data /\ t = [s EXCEPT !.pc = t.pc, !.offset = t.offset, !.got = t.got]
            /\ t.pc \in {"done", "panic", "error"} => t.offset = s.offset /\ t.got = s.got
            /\ \/ t.pc = "done" /\ offset >= s.size
               \/ t.pc = "panic" /\ (Unbounded(s) \/ Overflows(s))
               \/ t.pc = "error"
               \/ /\ t.pc = "page" /\ (t.offset \in 1..s.size \/ t.offset + s.limit >= IntBound)
                  /\ t.offset \in Nat /\ t.offset <= Len(data[s.fd])
                  /\ offset < t.offset
                  /\ t.got = s.got \o SubSeq(data[s.fd], offset + 1, t.offset)
<1> DEFINE s == rd[r]
           offset == Clamped(s.offset)
           e == Extent(offset, s.limit, s.size)
           n == Lesser(e, Len(data[s.fd]) - offset)
<1>1. /\ s \in ReadRecords(Len(data)) /\ s.pc = "read" /\ s.fd # 0 /\ s.size < IntBound /\ s.limit < IntBound
      /\ Len(data) \in Nat /\ DOMAIN data = 1..Len(data)
  BY LenProperties DEF ReadInv, Pages, Legal, Stored, ReadAt
<1>2. s.fd \in DOMAIN data /\ data[s.fd] \in Contents /\ Len(data[s.fd]) \in Nat
  <2>1. s.fd \in 0..Len(data)
    BY <1>1 DEF ReadRecords
  <2>2. s.fd \in DOMAIN data
    BY <1>1, <2>1
  <2>3. data[s.fd] \in Contents
    BY <2>2 DEF Stored
  <2> QED
    BY <2>2, <2>3, LenProperties DEF Contents
<1>3. /\ s.offset \in Int /\ s.limit \in Int /\ s.size \in Nat /\ offset \in Nat
      /\ (s.offset >= 0 => offset = s.offset) /\ (s.offset < 0 => offset = 0)
  BY <1>1 DEF ReadRecords, Clamped
<1>4. rd' = [rd EXCEPT ![r] =
          IF PastEnd(offset, s.size) THEN [s EXCEPT !.pc = "done"]
          ELSE IF e > MaxAlloc THEN [s EXCEPT !.pc = "panic"]
          ELSE IF n <= 0 THEN [s EXCEPT !.pc = "error"]
          ELSE [s EXCEPT !.pc = "page", !.offset = offset + n,
                         !.got = @ \o SubSeq(data[s.fd], offset + 1, offset + n)]]
  BY DEF ReadAt, ReadGoto, Clamped
<1> DEFINE t == rd'[r]
<1>5. t = IF PastEnd(offset, s.size) THEN [s EXCEPT !.pc = "done"]
          ELSE IF e > MaxAlloc THEN [s EXCEPT !.pc = "panic"]
          ELSE IF n <= 0 THEN [s EXCEPT !.pc = "error"]
          ELSE [s EXCEPT !.pc = "page", !.offset = offset + n,
                         !.got = @ \o SubSeq(data[s.fd], offset + 1, offset + n)]
  BY <1>4 DEF ReadInv
<1>6. ~PastEnd(offset, s.size) =>
         /\ e \in Int /\ e > 0
         /\ (e <= s.size - offset \/ offset + s.limit >= IntBound)
         /\ (e > MaxAlloc => \/ s.size - offset > MaxAlloc /\ s.limit \notin 1..MaxAlloc
                            \/ offset + s.limit >= IntBound)
  BY <1>1, <1>3, ExtentIs DEF PastEnd
<1>7. ~PastEnd(offset, s.size) /\ e > MaxAlloc => Unbounded(s) \/ Overflows(s)
  <2>1. s.offset < 0 => ~(offset + s.limit >= IntBound)
    BY <1>1, <1>3, FilesAssumption
  <2> QED
    BY <1>3, <1>6, <2>1 DEF Unbounded, Overflows
<1> HIDE DEF s, offset, e, n, t
<1>8. ASSUME ~PastEnd(offset, s.size), ~(e > MaxAlloc), ~(n <= 0)
      PROVE  /\ offset + n \in 1..s.size \/ offset + n + s.limit >= IntBound
             /\ offset + n \in Nat /\ offset + n <= Len(data[s.fd]) /\ offset < offset + n
  <2>1. e \in Int /\ (e <= s.size - offset \/ offset + s.limit >= IntBound)
    BY <1>6, <1>8
  <2>2. n \in Int /\ n <= e /\ n <= Len(data[s.fd]) - offset /\ n > 0
    BY <1>2, <1>3, <1>8, <2>1 DEF n, Lesser
  <2>3. offset + n \in Nat /\ offset + n <= Len(data[s.fd]) /\ offset < offset + n
    BY <1>2, <1>3, <2>2
  <2>4. CASE e <= s.size - offset
    BY <1>3, <2>1, <2>2, <2>4
  <2>5. CASE offset + s.limit >= IntBound
    <3>1. IntBound \in Int
      BY FilesAssumption
    <3> QED
      BY <1>3, <2>2, <2>5, <3>1
  <2> QED
    BY <2>1, <2>3, <2>4, <2>5
<1>9. s \in [pc : ReadingPc \cup {"idle", "done", "error", "panic"}, from : Nat,
             offset : Int, limit : Int, size : Nat, fd : 0..Len(data), got : Contents]
  BY <1>1 DEF ReadRecords
<1>10. CASE PastEnd(offset, s.size)
  BY <1>1, <1>2, <1>3, <1>5, <1>9, <1>10 DEF PastEnd, s, t, offset
<1>11. CASE ~PastEnd(offset, s.size) /\ e > MaxAlloc
  BY <1>1, <1>2, <1>5, <1>7, <1>9, <1>11 DEF s, t, offset
<1>12. CASE ~PastEnd(offset, s.size) /\ ~(e > MaxAlloc) /\ n <= 0
  BY <1>1, <1>2, <1>5, <1>9, <1>12 DEF s, t, offset
<1>13. CASE ~PastEnd(offset, s.size) /\ ~(e > MaxAlloc) /\ ~(n <= 0)
  <2>1. t = [s EXCEPT !.pc = "page", !.offset = offset + n,
                      !.got = @ \o SubSeq(data[s.fd], offset + 1, offset + n)]
    BY <1>5, <1>13
  <2>2. /\ t.pc = "page" /\ t.offset = offset + n
        /\ t.got = s.got \o SubSeq(data[s.fd], offset + 1, offset + n)
        /\ t = [s EXCEPT !.pc = t.pc, !.offset = t.offset, !.got = t.got]
    BY <1>9, <2>1
  <2> QED
    BY <1>1, <1>2, <1>8, <1>13, <2>2 DEF s, t, offset
<1> QED
  BY <1>10, <1>11, <1>12, <1>13

\* A step of client r leaves the others alone.
LEMMA OneReads ==
  ASSUME ReadInv, UNCHANGED <<op, data, ino, disturbed>>, Result' = Result, op = "files" \/ Result.file,
         NEW r \in Readers, NEW t \in ReadRecords(Len(data)), rd' = [rd EXCEPT ![r] = t],
         Legal(t), r \notin disturbed => Assembled(t)
  PROVE  ReadInv'
<1>1. /\ rd \in [Readers -> ReadRecords(Len(data))]
      /\ rd' \in [Readers -> ReadRecords(Len(data))]
      /\ rd'[r] = t /\ \A q \in Readers : q # r => rd'[q] = rd[q]
  BY DEF ReadInv
<1>2. Pages'
  <2> SUFFICES ASSUME NEW q \in Readers
               PROVE  Legal(rd'[q]) /\ (op' = "files" \/ Result'.file)
    BY DEF Pages, Legal
  <2> QED
    BY <1>1 DEF ReadInv, Pages
<1>3. Steady'
  <2> SUFFICES ASSUME NEW q \in Readers \ disturbed PROVE Assembled(rd'[q])
    BY DEF Steady, Assembled
  <2> QED
    BY <1>1 DEF ReadInv, Steady
<1> QED
  BY <1>1, <1>2, <1>3 DEF ReadInv

\* The steps of the read operation.
LEMMA ReadStepKeeps ==
  ASSUME FilesInv, ReadInv, op' = op, Result' = Result, op = "files" \/ Result.file, ReadStep
  PROVE  ReadInv'
<1>1. UNCHANGED <<data, ino, disturbed>> /\ Stored
  BY ReadsLeaveFile DEF FilesInv
<1>2. Len(data) \in Nat /\ DOMAIN data = 1..Len(data) /\ ino \in 0..Len(data)
  BY <1>1, LenProperties DEF Stored
<1>3. ino # 0 => /\ ino \in DOMAIN data /\ data[ino] \in Contents /\ Len(data[ino]) \in Nat
                 /\ Len(data[ino]) < IntBound
  <2> SUFFICES ASSUME ino # 0
               PROVE  /\ ino \in DOMAIN data /\ data[ino] \in Contents /\ Len(data[ino]) \in Nat
                      /\ Len(data[ino]) < IntBound
    OBVIOUS
  <2>1. ino \in DOMAIN data
    BY <1>2
  <2>2. data[ino] \in Contents
    BY <1>1, <2>1 DEF Stored
  <2> QED
    BY <1>1, <2>1, <2>2, LenProperties DEF Stored, Contents
<1>4. ASSUME NEW r \in Readers, NEW q \in Requests, ReadBegin(r, q) PROVE ReadInv'
  <2>1. q.offset \in Int /\ q.limit \in Int /\ q.limit < IntBound
    BY FilesAssumption
  <2> DEFINE t == [ReadIdle EXCEPT !.pc = "stat", !.offset = q.offset, !.limit = q.limit,
                                   !.from = Clamped(q.offset)]
  <2>2. /\ t.pc = "stat" /\ t.offset = q.offset /\ t.limit = q.limit /\ t.from = Clamped(q.offset)
        /\ t.size = 0 /\ t.fd = 0 /\ t.got = <<>> /\ t \in ReadRecords(Len(data))
    <3>1. <<>> \in Contents /\ Clamped(q.offset) \in Nat /\ 0 \in 0..Len(data)
      BY <1>2, <2>1 DEF Contents, Clamped
    <3>2. t = [pc |-> "stat", from |-> Clamped(q.offset), offset |-> q.offset, limit |-> q.limit,
               size |-> 0, fd |-> 0, got |-> <<>>]
      <4>1. t = [[ReadIdle EXCEPT !.pc = "stat", !.offset = q.offset, !.limit = q.limit]
                   EXCEPT !.from = Clamped(q.offset)]
        BY Zenon
      <4> HIDE DEF t
      <4> QED
        BY <4>1 DEF ReadIdle
    <3> HIDE DEF t
    <3> QED
      BY <2>1, <3>1, <3>2 DEF ReadRecords, ReadingPc
  <2>3. rd' = [rd EXCEPT ![r] = t]
    BY <1>4 DEF ReadBegin, ReadGoto
  <2> HIDE DEF t
  <2>4. Legal(t) /\ Assembled(t)
    BY <2>1, <2>2, FilesAssumption DEF Legal, Assembled
  <2> QED
    BY <1>1, <2>2, <2>3, <2>4, OneReads
<1>5. ASSUME NEW r \in Readers, NEW t, rd' = [rd EXCEPT ![r] = t], t = [rd[r] EXCEPT !.pc = "error"]
      PROVE  ReadInv'
  <2>1. rd[r] \in ReadRecords(Len(data)) /\ Legal(rd[r])
    BY DEF ReadInv, Pages
  <2>2. /\ t.pc = "error" /\ t.size = rd[r].size /\ t.limit = rd[r].limit
        /\ t \in ReadRecords(Len(data))
    BY <1>5, <2>1 DEF ReadRecords
  <2>3. Legal(t) /\ Assembled(t)
    BY <2>1, <2>2 DEF Legal, Assembled, ReadingPc
  <2> QED
    BY <1>1, <1>5, <2>2, <2>3, OneReads
<1>6. ASSUME NEW r \in Readers, Stat(r) PROVE ReadInv'
  <2>1. CASE ino = 0
    BY <1>5, <1>6, <2>1 DEF Stat, ReadGoto
  <2>2. CASE ino # 0
    <3> DEFINE t == [rd[r] EXCEPT !.pc = "open", !.size = Len(data[ino])]
    <3>1. rd[r] \in ReadRecords(Len(data)) /\ Legal(rd[r]) /\ (r \notin disturbed => Assembled(rd[r]))
          /\ rd[r].pc = "stat" /\ rd' = [rd EXCEPT ![r] = t]
      BY <1>6, <2>2 DEF ReadInv, Pages, Steady, Stat, ReadGoto
    <3>2. /\ t.pc = "open" /\ t.size = Len(data[ino]) /\ t.limit = rd[r].limit /\ t.got = rd[r].got
          /\ t.from = rd[r].from /\ t.offset = rd[r].offset /\ t \in ReadRecords(Len(data))
      BY <1>3, <2>2, <3>1 DEF ReadRecords, ReadingPc
    <3> HIDE DEF t
    <3>3. Legal(t) /\ (r \notin disturbed => Assembled(t))
      BY <1>3, <2>2, <3>1, <3>2 DEF Legal, Assembled, ReadingPc
    <3> QED
      BY <1>1, <3>1, <3>2, <3>3, OneReads
  <2> QED
    BY <2>1, <2>2
<1>7. ASSUME NEW r \in Readers, OpenRead(r) PROVE ReadInv'
  <2>1. CASE ino = 0
    BY <1>5, <1>7, <2>1 DEF OpenRead, ReadGoto
  <2>2. CASE ino # 0
    <3> DEFINE t == [rd[r] EXCEPT !.pc = "read", !.fd = ino]
    <3>1. rd[r] \in ReadRecords(Len(data)) /\ Legal(rd[r]) /\ (r \notin disturbed => Assembled(rd[r]))
          /\ rd[r].pc = "open" /\ rd' = [rd EXCEPT ![r] = t]
      BY <1>7, <2>2 DEF ReadInv, Pages, Steady, OpenRead, ReadGoto
    <3>2. /\ t.pc = "read" /\ t.fd = ino /\ t.size = rd[r].size /\ t.limit = rd[r].limit /\ t.got = rd[r].got
          /\ t.from = rd[r].from /\ t.offset = rd[r].offset /\ t \in ReadRecords(Len(data))
      BY <1>2, <2>2, <3>1 DEF ReadRecords, ReadingPc
    <3> HIDE DEF t
    <3>3. Legal(t) /\ (r \notin disturbed => Assembled(t))
      BY <2>2, <3>1, <3>2 DEF Legal, Assembled, ReadingPc
    <3> QED
      BY <1>1, <3>1, <3>2, <3>3, OneReads
  <2> QED
    BY <2>1, <2>2
<1>8. ASSUME NEW r \in Readers, NextPage(r) PROVE ReadInv'
  <2> DEFINE t == [rd[r] EXCEPT !.pc = "stat", !.fd = 0]
  <2>1. rd[r] \in ReadRecords(Len(data)) /\ Legal(rd[r]) /\ (r \notin disturbed => Assembled(rd[r]))
        /\ rd[r].pc = "page" /\ rd' = [rd EXCEPT ![r] = t]
    BY <1>8 DEF ReadInv, Pages, Steady, NextPage, ReadGoto
  <2>2. /\ t.pc = "stat" /\ t.size = rd[r].size /\ t.limit = rd[r].limit /\ t.got = rd[r].got
        /\ t.from = rd[r].from /\ t.offset = rd[r].offset /\ t \in ReadRecords(Len(data))
    <3>1. 0 \in 0..Len(data) /\ "stat" \in ReadingPc
      BY <1>2 DEF ReadingPc
    <3> QED
      BY <2>1, <3>1 DEF ReadRecords
  <2> HIDE DEF t
  <2>3. Legal(t) /\ (r \notin disturbed => Assembled(t))
    BY <2>1, <2>2 DEF Legal, Assembled, ReadingPc
  <2> QED
    BY <1>1, <2>1, <2>2, <2>3, OneReads
<1>9. ASSUME NEW r \in Readers, ReadFails(r) PROVE ReadInv'
  BY <1>5, <1>9 DEF ReadFails, ReadGoto
<1>10. ASSUME NEW r \in Readers, ReadAt(r) PROVE ReadInv'
  <2> DEFINE s == rd[r]
             t == rd'[r]
  <2>1. s \in ReadRecords(Len(data)) /\ Legal(s) /\ (r \notin disturbed => Assembled(s))
    BY DEF ReadInv, Pages, Steady
  <2>2. rd' = [rd EXCEPT ![r] = t]
    BY <1>10 DEF ReadAt, ReadGoto, ReadInv
  <2>3. /\ s.pc = "read" /\ s.fd \in DOMAIN data
        /\ t = [s EXCEPT !.pc = t.pc, !.offset = t.offset, !.got = t.got]
        /\ t.pc \in {"done", "panic", "error"} => t.offset = s.offset /\ t.got = s.got
        /\ \/ t.pc = "done" /\ Clamped(s.offset) >= s.size
           \/ t.pc = "panic" /\ (Unbounded(s) \/ Overflows(s))
           \/ t.pc = "error"
           \/ /\ t.pc = "page" /\ (t.offset \in 1..s.size \/ t.offset + s.limit >= IntBound)
              /\ t.offset \in Nat /\ t.offset <= Len(data[s.fd])
              /\ Clamped(s.offset) < t.offset
              /\ t.got = s.got \o SubSeq(data[s.fd], Clamped(s.offset) + 1, t.offset)
    BY <1>1, <1>10, ReadAtIs
  <2> HIDE DEF s, t
  <2>4. t.size = s.size /\ t.limit = s.limit /\ t.from = s.from /\ t.fd = s.fd
    BY <2>1, <2>3 DEF ReadRecords
  <2>5. s.offset \in Int /\ s.from \in Nat /\ s.size \in Nat /\ s.got \in Contents /\ s.fd \in 0..Len(data)
        /\ s.limit \in Int
    BY <2>1 DEF ReadRecords
  <2>6. CASE t.pc \in {"done", "panic", "error"}
    <3>1. t \in ReadRecords(Len(data))
      BY <2>1, <2>3, <2>5, <2>6 DEF ReadRecords
    <3>2. Legal(t) /\ Assembled(t)
      BY <2>1, <2>3, <2>4, <2>6 DEF Legal, Assembled, ReadingPc, Unbounded, Overflows
    <3> QED
      BY <1>1, <2>2, <3>1, <3>2, OneReads
  <2>7. CASE t.pc = "page"
    <3> DEFINE B == (Writers \cup {"output"}) \X Nat
               c == data[s.fd]
               from == Clamped(s.offset)
               piece == SubSeq(c, from + 1, t.offset)
    <3>1. c \in Seq(B) /\ Len(c) \in Nat /\ s.got \in Seq(B)
      BY <1>1, <2>3, <2>5, LenProperties DEF Stored, Contents
    <3>2. /\ t.offset \in Nat /\ t.offset <= Len(c)
          /\ from \in Nat /\ from < t.offset /\ t.got = s.got \o piece
      <4>1. /\ t.offset \in Nat /\ t.offset <= Len(data[s.fd])
            /\ Clamped(s.offset) < t.offset
            /\ t.got = s.got \o SubSeq(data[s.fd], Clamped(s.offset) + 1, t.offset)
        BY <2>3, <2>7
      <4>2. Clamped(s.offset) \in Nat
        BY <2>5 DEF Clamped
      <4> QED
        BY <2>5, <4>1, <4>2
    <3>3. piece \in Seq(B)
      <4>1. \A i \in (from + 1)..t.offset : c[i] \in B
        BY <3>1, <3>2, ElementOfSeq
      <4> HIDE DEF B, c, from
      <4> QED
        BY <3>2, <4>1, SubSeqProperties
    <3>4. t.got \in Contents
      <4> HIDE DEF B, c, from, piece
      <4>1. t.got \in Seq(B)
        BY <3>1, <3>2, <3>3
      <4> QED
        BY <4>1 DEF Contents, B
    <3>5. t \in ReadRecords(Len(data))
      <4>1. t = [s EXCEPT !.pc = t.pc, !.offset = t.offset, !.got = t.got]
        BY <2>3
      <4>2. t.pc \in ReadingPc /\ t.offset \in Int /\ t.got \in Contents
        BY <2>7, <3>2, <3>4 DEF ReadingPc
      <4> HIDE DEF B, c, from, piece
      <4> QED
        BY <2>1, <4>1, <4>2 DEF ReadRecords
    <3>6. Legal(t)
      BY <2>1, <2>3, <2>4, <2>7 DEF Legal, Overflows
    <3>7. ASSUME r \notin disturbed PROVE Assembled(t)
      <4>1. /\ ino # 0 /\ s.fd = ino /\ c = data[ino]
            /\ \/ s.got = <<>> /\ s.from = from
               \/ /\ s.from < s.offset /\ s.offset <= Len(c)
                  /\ s.got = SubSeq(c, s.from + 1, s.offset)
        BY <2>1, <2>3, <3>7 DEF Assembled, ReadingPc
      <4>2. s.from < s.offset => from = s.offset
        BY <2>5 DEF Clamped
      <4> HIDE DEF c, from, B, piece
      <4>3. s.from < t.offset /\ t.got = SubSeq(c, s.from + 1, t.offset)
        <5>1. CASE s.got = <<>> /\ s.from = from
          BY <3>2, <3>3, <5>1, ConcatEmptySeq DEF piece
        <5>2. CASE s.from < s.offset /\ s.got = SubSeq(c, s.from + 1, s.offset)
          <6>1. s.from + 1 \in 1..(Len(c) + 1) /\ s.offset \in s.from..Len(c) /\ t.offset \in s.offset..Len(c)
            <7>1. s.from \in Nat /\ s.offset \in Int /\ s.from < s.offset /\ s.offset < t.offset
              BY <2>5, <3>2, <4>2, <5>2
            <7>2. t.offset \in Int /\ t.offset <= Len(c) /\ Len(c) \in Nat
              BY <3>1, <3>2
            <7> QED
              BY <7>1, <7>2
          <6>2. SubSeq(c, s.from + 1, s.offset) \o SubSeq(c, s.offset + 1, t.offset)
                  = SubSeq(c, s.from + 1, t.offset)
            BY <2>5, <3>1, <3>2, <6>1, PiecesJoin
          <6> QED
            <7>1. t.got = SubSeq(c, s.from + 1, s.offset) \o SubSeq(c, s.offset + 1, t.offset)
              BY <3>2, <4>2, <5>2 DEF piece
            <7>2. t.got = SubSeq(c, s.from + 1, t.offset)
              BY <6>2, <7>1, Zenon
            <7>3. s.from < t.offset
              BY <2>5, <3>2, <4>2, <5>2
            <7> QED
              BY <7>2, <7>3
        <5> QED
          BY <4>1, <5>1, <5>2
      <4> QED
        BY <2>4, <2>7, <3>2, <4>1, <4>3 DEF Assembled, ReadingPc
    <3> QED
      BY <1>1, <2>2, <3>5, <3>6, <3>7, OneReads
  <2> QED
    BY <2>3, <2>6, <2>7
<1> QED
  BY <1>4, <1>6, <1>7, <1>8, <1>9, <1>10 DEF ReadStep

\* Whatever else happens to the file, the readers are at what they were, and
\* those that are reading know nothing of it any more.
LEMMA ReadersStay ==
  ASSUME Stored, Stored', ReadInv, rd' = rd, op' = op, Len(data') >= Len(data),
         op = "files" \/ (Result.file => Result'.file) \/ \A r \in Readers : rd[r].pc = "idle",
         UNCHANGED <<data, ino, disturbed>> \/ Reading \subseteq disturbed'
  PROVE  ReadInv'
<1>1. rd' \in [Readers -> ReadRecords(Len(data'))]
  <2>1. Len(data) \in Nat /\ Len(data') \in Nat
    BY LenProperties DEF Stored
  <2>2. \A x \in 0..Len(data) : x \in 0..Len(data')
    BY <2>1
  <2>3. \A s \in ReadRecords(Len(data)) : s \in ReadRecords(Len(data'))
    BY <2>2 DEF ReadRecords
  <2> QED
    BY <2>3 DEF ReadInv
<1>2. Pages'
  BY DEF ReadInv, Pages, Legal
<1>3. Steady'
  <2>1. CASE UNCHANGED <<data, ino, disturbed>>
    BY <2>1 DEF ReadInv, Steady, Assembled
  <2>2. CASE Reading \subseteq disturbed'
    BY <2>2 DEF Steady, Assembled, Reading, ReadingPc
  <2> QED
    BY <2>1, <2>2
<1> QED
  BY <1>1, <1>2, <1>3 DEF ReadInv

LEMMA ReadNextInv == FilesInv /\ Outputs /\ ReadInv /\ [Next]_workspaceVars => ReadInv'
<1> SUFFICES ASSUME FilesInv, Outputs, ReadInv, [Next]_workspaceVars PROVE ReadInv'
  OBVIOUS
<1>1. op' = op /\ FilesInv' /\ Stored /\ Stored'
  BY FileSteps, FilesNextInv DEF FilesInv
<1>2. Len(data) \in Nat
  BY <1>1, LenProperties DEF Stored
<1>3. CASE op = "files" /\ ReadStep
  BY <1>1, <1>3, ReadStepKeeps DEF Result
<1>4. CASE op = "files" /\ (WriteStep \/ Unlink)
  <2>1. ASSUME NEW w \in Writers, WriteOpen(w) PROVE ReadInv'
    <3>1. rd' = rd /\ Reading \subseteq disturbed'
      BY <2>1 DEF WriteOpen, Disturb
    <3> QED
      BY <1>1, <1>4, <2>1, <3>1, WriteOpenKeeps, ReadersStay
  <2>2. ASSUME NEW w \in Writers, NEW n \in 0..SizeOf[w], WriteData(w, n) PROVE ReadInv'
    <3>1. rd' = rd /\ Reading \subseteq disturbed'
      BY <2>2 DEF WriteData, Disturb
    <3>2. Len(data') >= Len(data)
      BY <1>2, <2>2, WriteDataKeeps
    <3> QED
      BY <1>1, <1>4, <3>1, <3>2, ReadersStay
  <2>3. ASSUME NEW w \in Writers, WriteFails(w) PROVE ReadInv'
    <3>1. UNCHANGED <<rd, data, ino, disturbed>>
      BY <2>3 DEF WriteFails
    <3> QED
      BY <1>1, <1>2, <1>4, <3>1, ReadersStay
  <2>4. CASE Unlink
    <3>1. rd' = rd /\ data' = data /\ Reading \subseteq disturbed'
      BY <2>4 DEF Unlink
    <3> QED
      BY <1>1, <1>2, <1>4, <3>1, ReadersStay
  <2> QED
    BY <1>4, <2>1, <2>2, <2>3, <2>4 DEF WriteStep
<1>5. CASE op # "files" /\ Result.file /\ ReadStep /\ UNCHANGED <<reply, fetched, found>>
  <2>1. Result' = Result
    BY <1>1, <1>5 DEF Result
  <2> QED
    BY <1>1, <1>5, <2>1, ReadStepKeeps
<1>6. CASE Kept(Result)
  <2>1. UNCHANGED <<rd, data, ino, disturbed>> /\ (Result.file => Result'.file)
    BY <1>6 DEF Kept, filesVars
  <2> QED
    BY <1>1, <1>2, <2>1, ReadersStay
<1>7. CASE op # "files" /\ SavedNow(Result)
  <2>1. rd' = rd /\ ~Result.file
    BY <1>7 DEF SavedNow, WriteRaw
  <2>2. \A r \in Readers : rd[r].pc = "idle"
    BY <1>7, <2>1 DEF ReadInv, Pages
  <2>3. Reading = {}
    BY <2>2 DEF Reading, ReadingPc
  <2> QED
    BY <1>1, <1>7, <2>1, <2>2, <2>3, SaveKeeps, ReadersStay
<1> QED
  BY <1>3, <1>4, <1>5, <1>6, <1>7, FileSteps

LEMMA ReadInvariant == Spec => [](FilesInv /\ Outputs /\ ReadInv)
<1>1. Spec => [](FilesInv /\ Outputs)
  BY FilesInvariant
<1> QED
  BY <1>1, ReadInitInv, ReadNextInv, PTL DEF Spec

\* ReadIsInBounds for any file, however it changes, and any offset and limit of
\* 64 bits: a page ends within the size, and only a sum that overflows panics.
THEOREM ReadsAreInBounds == Spec => []ReadIsInBounds
<1>1. ReadInv => ReadIsInBounds
  BY DEF ReadInv, Pages, Legal, ReadIsInBounds, Unbounded
<1> QED
  BY <1>1, ReadInvariant, PTL

\* Only ReadAt ends a client's reading.
LEMMA ReadEndsWith ==
  ASSUME FilesInv, Outputs, ReadInv, [Next]_workspaceVars,
         NEW r \in Readers, rd[r].pc # "done", rd'[r].pc = "done"
  PROVE  ReadAt(r)
<1>1. ReadStep
  BY FileSteps DEF WriteStep, WriteOpen, WriteData, WriteFails, Unlink, Kept, filesVars, SavedNow, WriteRaw
<1>2. PICK q \in Readers :
        \/ \E a \in Requests : ReadBegin(q, a)
        \/ Stat(q) \/ OpenRead(q) \/ ReadAt(q) \/ NextPage(q) \/ ReadFails(q)
  BY <1>1 DEF ReadStep
<1>3. rd \in [Readers -> ReadRecords(Len(data))]
  BY DEF ReadInv
<1>4. ASSUME NEW t, rd' = [rd EXCEPT ![q] = t], t.pc # "done" PROVE FALSE
  BY <1>3, <1>4
<1>5. rd[r] \in ReadRecords(Len(data)) /\ rd[q] \in ReadRecords(Len(data))
  BY <1>3
<1>6. CASE \E a \in Requests : ReadBegin(q, a)
  BY <1>4, <1>6 DEF ReadBegin, ReadGoto, ReadIdle
<1>7. CASE Stat(q) \/ OpenRead(q) \/ NextPage(q) \/ ReadFails(q)
  <2>1. rd[q] \in [pc : ReadingPc \cup {"idle", "done", "error", "panic"}, from : Nat,
                   offset : Int, limit : Int, size : Nat, fd : 0..Len(data), got : Contents]
    BY <1>5 DEF ReadRecords
  <2>2. CASE Stat(q)
    <3>1. PICK t : /\ rd' = [rd EXCEPT ![q] = t]
                   /\ \/ t = [rd[q] EXCEPT !.pc = "error"]
                      \/ t = [rd[q] EXCEPT !.pc = "open", !.size = Len(data[ino])]
      BY <2>2 DEF Stat, ReadGoto
    <3>2. t.pc \in {"error", "open", "read"}
      BY <2>1, <3>1
    <3> QED
      BY <1>4, <3>1, <3>2
  <2>3. CASE OpenRead(q)
    <3>1. PICK t : /\ rd' = [rd EXCEPT ![q] = t]
                   /\ \/ t = [rd[q] EXCEPT !.pc = "error"]
                      \/ t = [rd[q] EXCEPT !.pc = "read", !.fd = ino]
      BY <2>3 DEF OpenRead, ReadGoto
    <3>2. t.pc \in {"error", "open", "read"}
      BY <2>1, <3>1
    <3> QED
      BY <1>4, <3>1, <3>2
  <2>4. CASE NextPage(q)
    BY <1>4, <2>1, <2>4 DEF NextPage, ReadGoto
  <2>5. CASE ReadFails(q)
    BY <1>4, <2>1, <2>5 DEF ReadFails, ReadGoto
  <2> QED
    BY <1>7, <2>2, <2>3, <2>4, <2>5
<1>8. CASE ReadAt(q)
  <2>1. q = r
    BY <1>3, <1>8 DEF ReadAt, ReadGoto
  <2> QED
    BY <1>8, <2>1
<1> QED
  BY <1>2, <1>6, <1>7, <1>8

\* PagesReassemble for any file, offset and limit: the pages a client got up to
\* the size are the file, if nobody changed it meanwhile.
THEOREM PagesAreAssembled == Spec => PagesReassemble
<1> DEFINE Whole == \A r \in Readers :
             rd[r].pc # "done" /\ rd'[r].pc = "done" /\ r \notin disturbed
               => rd'[r].got = SubSeq(data[ino], rd[r].from + 1, Len(data[ino]))
<1>1. FilesInv /\ Outputs /\ ReadInv /\ [Next]_workspaceVars => [Whole]_filesVars
  <2> SUFFICES ASSUME FilesInv, Outputs, ReadInv, [Next]_workspaceVars, NEW r \in Readers,
                      rd[r].pc # "done", rd'[r].pc = "done", r \notin disturbed
               PROVE  rd'[r].got = SubSeq(data[ino], rd[r].from + 1, Len(data[ino]))
    OBVIOUS
  <2> DEFINE s == rd[r]
  <2>1. /\ s.pc = "read" /\ rd'[r].got = s.got /\ Clamped(s.offset) >= s.size /\ s.fd \in DOMAIN data
    <3>1. Stored /\ ReadAt(r)
      BY ReadEndsWith DEF FilesInv
    <3> QED
      BY <3>1, ReadAtIs
  <2>2. s \in ReadRecords(Len(data)) /\ Assembled(s)
    BY DEF ReadInv, Steady
  <2>3. s.offset \in Int /\ s.from \in Nat
    BY <2>2 DEF ReadRecords
  <2> HIDE DEF s
  <2>4. /\ s.fd = ino /\ s.size = Len(data[ino])
        /\ \/ s.got = <<>> /\ s.from = Clamped(s.offset)
           \/ /\ s.from < s.offset /\ s.offset <= Len(data[ino])
              /\ s.got = SubSeq(data[ino], s.from + 1, s.offset)
    BY <2>1, <2>2 DEF Assembled, ReadingPc
  <2>5. Len(data[ino]) \in Nat
    <3>1. data[ino] \in Contents
      BY <2>1, <2>4 DEF FilesInv, Stored
    <3> QED
      BY <3>1, LenProperties DEF Contents
  <2>6. CASE s.got = <<>> /\ s.from = Clamped(s.offset)
    <3>1. Len(data[ino]) < s.from + 1
      BY <2>1, <2>3, <2>4, <2>5, <2>6
    <3>2. SubSeq(data[ino], s.from + 1, Len(data[ino])) = <<>>
      BY <2>3, <2>5, <3>1, SubSeqEmpty
    <3> QED
      BY <2>1, <2>6, <3>2 DEF s
  <2>7. CASE /\ s.from < s.offset /\ s.offset <= Len(data[ino])
             /\ s.got = SubSeq(data[ino], s.from + 1, s.offset)
    <3>1. s.offset = Len(data[ino])
      BY <2>1, <2>3, <2>4, <2>5, <2>7 DEF Clamped
    <3> QED
      BY <2>1, <2>7, <3>1 DEF s
  <2> QED
    BY <2>4, <2>6, <2>7
<1> QED
  BY <1>1, ReadInvariant, PTL DEF Spec, PagesReassemble
-----------------------------------------------------------------------------
(* The types.                                                             *)

\* A task asks for one operation.
LEMMA OneOperation == Spec => [](op \in Operations)
<1>1. Init => op \in Operations
  BY DEF Init
<1>2. op \in Operations /\ [Next]_workspaceVars => (op \in Operations)'
  BY DEF Next, OnFiles, OnBash, OnFetch, OnGrep, OnList, OnSkill, Ended, workspaceVars
<1> QED
  BY <1>1, <1>2, PTL DEF Spec

\* WorkspaceTypeOK for every value of the constants, the one of each operation
\* from its inductive invariant.
THEOREM WorkspaceTypeCorrect == Spec => []WorkspaceTypeOK
<1>1. FilesInv /\ ReadInv => FilesTypeOK
  BY DEF FilesInv, Stored, ReadInv, ReadRecords, FilesTypeOK
<1>2. GrepInv => GrepTypeOK
  BY DEF GrepInv
<1>3. WalkInv => ListTypeOK
  BY DEF WalkInv
<1>4. /\ op \in Operations /\ FilesTypeOK /\ BashTypeOK /\ FetchTypeOK /\ GrepTypeOK
      /\ ListTypeOK /\ SyncTypeOK
      => WorkspaceTypeOK
  BY DEF WorkspaceTypeOK
<1> QED
  BY <1>1, <1>2, <1>3, <1>4, OneOperation, ReadInvariant, BashTypeCorrect, FetchTypeCorrect,
     GrepInvariant, ListInvariant, SyncTypeCorrect, PTL

=============================================================================
