-------------------------- MODULE WorkspaceProofs --------------------------
(***************************************************************************)
(* Proofs about Workspace: the bash operation for any number of streams,   *)
(* any limit and any output, the webfetch operation for pages of any size, *)
(* the sync_skill operation for any number of syncs, archives and files,   *)
(* the grep operation for any files and lines, and the list operation for  *)
(* any tree of paths.  The file they all meet at is that of FilesProofs.   *)
(*                                                                         *)
(* A step of the workspace is a step of one operation, and leaves the      *)
(* variables of the others alone; so each operation has an inductive       *)
(* invariant of its own.                                                   *)
(***************************************************************************)
EXTENDS Workspace, SequenceTheorems, FiniteSetTheorems, WellFoundedInduction, TLAPS

\* A step is a step of the bash operation or of its environment, or leaves the
\* operation alone.
LEMMA BashSteps == [Next]_workspaceVars => [BashEnvironment \/ BashOperation]_bashVars
BY DEF Next, OnFiles, OnBash, OnFetch, OnGrep, OnList, OnSkill, Ended, workspaceVars

\* The same of the webfetch operation.
LEMMA FetchSteps == [Next]_workspaceVars => [FetchEnvironment \/ FetchOperation]_fetchVars
BY DEF Next, OnFiles, OnBash, OnFetch, OnGrep, OnList, OnSkill, Ended, workspaceVars

\* And of the sync_skill operation.
LEMMA SkillSteps == [Next]_workspaceVars => [SyncStep]_syncVars
BY DEF Next, OnFiles, OnBash, OnFetch, OnGrep, OnList, OnSkill, Ended, workspaceVars

\* And of the grep and the list operation.
LEMMA GrepSteps == [Next]_workspaceVars => [GrepStep]_grepVars
BY DEF Next, OnFiles, OnBash, OnFetch, OnGrep, OnList, OnSkill, Ended, workspaceVars

LEMMA ListSteps == [Next]_workspaceVars => [ListStep]_listVars
BY DEF Next, OnFiles, OnBash, OnFetch, OnGrep, OnList, OnSkill, Ended, workspaceVars
-----------------------------------------------------------------------------
(* The bash operation.                                                     *)

\* Where the characters of a stream are: some in the pipe, of the others as
\* many as the limit allows have been kept.
Streamed ==
  /\ written \in [Streams -> Nat] /\ pipe \in [Streams -> Nat] /\ kept \in [Streams -> Nat]
  /\ copier \in [Streams -> {"copying", "eof"}]
  /\ \A s \in Streams : /\ pipe[s] <= written[s]
                        /\ kept[s] = Lesser(written[s] - pipe[s], Limit)
                        /\ copier[s] = "eof" => holders = {} /\ pipe[s] = 0

\* Who may still write.
Holding ==
  /\ proc = "running" => "bash" \in holders
  /\ proc = "none" => /\ holders = {}
                      /\ \A s \in Streams : written[s] = 0 /\ copier[s] = "copying"

\* All copies have ended, and the exit code is that of the process; or the time
\* was up before there was one.
Concluded ==
  \/ proc = "none" /\ exitCode = 124 /\ ctx = "deadline"
  \/ /\ \A s \in Streams : copier[s] = "eof"
     /\ \/ proc = "success" /\ (exitCode = 0 \/ (exitCode = 124 /\ ctx = "deadline"))
        \/ proc = "failure" /\ exitCode = 1
        \/ proc \in {"signalled", "killed"} /\ exitCode = -1

\* What is known at each program counter.
Phases ==
  /\ bash \in {"check", "start", "wait", "copies", "process", "done"}
  /\ ctx \in {"live", "deadline", "cancelled"}
  /\ watch \in {"none", "watching", "killed", "missed"}
  /\ bash \in {"check", "start"} => proc = "none"
  /\ bash = "wait" => proc # "none"
  /\ bash = "copies" => proc \in Exits \cup {"killed"}
  /\ bash = "process" => Concluded
  /\ bash # "done" => reply = NoReply
  /\ reply.status = "ok" => bash = "done" /\ Concluded
  /\ reply.status = "error" => bash = "done" /\ (proc = "none" \/ ctx = "cancelled")
  /\ proc = "killed" \/ watch = "killed" => ctx # "live"

BashInv == Streamed /\ Holding /\ Phases

\* The fields of replies that the proofs look at.
LEMMA ReplyStatus ==
  /\ NoReply.status = "none" /\ ErrorReply.status = "error"
  /\ \A n : Unchanged(n).status = "ok"
  /\ \A n, f : Truncated(n, f).status = "ok"
BY DEF NoReply, ErrorReply, Unchanged, Truncated

\* However Save ends, there is a result.
LEMMA SaveStatus ==
  ASSUME NEW n, Save(n, reply') PROVE reply'.status = "ok"
BY ReplyStatus DEF Save

LEMMA BashInitInv == Init => BashInv
<1> SUFFICES ASSUME Init PROVE BashInv
  OBVIOUS
<1> USE BashAssumption DEF Init, BashInit
<1>1. Streamed
  BY DEF Streamed, Lesser
<1>2. Holding
  BY DEF Holding
<1>3. Phases
  BY ReplyStatus DEF Phases, Exits
<1> QED
  BY <1>1, <1>2, <1>3 DEF BashInv

\* The streams, under a step of the operation or its environment.
LEMMA StreamedStep ==
  ASSUME BashInv, [BashEnvironment \/ BashOperation]_bashVars PROVE Streamed'
<1> USE BashAssumption DEF BashInv, Streamed
<1>1. ASSUME UNCHANGED <<written, pipe, kept, copier, holders>> PROVE Streamed'
  BY <1>1
<1>2. ASSUME NEW s \in Streams, NEW n \in 1..MaxWritten, Produce(s, n) PROVE Streamed'
  BY <1>2 DEF Produce, Lesser
<1>3. CASE Fork
  BY <1>3 DEF Fork, Holding
<1>4. CASE ChildEnds \/ BashExits
  BY <1>4 DEF ChildEnds, BashExits
<1>5. CASE StartOk
  BY <1>5 DEF StartOk, Holding, Phases
<1>6. CASE Kill
  BY <1>6 DEF Kill
<1>7. ASSUME NEW s \in Streams, Copied(s) PROVE Streamed'
  <2>1. LimitedWrite(kept[s], pipe[s]) = [n |-> pipe[s], curr |-> Lesser(written[s], Limit)]
    BY <1>7 DEF LimitedWrite, Lesser
  <2>2. /\ pipe' = [pipe EXCEPT ![s] = 0] /\ kept' = [kept EXCEPT ![s] = Lesser(written[s], Limit)]
        /\ UNCHANGED <<written, holders, copier>>
    BY <1>7, <2>1 DEF Copied, procVars
  <2> QED
    BY <1>7, <2>2 DEF Lesser
<1>8. ASSUME NEW s \in Streams, CopyEnds(s) PROVE Streamed'
  BY <1>8 DEF CopyEnds, procVars
<1> QED
  BY <1>1, <1>2, <1>3, <1>4, <1>5, <1>6, <1>7, <1>8
  DEF BashEnvironment, BashOperation, bashVars, procVars, Deadline, CancelTask, Refuse, Accept,
      StartFails, Reap, RunReturns, ReturnOutput, SaveOutput

LEMMA HoldingStep ==
  ASSUME BashInv, [BashEnvironment \/ BashOperation]_bashVars PROVE Holding'
<1> USE DEF BashInv, Holding
<1>1. ASSUME UNCHANGED <<written, copier, holders, proc>> PROVE Holding'
  BY <1>1
<1>2. ASSUME NEW s \in Streams, NEW n \in 1..MaxWritten, Produce(s, n) PROVE Holding'
  BY <1>2 DEF Produce
<1>3. CASE Fork \/ ChildEnds
  BY <1>3 DEF Fork, ChildEnds
<1>4. CASE BashExits
  BY <1>4 DEF BashExits, Exits
<1>5. CASE StartOk \/ Kill
  BY <1>5 DEF StartOk, Kill, Exits
<1>6. ASSUME NEW s \in Streams, Copied(s) PROVE Holding'
  BY <1>6 DEF Copied, procVars, LimitedWrite
<1>7. ASSUME NEW s \in Streams, CopyEnds(s) PROVE Holding'
  BY <1>7 DEF CopyEnds, procVars
<1> QED
  BY <1>1, <1>2, <1>3, <1>4, <1>5, <1>6, <1>7
  DEF BashEnvironment, BashOperation, bashVars, procVars, Deadline, CancelTask, Refuse, Accept,
      StartFails, Reap, RunReturns, ReturnOutput, SaveOutput

LEMMA PhasesStep ==
  ASSUME BashInv, [BashEnvironment \/ BashOperation]_bashVars PROVE Phases'
<1> USE ReplyStatus DEF BashInv, Phases
<1>1. CASE UNCHANGED bashVars
  BY <1>1 DEF bashVars, procVars, Concluded
<1>2. ASSUME NEW s \in Streams, NEW n \in 1..MaxWritten, Produce(s, n) PROVE Phases'
  BY <1>2 DEF Produce, Concluded
<1>3. CASE Deadline \/ CancelTask
  BY <1>3 DEF Deadline, CancelTask, procVars, Concluded
<1>4. CASE Fork \/ ChildEnds
  BY <1>4 DEF Fork, ChildEnds, Concluded
<1>5. CASE BashExits
  BY <1>5 DEF BashExits, Exits, Concluded
<1>6. CASE Refuse \/ Accept
  BY <1>6 DEF Refuse, Accept, Return, procVars, Concluded
<1>7. CASE StartOk
  BY <1>7 DEF StartOk, Exits, Concluded
<1>8. CASE StartFails
  BY <1>8 DEF StartFails, Conclude, Return, procVars, Concluded
<1>9. CASE Kill
  BY <1>9 DEF Kill, Exits, Concluded
<1>10. CASE Reap
  BY <1>10 DEF Reap, procVars, Concluded
<1>11. ASSUME NEW s \in Streams, Copied(s) PROVE Phases'
  BY <1>11 DEF Copied, procVars, LimitedWrite, Concluded
<1>12. ASSUME NEW s \in Streams, CopyEnds(s) PROVE Phases'
  BY <1>12 DEF CopyEnds, procVars, Concluded, Streamed
<1>13. CASE RunReturns
  <2>1. \A s \in Streams : copier[s] = "eof"
    BY <1>13 DEF RunReturns, Streamed
  <2>2. \/ proc # "success" /\ bash' = "process" /\ UNCHANGED reply
             /\ exitCode' = IF proc = "failure" THEN 1 ELSE -1
        \/ proc = "success" /\ ctx = "deadline" /\ bash' = "process" /\ exitCode' = 124 /\ UNCHANGED reply
        \/ ctx = "cancelled" /\ Return(ErrorReply)
        \/ proc = "success" /\ bash' = "process" /\ exitCode' = 0 /\ UNCHANGED reply
    BY <1>13, <2>1 DEF RunReturns, Conclude
  <2> QED
    BY <1>13, <2>1, <2>2 DEF RunReturns, Return, procVars, Concluded, Exits
<1>14. ASSUME NEW b \in BOOLEAN, ReturnOutput(b) PROVE Phases'
  BY <1>14 DEF ReturnOutput, Return, procVars, Concluded
<1>15. CASE SaveOutput
  BY <1>15, SaveStatus DEF SaveOutput, procVars, Concluded
<1> QED
  BY <1>1, <1>2, <1>3, <1>4, <1>5, <1>6, <1>7, <1>8, <1>9, <1>10, <1>11, <1>12, <1>13, <1>14, <1>15
  DEF BashEnvironment, BashOperation

LEMMA BashInvariant == Spec => []BashInv
<1>1. BashInv /\ [Next]_workspaceVars => BashInv'
  BY BashSteps, StreamedStep, HoldingStep, PhasesStep DEF BashInv
<1> QED
  BY <1>1, BashInitInv, PTL DEF Spec

\* The exit code and the errors of the bash operation are true, for any output
\* of a command and of its children (OutcomeIsTrue of module Bash).
THEOREM BashOutcomes == Spec => []OutcomeIsTrue
<1>1. BashInv => OutcomeIsTrue
  BY DEF BashInv, Phases, Concluded, OutcomeIsTrue
<1> QED
  BY <1>1, BashInvariant, PTL

\* A result has all of each stream, up to the limit (OutputIsComplete).
THEOREM BashOutputs == Spec => []OutputIsComplete
<1>1. BashInv => OutputIsComplete
  BY BashAssumption DEF BashInv, Phases, Concluded, Streamed, Holding, Lesser, OutputIsComplete
<1> QED
  BY <1>1, BashInvariant, PTL
-----------------------------------------------------------------------------
(* The webfetch operation.                                                 *)

\* All of the page has been read, and it is not too large.
AllRead == body = page.size /\ page.size <= MaxResponseSize

FetchInv ==
  /\ page.size \in Nat /\ arrived \in Nat /\ body \in Nat /\ body <= page.size /\ body <= ReadLimit
  /\ fetch \in {"check", "do"} => body = 0
  /\ fetch = "convert" => AllRead
  /\ fetched.status = "ok" => fetch = "done" /\ AllRead
  /\ cause = "large" => fetch = "done" /\ page.size > MaxResponseSize

LEMMA FetchInitInv == Init => FetchInv
BY FetchAssumption, ReplyStatus DEF Init, FetchInit, FetchInv, ReadLimit

LEMMA FetchSaves ==
  ASSUME NEW n, Save(n, fetched') PROVE fetched'.status = "ok"
BY ReplyStatus DEF Save

LEMMA FetchStep ==
  ASSUME FetchInv, [FetchEnvironment \/ FetchOperation]_fetchVars PROVE FetchInv'
<1> USE FetchAssumption, ReplyStatus DEF FetchInv, AllRead, ReadLimit
<1>1. CASE UNCHANGED fetchVars
  BY <1>1 DEF fetchVars, bodyVars
<1>2. CASE TimeUp \/ StopFetch
  BY <1>2 DEF TimeUp, StopFetch, bodyVars
<1>3. CASE Arrive \/ NetFails
  BY <1>3 DEF Arrive, NetFails, bodyVars
<1>4. CASE BadURL \/ Request \/ DoFails
  BY <1>4 DEF BadURL, Request, DoFails, FetchFails, bodyVars
<1>5. CASE DoOk
  <2>1. page'.size \in Nat
    BY <1>5 DEF DoOk
  <2> QED
    BY <1>5, <2>1 DEF DoOk
<1>6. CASE Abort
  BY <1>6 DEF Abort
<1>7. CASE DeclaredTooLarge
  BY <1>7 DEF DeclaredTooLarge, TooLarge, FetchFails, bodyVars
<1>8. CASE ReadBody
  <2>1. body' \in Nat /\ body' <= page.size /\ body' <= MaxResponseSize + 1
    BY <1>8 DEF ReadBody, Lesser
  <2> QED
    BY <1>8, <2>1 DEF ReadBody
<1>9. CASE ReadEnds
  BY <1>9 DEF ReadEnds, AtEnd, FetchFails, bodyVars
<1>10. CASE ReadBodyFails
  BY <1>10 DEF ReadBodyFails, FetchFails, bodyVars
<1>11. CASE ConvertAndReturn
  <2>1. fetched'.status = "ok"
    BY <1>11, FetchSaves DEF ConvertAndReturn
  <2> QED
    BY <1>11, <2>1 DEF ConvertAndReturn, bodyVars
<1> QED
  BY <1>1, <1>2, <1>3, <1>4, <1>5, <1>6, <1>7, <1>8, <1>9, <1>10, <1>11
  DEF FetchEnvironment, FetchOperation

\* A page is returned whole, or refused because it is too large, whatever its
\* size and however it arrives (WholePage of module WebFetch).
THEOREM PagesAreWhole == Spec => []WholePage
<1>1. FetchInv /\ [Next]_workspaceVars => FetchInv'
  BY FetchSteps, FetchStep
<1>2. FetchInv => WholePage
  BY DEF FetchInv, AllRead, WholePage
<1> QED
  BY <1>1, <1>2, FetchInitInv, PTL DEF Spec
-----------------------------------------------------------------------------
(* The sync_skill operation.                                               *)

\* The name of entry i of the archive sync s brings.
EntryName(s, i) == Entries[ArchiveOf[s]][i]

SyncTypes ==
  /\ pc \in [Syncs -> PcStates] /\ inode \in [Syncs -> Syncs] /\ entry \in [Syncs -> Nat]
  /\ \A s \in Syncs : entry[s] \in 1..(Len(Archive(s)) + 1)
  /\ file \in [Names -> Saved \cup {NoFile}]
  /\ checksum \in Archives \cup {"absent", "empty"} /\ mixed \in BOOLEAN

\* Syncs that overlap are marked.
Alone == ~mixed => \A s, t \in Syncs : pc[s] \in Active /\ pc[t] \in Active => s = t

\* Where a sync stands in its archive.
Position == \A s \in Syncs :
  /\ pc[s] \in {"none", "remove", "make"} => entry[s] = 1
  /\ pc[s] \in {"open", "copy"} => entry[s] <= Len(Archive(s))
  /\ pc[s] \in {"truncate", "write"} => entry[s] = Len(Archive(s)) + 1

\* File n is entry i, and was extracted by sync s to its end.
Extracted(s, n, i) ==
  /\ i < entry[s] /\ EntryName(s, i) = n
  /\ file[n].by = s /\ file[n].state = "whole"

\* What sync s has made of the directory so far, if it is not disturbed.
Stands(s) ==
  /\ pc[s] = "make" => Present = {} /\ checksum = "absent"
  /\ pc[s] \in {"open", "copy", "truncate"} => checksum = "absent"
  /\ pc[s] = "write" => checksum = "empty"
  /\ pc[s] \in {"open", "copy", "truncate", "write"} =>
       /\ \A i \in 1..(entry[s] - 1) : EntryName(s, i) \in Present
       /\ \A n \in Present :
            \/ \E i \in DOMAIN Archive(s) : Extracted(s, n, i)
            \/ /\ pc[s] = "copy" /\ n = Name(s)
               /\ file[n] = [ino |-> inode[s], by |-> s, state |-> "partial"]
  /\ pc[s] = "copy" => Name(s) \in Present

Progress == ~mixed => \A s \in Syncs : Stands(s)

SyncInv == SyncTypes /\ Alone /\ Position /\ Progress /\ ChecksumMatchesFiles

\* The states of a file can be told apart.
LEMMA FileStates ==
  /\ \A f \in Saved : f # NoFile /\ f = [ino |-> f.ino, by |-> f.by, state |-> f.state]
  /\ NoFile.state = "absent"
BY DEF Saved, NoFile

LEMMA SyncInitInv == Init => SyncInv
<1> SUFFICES ASSUME Init PROVE SyncInv
  OBVIOUS
<1> USE ArchivesAssumption DEF Init, SyncInit
<1>1. \A s \in Syncs : Len(Archive(s)) \in Nat
  BY DEF Archive
<1>2. SyncTypes
  <2>1. \A s \in Syncs : entry[s] \in 1..(Len(Archive(s)) + 1)
    BY <1>1
  <2> QED
    BY <2>1 DEF SyncTypes, PcStates
<1>3. Alone /\ Position
  BY DEF Alone, Position, Active
<1>4. Progress /\ ChecksumMatchesFiles
  BY ChecksumAssumption DEF Progress, Stands, ChecksumMatchesFiles, Present
<1> QED
  BY <1>2, <1>3, <1>4 DEF SyncInv

LEMMA SyncTypesStep ==
  ASSUME SyncInv, [SyncStep]_syncVars PROVE SyncTypes' /\ Position'
<1> USE ArchivesAssumption DEF SyncInv, SyncTypes, Position, PcStates, Active
<1>0. \A s \in Syncs : Len(Archive(s)) \in Nat
  BY DEF Archive
<1>1. CASE UNCHANGED syncVars
  BY <1>1 DEF syncVars
<1>2. ASSUME NEW s \in Syncs, Start(s) PROVE SyncTypes' /\ Position'
  BY <1>2 DEF Start, Goto
<1>3. ASSUME NEW s \in Syncs, RemoveOne(s) PROVE SyncTypes' /\ Position'
  BY <1>3 DEF RemoveOne
<1>4. ASSUME NEW s \in Syncs, RemoveDone(s) PROVE SyncTypes' /\ Position'
  BY <1>4 DEF RemoveDone, Goto
<1>5. ASSUME NEW s \in Syncs, MakeDir(s) PROVE SyncTypes' /\ Position'
  BY <1>5, <1>0 DEF MakeDir, Goto, AfterEntry
<1>6. ASSUME NEW s \in Syncs, Open(s) PROVE SyncTypes' /\ Position'
  <2>1. ASSUME file[Name(s)] # NoFile PROVE file[Name(s)].ino \in Syncs
    BY <2>1, <1>6, <1>0 DEF Open, Saved, Name, Archive, Goto
  <2>2. (IF file[Name(s)] = NoFile THEN s ELSE file[Name(s)].ino) \in Syncs
    BY <2>1
  <2> QED
    BY <1>6, <2>2 DEF Open, Goto, Saved
<1>7. ASSUME NEW s \in Syncs, Copy(s) PROVE SyncTypes' /\ Position'
  <2>1. file' \in [Names -> Saved \cup {NoFile}]
    BY <1>7, FileStates DEF Copy, Saved, WithState
  <2> QED
    BY <1>7, <1>0, <2>1 DEF Copy, Goto, AfterEntry
<1>8. ASSUME NEW s \in Syncs, TruncateChecksum(s) \/ WriteChecksum(s) \/ Fail(s)
      PROVE SyncTypes' /\ Position'
  <2>1. CASE TruncateChecksum(s)
    BY <1>8, <2>1 DEF TruncateChecksum, Goto
  <2>2. CASE WriteChecksum(s)
    BY <1>8, <2>2 DEF WriteChecksum, Goto
  <2>3. CASE Fail(s)
    BY <1>8, <2>3 DEF Fail
  <2> QED
    BY <1>8, <2>1, <2>2, <2>3
<1>9. CASE Crash
  BY <1>9 DEF Crash
<1> QED
  BY <1>1, <1>2, <1>3, <1>4, <1>5, <1>6, <1>7, <1>8, <1>9 DEF SyncStep, Sync

LEMMA AloneStep ==
  ASSUME SyncInv, [SyncStep]_syncVars PROVE Alone'
<1> USE DEF SyncInv, SyncTypes, Alone, Active, Running
<1>1. CASE UNCHANGED syncVars
  BY <1>1 DEF syncVars
<1>2. ASSUME NEW s \in Syncs, Start(s) PROVE Alone'
  BY <1>2 DEF Start, Goto
<1>3. ASSUME NEW s \in Syncs, RemoveOne(s) PROVE Alone'
  BY <1>3 DEF RemoveOne
<1>4. ASSUME NEW s \in Syncs, RemoveDone(s) PROVE Alone'
  BY <1>4 DEF RemoveDone, Goto
<1>5. ASSUME NEW s \in Syncs, MakeDir(s) PROVE Alone'
  BY <1>5 DEF MakeDir, Goto, AfterEntry
<1>6. ASSUME NEW s \in Syncs, Open(s) PROVE Alone'
  BY <1>6 DEF Open, Goto
<1>7. ASSUME NEW s \in Syncs, Copy(s) PROVE Alone'
  BY <1>7 DEF Copy, Goto, AfterEntry
<1>8. ASSUME NEW s \in Syncs, TruncateChecksum(s) \/ WriteChecksum(s) \/ Fail(s) PROVE Alone'
  BY <1>8 DEF TruncateChecksum, WriteChecksum, Fail, Goto
<1>9. CASE Crash
  BY <1>9 DEF Crash
<1> QED
  BY <1>1, <1>2, <1>3, <1>4, <1>5, <1>6, <1>7, <1>8, <1>9 DEF SyncStep, Sync
LEMMA ProgressStep ==
  ASSUME SyncInv, [SyncStep]_syncVars PROVE Progress'
<1> USE ArchivesAssumption DEF SyncInv, SyncTypes, Active
<1>1. \A s \in Syncs : Len(Archive(s)) \in Nat /\ DOMAIN Archive(s) = 1..Len(Archive(s))
  BY DEF Archive
<1>2. \A s \in Syncs : \A i \in DOMAIN Archive(s) : EntryName(s, i) \in Names
  BY DEF Archive, EntryName
<1>3. \A s \in Syncs : Name(s) = EntryName(s, entry[s])
  BY DEF Name, Archive, EntryName
<1>4. ASSUME NEW t \in Syncs, pc'[t] \notin Active \ {"remove"} PROVE Stands(t)'
  BY <1>4 DEF Stands
<1>5. ASSUME NEW s \in Syncs, pc[s] \in Active, Running = {s} \/ ~mixed, Stands(s)',
             \A t \in Syncs \ {s} : pc'[t] = pc[t]
      PROVE Progress'
  BY <1>4, <1>5 DEF Progress, Alone, Running
<1>6. CASE UNCHANGED syncVars
  BY <1>6 DEF syncVars, Progress, Stands, Present, Extracted, EntryName, Name, Archive
<1>7. ASSUME NEW s \in Syncs, Start(s) PROVE Progress'
  <2>1. ASSUME ~mixed', NEW t \in Syncs PROVE pc'[t] \notin Active \ {"remove"}
    BY <1>7, <2>1 DEF Start, Goto, Running
  <2> QED
    BY <2>1, <1>4 DEF Progress
<1>8. ASSUME NEW s \in Syncs, RemoveOne(s) PROVE Progress'
  <2>1. Stands(s)'
    BY <1>8 DEF RemoveOne, Stands
  <2> QED
    BY <1>8, <2>1, <1>5 DEF RemoveOne, Progress
<1>9. ASSUME NEW s \in Syncs, RemoveDone(s) PROVE Progress'
  <2>1. Stands(s)'
    BY <1>9 DEF RemoveDone, Goto, Stands, Present
  <2> QED
    BY <1>9, <2>1, <1>5 DEF RemoveDone, Goto, Progress
<1>10. ASSUME NEW s \in Syncs, MakeDir(s), ~mixed PROVE Progress'
  <2>1. /\ pc[s] = "make" /\ pc'[s] \in {"open", "truncate"} /\ entry[s] = 1
        /\ UNCHANGED <<entry, file, checksum>>
    BY <1>10 DEF MakeDir, Goto, AfterEntry, Position
  <2>2. Present = {} /\ checksum = "absent"
    BY <1>10, <2>1 DEF Progress, Stands
  <2>3. Stands(s)'
    BY <2>1, <2>2 DEF Stands, Present
  <2> QED
    BY <1>10, <2>1, <2>3, <1>5 DEF MakeDir, Goto
<1>11. ASSUME NEW s \in Syncs, Open(s), ~mixed PROVE Progress'
  <2> DEFINE n == Name(s)
  <2>1. /\ pc[s] = "open" /\ pc'[s] = "copy" /\ entry[s] \in DOMAIN Archive(s)
        /\ UNCHANGED <<entry, checksum>>
    BY <1>11, <1>1 DEF Open, Goto, Position
  <2>2. n \in Names /\ n = EntryName(s, entry[s])
    BY <2>1, <1>2, <1>3
  <2>3. Stands(s)
    BY <1>11 DEF Progress
  <2>4. file' = [file EXCEPT ![n] = [ino |-> inode'[s], by |-> s, state |-> "partial"]]
    BY <1>11 DEF Open
  <2>5. file'[n] # NoFile /\ \A m \in Names \ {n} : file'[m] = file[m]
    BY <2>2, <2>4, FileStates DEF NoFile
  <2>6. Present' = Present \cup {n}
    BY <2>2, <2>5 DEF Present
  <2>7. n \notin Present
    BY <2>1, <2>2, <2>3 DEF Stands, Extracted, EntryName, Archive
  <2>8. ASSUME NEW m \in Present PROVE \E i \in DOMAIN Archive(s) : Extracted(s, m, i)'
    <3>1. PICK i \in DOMAIN Archive(s) : Extracted(s, m, i)
      BY <2>1, <2>3, <2>8 DEF Stands
    <3>2. Extracted(s, m, i)'
      BY <3>1, <2>1, <2>5, <2>7, <2>8 DEF Extracted, Present, EntryName
    <3> QED
      BY <3>2
  <2>9. Name(s)' = n /\ n \in Present'
    BY <2>1, <2>6 DEF Name, Archive
  <2>10. file'[n] = [ino |-> inode'[s], by |-> s, state |-> "partial"]
    BY <2>2, <2>4
  <2>11. /\ checksum' = "absent"
         /\ \A i \in 1..(entry[s] - 1) : EntryName(s, i) \in Present'
    BY <2>1, <2>3, <2>6 DEF Stands
  <2>12. Stands(s)'
    BY <2>1, <2>6, <2>8, <2>9, <2>10, <2>11 DEF Stands, EntryName, Archive
  <2> QED
    BY <1>11, <2>1, <2>12, <1>5 DEF Open, Goto
<1>12. ASSUME NEW s \in Syncs, Copy(s), ~mixed PROVE Progress'
  <2> DEFINE n == Name(s)
  <2>1. /\ pc[s] = "copy" /\ entry[s] \in DOMAIN Archive(s)
        /\ pc'[s] \in {"open", "truncate"} /\ entry'[s] = entry[s] + 1
        /\ UNCHANGED <<checksum, inode>>
    BY <1>12, <1>1 DEF Copy, Goto, AfterEntry, Position
  <2>2. n \in Names /\ n = EntryName(s, entry[s])
    BY <2>1, <1>2, <1>3
  <2>3. Stands(s)
    BY <1>12 DEF Progress
  <2>4. file[n] = [ino |-> inode[s], by |-> s, state |-> "partial"] /\ n \in Present
    BY <2>1, <2>2, <2>3 DEF Stands, Extracted, EntryName, Archive
  <2>5. file' = [file EXCEPT ![n] = [ino |-> inode[s], by |-> s, state |-> "whole"]]
    BY <1>12, <2>2, <2>4 DEF Copy, WithState, Present
  <2>6. Present' = Present
    BY <2>2, <2>4, <2>5 DEF Present, NoFile
  <2>7. ASSUME NEW m \in Present PROVE \E i \in DOMAIN Archive(s) : Extracted(s, m, i)'
    <3>1. CASE m = n
      BY <3>1, <2>1, <2>2, <2>5 DEF Extracted, EntryName
    <3>2. CASE m # n
      <4>1. PICK i \in DOMAIN Archive(s) : Extracted(s, m, i)
        BY <3>2, <2>1, <2>3, <2>7 DEF Stands
      <4>2. Extracted(s, m, i)'
        <5>1. file'[m] = file[m]
          BY <3>2, <2>5, <2>7 DEF Present
        <5>2. i < entry'[s]
          BY <4>1, <2>1, <1>1 DEF Extracted
        <5> QED
          BY <4>1, <5>1, <5>2 DEF Extracted, EntryName
      <4> QED
        BY <4>2
    <3> QED
      BY <3>1, <3>2
  <2>8. \A i \in 1..entry[s] : EntryName(s, i) \in Present
    BY <2>1, <2>2, <2>3, <2>4 DEF Stands
  <2>9. Stands(s)'
    BY <2>1, <2>3, <2>6, <2>7, <2>8 DEF Stands, EntryName, Archive
  <2> QED
    BY <1>12, <2>1, <2>9, <1>5 DEF Copy, Goto
<1>13. ASSUME NEW s \in Syncs, TruncateChecksum(s), ~mixed PROVE Progress'
  <2>1. /\ pc[s] = "truncate" /\ pc'[s] = "write" /\ checksum' = "empty"
        /\ UNCHANGED <<entry, inode, file>>
    BY <1>13 DEF TruncateChecksum, Goto
  <2>2. Stands(s)
    BY <1>13 DEF Progress
  <2>3. ASSUME NEW m \in Present PROVE \E i \in DOMAIN Archive(s) : Extracted(s, m, i)
    BY <2>1, <2>2 DEF Stands
  <2>4. \A m \in Names, i \in Nat : Extracted(s, m, i) => Extracted(s, m, i)'
    BY <2>1 DEF Extracted, EntryName
  <2>5. Present' = Present
    BY <2>1 DEF Present
  <2>6. ASSUME NEW m \in Present PROVE \E i \in DOMAIN Archive(s) : Extracted(s, m, i)'
    BY <2>3, <2>4, <1>1 DEF Present
  <2>7. Stands(s)'
    BY <2>1, <2>2, <2>5, <2>6 DEF Stands, EntryName, Archive
  <2> QED
    BY <1>13, <2>2, <2>7, <1>5 DEF TruncateChecksum, Goto
<1>14. ASSUME NEW s \in Syncs, WriteChecksum(s), ~mixed PROVE Progress'
  <2>1. Stands(s)'
    BY <1>14, <1>4 DEF WriteChecksum, Goto
  <2> QED
    BY <1>14, <2>1, <1>5 DEF WriteChecksum, Goto
<1>15. ASSUME NEW s \in Syncs, Fail(s), ~mixed PROVE Progress'
  BY <1>15, <1>4 DEF Fail, Progress, Stands, Present, Extracted, EntryName, Name, Archive
<1>16. CASE Crash
  BY <1>16, <1>4 DEF Crash, Progress
<1>17. ASSUME NEW s \in Syncs, mixed,
              MakeDir(s) \/ Open(s) \/ Copy(s) \/ TruncateChecksum(s) \/ WriteChecksum(s) \/ Fail(s)
       PROVE Progress'
  BY <1>17 DEF MakeDir, Open, Copy, TruncateChecksum, WriteChecksum, Fail, Progress
<1> QED
  BY <1>6, <1>7, <1>8, <1>9, <1>10, <1>11, <1>12, <1>13, <1>14, <1>15, <1>16, <1>17
  DEF SyncStep, Sync

\* An undisturbed sync that has got to its checksum leaves exactly its archive.
LEMMA WritesWhole ==
  ASSUME SyncInv, NEW s \in Syncs, WriteChecksum(s), ~mixed
  PROVE Holds(ArchiveOf[s])'
<1> USE ArchivesAssumption DEF SyncInv, SyncTypes
<1>0. Len(Archive(s)) \in Nat /\ DOMAIN Archive(s) = 1..Len(Archive(s))
  BY DEF Archive
<1>1. pc[s] = "write" /\ entry[s] = Len(Archive(s)) + 1 /\ Stands(s) /\ checksum = "empty"
  <2>1. pc[s] = "write"
    BY DEF WriteChecksum, Goto
  <2> QED
    BY <2>1 DEF Position, Progress, Stands
<1>2. checksum' = ArchiveOf[s] /\ UNCHANGED file
  BY <1>1 DEF WriteChecksum
<1>3. \A i \in DOMAIN Archive(s) : EntryName(s, i) \in Present
  BY <1>0, <1>1 DEF Stands
<1>4. \A n \in Present : \E i \in DOMAIN Archive(s) : Extracted(s, n, i)
  BY <1>1 DEF Stands
<1>5. Present = {Entries[ArchiveOf[s]][i] : i \in DOMAIN Entries[ArchiveOf[s]]}
  BY <1>3, <1>4 DEF Extracted, EntryName, Archive
<1>6. \A n \in Present : file[n].state = "whole" /\ ArchiveOf[file[n].by] = ArchiveOf[s]
  BY <1>4 DEF Extracted
<1> QED
  BY <1>2, <1>5, <1>6 DEF Holds, Present

LEMMA ChecksumStep ==
  ASSUME SyncInv, [SyncStep]_syncVars PROVE ChecksumMatchesFiles'
<1> USE ChecksumAssumption DEF SyncInv, ChecksumMatchesFiles, Present
<1>1. CASE UNCHANGED <<file, checksum, mixed>>
  BY <1>1
<1>2. ASSUME NEW s \in Syncs, Start(s) \/ RemoveOne(s) \/ RemoveDone(s) PROVE ChecksumMatchesFiles'
  BY <1>2, FileStates DEF Start, RemoveOne, RemoveDone, SyncTypes
<1>3. ASSUME NEW s \in Syncs, Open(s) \/ Copy(s) PROVE ChecksumMatchesFiles'
  BY <1>3 DEF Open, Copy, Goto, Progress, Stands
<1>4. ASSUME NEW s \in Syncs, TruncateChecksum(s) PROVE ChecksumMatchesFiles'
  BY <1>4 DEF TruncateChecksum
<1>5. ASSUME NEW s \in Syncs, WriteChecksum(s) PROVE ChecksumMatchesFiles'
  BY <1>5, WritesWhole DEF WriteChecksum, Holds
<1> QED
  BY <1>1, <1>2, <1>3, <1>4, <1>5
  DEF SyncStep, Sync, MakeDir, Fail, Crash, syncVars

LEMMA SyncInvariant == Spec => []SyncInv
<1>1. SyncInv /\ [Next]_workspaceVars => SyncInv'
  BY SkillSteps, SyncTypesStep, AloneStep, ProgressStep, ChecksumStep DEF SyncInv
<1> QED
  BY <1>1, SyncInitInv, PTL DEF Spec

\* A checksum is never found beside the files of another version or beside a
\* file that is not whole, unless syncs overlap (ChecksumMatchesFiles).
THEOREM ChecksumsAreTrue == Spec => []ChecksumMatchesFiles
<1>1. SyncInv => ChecksumMatchesFiles
  BY DEF SyncInv
<1> QED
  BY <1>1, SyncInvariant, PTL

\* A sync that nobody disturbs and that reports success leaves its archive and
\* nothing else, for any archives and any number of syncs (SuccessIsExact).
THEOREM SyncsAreExact == Spec => SuccessIsExact
<1> DEFINE Exact == \A s \in Syncs :
             ~mixed /\ pc[s] # "ok" /\ pc'[s] = "ok" => Holds(ArchiveOf[s])'
<1>1. ASSUME SyncInv, [SyncStep]_syncVars PROVE [Exact]_syncVars
  <2> SUFFICES ASSUME NEW s \in Syncs, SyncStep, ~mixed, pc[s] # "ok", pc'[s] = "ok"
               PROVE Holds(ArchiveOf[s])'
    BY <1>1
  <2>1. WriteChecksum(s)
    BY <1>1 DEF SyncStep, Sync, Start, RemoveOne, RemoveDone, MakeDir, Open, Copy, AfterEntry,
                TruncateChecksum, WriteChecksum, Fail, Crash, Goto, SyncInv, SyncTypes
  <2> QED
    BY <1>1, <2>1, WritesWhole
<1>2. SyncInv /\ [Next]_workspaceVars => [Exact]_syncVars
  BY <1>1, SkillSteps
<1> QED
  BY <1>2, SyncInvariant, PTL DEF Spec, SuccessIsExact
-----------------------------------------------------------------------------
(* The grep operation.                                                     *)

\* Where x is in a sequence.
Places(x, s) == {i \in DOMAIN s : s[i] = x}

LEMMA TimesIsNat ==
  ASSUME NEW T, NEW s \in Seq(T), NEW x
  PROVE  /\ Times(x, s) \in Nat /\ IsFiniteSet(Places(x, s))
         /\ Times(x, s) = Cardinality(Places(x, s))
<1>1. IsFiniteSet(1..Len(s)) /\ Places(x, s) \in SUBSET (1..Len(s))
  BY FS_Interval DEF Places
<1>2. IsFiniteSet(Places(x, s))
  BY <1>1, FS_Subset
<1> QED
  BY <1>2, FS_CardinalityType DEF Times, Places

LEMMA TimesZero ==
  ASSUME NEW T, NEW s \in Seq(T), NEW x, \A i \in DOMAIN s : s[i] # x
  PROVE  Times(x, s) = 0
BY FS_EmptySet DEF Times

LEMMA TimesOnce ==
  ASSUME NEW s, NEW x, NEW k \in DOMAIN s, s[k] = x, \A i \in DOMAIN s : s[i] = x => i = k
  PROVE  Times(x, s) = 1
<1>1. {i \in DOMAIN s : s[i] = x} = {k}
  OBVIOUS
<1> QED
  BY <1>1, FS_Singleton DEF Times

\* What x is in two sequences it is in their concatenation.
LEMMA TimesConcat ==
  ASSUME NEW T, NEW s \in Seq(T), NEW t \in Seq(T), NEW x
  PROVE  Times(x, s \o t) = Times(x, s) + Times(x, t)
<1> DEFINE A == Places(x, s)
           B == Places(x, t)
           C == Places(x, s \o t)
           m == Len(s)
           Moved == C \ A
           f == [i \in B |-> m + i]
<1>1. /\ m \in Nat /\ Len(t) \in Nat /\ DOMAIN s = 1..m /\ DOMAIN t = 1..Len(t)
      /\ s \o t \in Seq(T) /\ DOMAIN (s \o t) = 1..(m + Len(t))
      /\ \A i \in 1..(m + Len(t)) : (s \o t)[i] = IF i <= m THEN s[i] ELSE t[i - m]
  BY ConcatProperties, LenProperties
<1>2. /\ IsFiniteSet(A) /\ IsFiniteSet(B) /\ IsFiniteSet(C)
      /\ Times(x, s) = Cardinality(A) /\ Times(x, t) = Cardinality(B)
      /\ Times(x, s \o t) = Cardinality(C)
  BY <1>1, TimesIsNat
<1>3. A \subseteq C /\ A \subseteq 1..m /\ B \subseteq 1..Len(t)
  BY <1>1 DEF Places
<1>4. \A i \in B : m + i \in Moved
  BY <1>1, <1>3 DEF Places
<1>5. \A j \in Moved : j - m \in B /\ j \in Int
  BY <1>1 DEF Places
<1> HIDE DEF A, B, C, m, Moved
<1>6. f \in Bijection(B, Moved)
  <2>1. f \in [B -> Moved]
    BY <1>4
  <2>2. \A i, j \in B : f[i] = f[j] => i = j
    BY <1>1, <1>3
  <2>3. ASSUME NEW j \in Moved PROVE \E i \in B : f[i] = j
    <3>1. j - m \in B /\ f[j - m] = j
      BY <1>1, <1>5
    <3> QED
      BY <3>1
  <2> QED
    BY <2>1, <2>2, <2>3 DEF Bijection, Injection, Surjection, IsInjective
<1>7. Cardinality(Moved) = Cardinality(B)
  BY <1>2, <1>6, FS_Bijection DEF ExistsBijection
<1>8. Cardinality(Moved) = Cardinality(C) - Cardinality(A)
  <2>1. C \cap A = A
    BY <1>3
  <2>2. Cardinality(C \ A) = Cardinality(C) - Cardinality(C \cap A)
    BY <1>2, FS_Difference
  <2> QED
    BY <2>1, <2>2 DEF Moved
<1>9. Cardinality(A) \in Nat /\ Cardinality(B) \in Nat /\ Cardinality(C) \in Nat
  BY <1>2, FS_CardinalityType
<1> QED
  BY <1>2, <1>7, <1>8, <1>9

\* The first element counts, and the others do.
LEMMA TimesHeadTail ==
  ASSUME NEW T, NEW s \in Seq(T), s # <<>>, NEW x
  PROVE  Times(x, s) = (IF Head(s) = x THEN 1 ELSE 0) + Times(x, Tail(s))
<1>1. Head(s) \in T /\ Tail(s) \in Seq(T) /\ Len(s) \in Nat \ {0}
  BY HeadTailProperties, EmptySeq
<1>2. s = <<Head(s)>> \o Tail(s)
  OBVIOUS
<1>3. <<Head(s)>> \in Seq(T) /\ DOMAIN <<Head(s)>> = {1} /\ <<Head(s)>>[1] = Head(s)
  BY <1>1
<1>4. Times(x, <<Head(s)>>) = IF Head(s) = x THEN 1 ELSE 0
  <2> DEFINE one == <<Head(s)>>
  <2>1. one \in Seq(T) /\ DOMAIN one = {1} /\ one[1] = Head(s)
    BY <1>3
  <2> HIDE DEF one
  <2>2. CASE Head(s) = x
    BY <2>1, <2>2, TimesOnce DEF one
  <2>3. CASE Head(s) # x
    BY <2>1, <2>3, TimesZero DEF one
  <2> QED
    BY <2>2, <2>3
<1>5. Times(x, <<Head(s)>> \o Tail(s)) = Times(x, <<Head(s)>>) + Times(x, Tail(s))
  BY <1>1, <1>3, TimesConcat
<1> QED
  BY <1>2, <1>4, <1>5

\* The lines of a file are finitely many.
LEMMA Finite ==
  \A f \in Searched : /\ IsFiniteSet(DOMAIN LinesIn[f]) /\ DOMAIN LinesIn[f] \subseteq Nat
                      /\ HitsOf(f) \subseteq DOMAIN LinesIn[f]
<1>1. ASSUME NEW f \in Searched
      PROVE  /\ IsFiniteSet(DOMAIN LinesIn[f]) /\ DOMAIN LinesIn[f] \subseteq Nat
             /\ HitsOf(f) \subseteq DOMAIN LinesIn[f]
  <2>1. LinesIn[f] \in Seq(SUBSET {"rg", "go", "long"})
    BY GrepAssumption
  <2>2. DOMAIN LinesIn[f] = 1..Len(LinesIn[f]) /\ Len(LinesIn[f]) \in Nat
    BY <2>1, LenProperties
  <2>3. HitsOf(f) \subseteq DOMAIN LinesIn[f]
    BY DEF HitsOf
  <2> QED
    BY <2>2, <2>3, FS_Interval
<1> QED
  BY <1>1

\* An order of set S is a sequence in which every element of S is once.
LEMMA OrdersOnce ==
  ASSUME NEW S, IsFiniteSet(S), NEW order \in Orders(S)
  PROVE  /\ order \in Seq(S)
         /\ \A f : Times(f, order) = IF f \in S THEN 1 ELSE 0
<1>1. Cardinality(S) \in Nat /\ order \in [1..Cardinality(S) -> S] /\ DOMAIN order = 1..Cardinality(S)
  BY FS_CardinalityType DEF Orders
<1>2. order \in Seq(S)
  BY <1>1
<1>3. order \in Surjection(1..Cardinality(S), S)
  BY <1>1 DEF Orders, Surjection
<1>4. IsFiniteSet(1..Cardinality(S)) /\ Cardinality(1..Cardinality(S)) = Cardinality(S)
  BY <1>1, FS_Interval
<1>5. order \in Injection(1..Cardinality(S), S)
  BY <1>3, <1>4, FS_SurjSameCardinalityImpliesInj
<1>6. \A i, j \in DOMAIN order : order[i] = order[j] => i = j
  BY <1>1, <1>5 DEF Injection, IsInjective
<1>7. ASSUME NEW f, f \in S PROVE Times(f, order) = 1
  <2>1. PICK k \in DOMAIN order : order[k] = f
    BY <1>1, <1>3, <1>7 DEF Surjection
  <2> QED
    BY <1>6, <2>1, TimesOnce
<1>8. ASSUME NEW f, f \notin S PROVE Times(f, order) = 0
  BY <1>1, <1>2, <1>8, TimesZero
<1> QED
  BY <1>2, <1>7, <1>8

\* The matches at the lines in S of a file are these lines, each of them once.
LEMMA MatchesOnce ==
  ASSUME NEW f \in Searched, NEW S \in SUBSET DOMAIN LinesIn[f], NEW ms \in MatchesAt(f, S)
  PROVE  /\ ms \in Seq(Searched \X Nat)
         /\ \A g, i : Times(<<g, i>>, ms) = IF g = f /\ i \in S THEN 1 ELSE 0
<1>1. IsFiniteSet(S) /\ S \subseteq Nat
  BY Finite, FS_Subset
<1>2. Cardinality(S) \in Nat /\ ms \in [1..Cardinality(S) -> {f} \X S] /\ DOMAIN ms = 1..Cardinality(S)
  BY <1>1, FS_CardinalityType DEF MatchesAt
<1>3. ms \in Seq({f} \X S) /\ ms \in Seq(Searched \X Nat)
  <2>1. ms \in [1..Cardinality(S) -> Searched \X Nat]
    <3>1. \A m \in {f} \X S : m \in Searched \X Nat
      BY <1>1
    <3> QED
      BY <1>2, <3>1
  <2> QED
    BY <1>2, <2>1
<1>4. IsFiniteSet({f} \X S) /\ Cardinality({f} \X S) = Cardinality(S)
  <2>1. IsFiniteSet({f}) /\ Cardinality({f}) = 1
    BY FS_Singleton
  <2> QED
    BY <1>1, <1>2, <2>1, FS_Product
<1>5. \A i, j \in DOMAIN ms : ms[i] = ms[j] => i = j
  <2> SUFFICES ASSUME NEW i \in DOMAIN ms, NEW j \in DOMAIN ms, ms[i] = ms[j], i # j PROVE FALSE
    OBVIOUS
  <2>1. i \in Nat /\ j \in Nat /\ ms[i][2] \in Nat
    <3>1. ms[i] \in {f} \X S /\ i \in Nat /\ j \in Nat
      BY <1>2
    <3>2. ms[i][2] \in S
      BY <3>1
    <3> QED
      BY <1>1, <3>1, <3>2
  <2>2. i < j \/ j < i
    BY <2>1
  <2> QED
    BY <2>1, <2>2 DEF MatchesAt
<1>6. ms \in Injection(1..Cardinality(S), {f} \X S)
  BY <1>2, <1>5 DEF Injection, IsInjective
<1>7. ms \in Surjection(1..Cardinality(S), {f} \X S)
  <2>1. IsFiniteSet(1..Cardinality(S)) /\ Cardinality(1..Cardinality(S)) = Cardinality(S)
    BY <1>2, FS_Interval
  <2> QED
    BY <1>4, <1>6, <2>1, FS_Injection
<1>8. ASSUME NEW g, NEW i, g = f /\ i \in S PROVE Times(<<g, i>>, ms) = 1
  <2>1. PICK k \in DOMAIN ms : ms[k] = <<g, i>>
    BY <1>2, <1>7, <1>8 DEF Surjection
  <2> QED
    BY <1>5, <2>1, TimesOnce
<1>9. ASSUME NEW g, NEW i, ~(g = f /\ i \in S) PROVE Times(<<g, i>>, ms) = 0
  <2>1. \A k \in DOMAIN ms : ms[k] # <<g, i>>
    BY <1>2, <1>9
  <2> QED
    BY <1>3, <2>1, TimesZero
<1> QED
  BY <1>3, <1>8, <1>9

\* The replies that can be made for an output of n characters.
LEMMA OutputReplies ==
  ASSUME NEW n \in Nat
  PROVE  /\ Unchanged(n) \in Replies /\ NoReply \in Replies /\ ErrorReply \in Replies
         /\ \A b \in BOOLEAN : Truncated(n, b) \in Replies
         /\ \A r : Save(n, r) => r \in Replies
<1>1. PreviewOf(n) \in Nat
  <2>1. PreviewLines * LineLength \in Nat \ {0}
    BY OutputAssumption
  <2> QED
    BY <2>1 DEF PreviewOf
<1>2. PreviewSize \in Nat
  BY OutputAssumption
<1>3. \A b \in BOOLEAN : Truncated(n, b) \in Replies
  BY <1>1, <1>2 DEF Truncated, Lesser, Replies
<1>4. Unchanged(n) \in Replies /\ NoReply \in Replies /\ ErrorReply \in Replies
  BY DEF Unchanged, NoReply, ErrorReply, Replies
<1>5. \A r : Save(n, r) => r \in Replies
  BY <1>3 DEF Save
<1> QED
  BY <1>3, <1>4, <1>5

\* How far the search has come.
GrepPhases ==
  /\ grep = "begin" => matches = <<>> /\ skipped = {}
  /\ grep = "search" => rg \in {"go", "running"}
  /\ grep \in {"process", "done"} => rg # "running" /\ (rg \in {"go", "ended"} => agenda = <<>>)

\* What has been found at line i of f and what is still expected there: as often
\* as f is to be searched, if the line matches and f is not given up.
GrepCounts == grep # "begin" =>
  \A f \in Searched : \A i \in DOMAIN LinesIn[f] :
    LET n   == Times(<<f, i>>, matches)
        yet == Times(f, agenda)
    IN /\ i \notin HitsOf(f) => n = 0
       /\ n + yet <= Named(f)
       /\ f \notin skipped /\ i \in HitsOf(f) => n + yet = Named(f)

GrepInv == GrepTypeOK /\ GrepPhases /\ GrepCounts

\* Matches in the first file of the agenda are added.
LEMMA MatchAdds ==
  ASSUME GrepTypeOK, agenda # <<>>, NEW S \in SUBSET DOMAIN LinesIn[Head(agenda)], Match(S)
  PROVE  /\ Head(agenda) \in Searched /\ Tail(agenda) \in Seq(Searched)
         /\ matches' \in Seq(Searched \X Nat)
         /\ \A g, i : Times(<<g, i>>, matches') =
                        Times(<<g, i>>, matches) + IF g = Head(agenda) /\ i \in S THEN 1 ELSE 0
<1>1. Head(agenda) \in Searched /\ Tail(agenda) \in Seq(Searched) /\ matches \in Seq(Searched \X Nat)
  BY HeadTailProperties DEF GrepTypeOK
<1>2. PICK ms \in MatchesAt(Head(agenda), S) : matches' = matches \o ms
  BY DEF Match
<1>3. /\ ms \in Seq(Searched \X Nat)
      /\ \A g, i : Times(<<g, i>>, ms) = IF g = Head(agenda) /\ i \in S THEN 1 ELSE 0
  BY <1>1, MatchesOnce
<1>4. matches' \in Seq(Searched \X Nat)
  BY <1>1, <1>2, <1>3
<1>5. \A g, i : Times(<<g, i>>, matches') = Times(<<g, i>>, matches) + Times(<<g, i>>, ms)
  BY <1>1, <1>2, <1>3, TimesConcat
<1> QED
  BY <1>1, <1>3, <1>4, <1>5

LEMMA GrepTypeStep ==
  ASSUME GrepInv, [GrepStep]_grepVars
  PROVE  GrepTypeOK' /\ GrepPhases'
<1> USE DEF GrepInv, GrepTypeOK, GrepPhases
<1>1. CASE UNCHANGED grepVars
  BY <1>1 DEF grepVars
<1>2. CASE StopGrep
  BY <1>2 DEF StopGrep
<1>3. CASE BeginGrep
  <2>1. CASE agenda' \in Orders(RgSelected)
    <3>1. agenda' \in Seq(RgSelected)
      BY <2>1, GrepAssumption, OrdersOnce
    <3>2. agenda' \in Seq(Searched)
      BY <3>1, GrepAssumption, SeqMonotonic
    <3> QED
      BY <1>3, <3>2 DEF BeginGrep
  <2> QED
    BY <1>3, <2>1, GrepAssumption DEF BeginGrep
<1>4. CASE RgPrints \/ GoScans
  <2>1. /\ agenda # <<>> /\ agenda' = Tail(agenda) /\ Match(HitsOf(Head(agenda)))
        /\ UNCHANGED <<grep, grepStop, rg, skipped, found>> /\ grep = "search"
    BY <1>4 DEF RgPrints, GoScans
  <2>2. Head(agenda) \in Searched
    BY <2>1, HeadTailProperties
  <2>3. HitsOf(Head(agenda)) \in SUBSET DOMAIN LinesIn[Head(agenda)]
    BY <2>2, Finite
  <2> QED
    BY <2>1, <2>3, MatchAdds
<1>5. CASE RgEnds
  BY <1>5 DEF RgEnds
<1>6. CASE RgGivesUp
  <2>1. /\ agenda # <<>> /\ agenda' = Tail(agenda) /\ skipped' = skipped \cup {Head(agenda)}
        /\ UNCHANGED <<grep, grepStop, rg, found>> /\ grep = "search"
    BY <1>6 DEF RgGivesUp
  <2>2. Head(agenda) \in Searched
    BY <2>1, HeadTailProperties
  <2>3. PICK n \in 0..Len(LinesIn[Head(agenda)]) : Match(HitsOf(Head(agenda)) \cap (1..n))
    BY <1>6 DEF RgGivesUp
  <2>4. HitsOf(Head(agenda)) \cap (1..n) \in SUBSET DOMAIN LinesIn[Head(agenda)]
    BY <2>2, Finite
  <2> QED
    BY <2>1, <2>2, <2>3, <2>4, MatchAdds
<1>7. CASE GoSkips
  <2>1. Head(agenda) \in Searched /\ Tail(agenda) \in Seq(Searched)
    BY <1>7, HeadTailProperties DEF GoSkips
  <2> QED
    BY <1>7, <2>1 DEF GoSkips
<1>8. CASE GoEnds
  BY <1>8 DEF GoEnds
<1>9. CASE ReturnMatches
  <2>1. Len(matches) * LineLength \in Nat
    BY LenProperties, OutputAssumption
  <2>2. found' \in Replies
    BY <1>9, <2>1, OutputReplies DEF ReturnMatches
  <2> QED
    BY <1>9, <2>2 DEF ReturnMatches
<1> QED
  BY <1>1, <1>2, <1>3, <1>4, <1>5, <1>6, <1>7, <1>8, <1>9 DEF GrepStep

LEMMA GrepCountsStep ==
  ASSUME GrepInv, [GrepStep]_grepVars
  PROVE  GrepCounts'
<1> SUFFICES ASSUME grep' # "begin", NEW f \in Searched, NEW i \in DOMAIN LinesIn[f]
             PROVE  LET n   == Times(<<f, i>>, matches')
                        yet == Times(f, agenda')
                    IN /\ i \notin HitsOf(f)' => n = 0
                       /\ n + yet <= Named(f)'
                       /\ f \notin skipped' /\ i \in HitsOf(f)' => n + yet = Named(f)'
  BY DEF GrepCounts
<1> DEFINE n == Times(<<f, i>>, matches)
           m == Times(<<f, i>>, matches')
           yet == Times(f, agenda)
           named == Named(f)
<1>0. n \in Nat /\ yet \in Nat /\ named \in Nat
  BY TimesIsNat, GrepAssumption DEF GrepInv, GrepTypeOK, Named
<1>1. agenda # <<>> => yet = (IF f = Head(agenda) THEN 1 ELSE 0) + Times(f, Tail(agenda))
  BY TimesHeadTail DEF GrepInv, GrepTypeOK
<1>2. agenda # <<>> => Head(agenda) \in Searched /\ Times(f, Tail(agenda)) \in Nat
  BY HeadTailProperties, TimesIsNat DEF GrepInv, GrepTypeOK
<1>3. ASSUME agenda # <<>>, NEW S \in SUBSET HitsOf(Head(agenda)), Match(S)
      PROVE  m = n + (IF f = Head(agenda) /\ i \in S THEN 1 ELSE 0)
  <2>1. S \in SUBSET DOMAIN LinesIn[Head(agenda)]
    BY <1>2, <1>3, Finite
  <2> QED
    BY <1>3, <2>1, MatchAdds DEF GrepInv
<1>4. grep # "begin" =>
         /\ i \notin HitsOf(f) => n = 0
         /\ n + yet <= named
         /\ f \notin skipped /\ i \in HitsOf(f) => n + yet = named
  BY DEF GrepInv, GrepCounts
<1>5. (rg = "go" <=> rg' = "go") => HitsOf(f)' = HitsOf(f) /\ Named(f)' = named
  BY DEF HitsOf, Named
<1> HIDE DEF n, m, yet, named
<1>6. CASE UNCHANGED grepVars
  BY <1>4, <1>5, <1>6 DEF grepVars, n, yet
<1>7. CASE BeginGrep
  <2>1. m = 0 /\ skipped' = {}
    <3>1. matches' = <<>> /\ skipped' = {}
      BY <1>7 DEF BeginGrep, GrepInv, GrepPhases
    <3>2. Times(<<f, i>>, <<>>) = 0
      <4>1. {j \in DOMAIN <<>> : <<>>[j] = <<f, i>>} = {}
        OBVIOUS
      <4> QED
        BY <4>1, FS_EmptySet DEF Times
    <3> QED
      BY <3>1, <3>2 DEF m
  <2>2. Times(f, agenda') \in Nat /\ Times(f, agenda') = Named(f)'
    <3>1. CASE rg' = "running" /\ agenda' \in Orders(RgSelected)
      BY <3>1, GrepAssumption, OrdersOnce DEF Named
    <3>2. CASE rg' = "go" /\ agenda' = Globbed
      BY <3>2, GrepAssumption, TimesIsNat DEF Named
    <3> QED
      BY <1>7, <3>1, <3>2 DEF BeginGrep
  <2> QED
    BY <2>1, <2>2 DEF m
<1>8. CASE RgPrints \/ GoScans
  <2>1. /\ agenda # <<>> /\ UNCHANGED <<rg, skipped>> /\ grep = "search"
        /\ agenda' = Tail(agenda) /\ Match(HitsOf(Head(agenda)))
    BY <1>8 DEF RgPrints, GoScans
  <2>2. m = n + (IF f = Head(agenda) /\ i \in HitsOf(Head(agenda)) THEN 1 ELSE 0)
    BY <1>3, <2>1
  <2> QED
    BY <1>0, <1>1, <1>2, <1>4, <1>5, <2>1, <2>2 DEF m
<1>9. CASE RgGivesUp
  <2>1. /\ agenda # <<>> /\ UNCHANGED rg /\ grep = "search"
        /\ agenda' = Tail(agenda) /\ skipped' = skipped \cup {Head(agenda)}
    BY <1>9 DEF RgGivesUp
  <2>2. PICK k : Match(HitsOf(Head(agenda)) \cap (1..k))
    BY <1>9 DEF RgGivesUp
  <2>3. m = n + (IF f = Head(agenda) /\ i \in HitsOf(Head(agenda)) \cap (1..k) THEN 1 ELSE 0)
    BY <1>3, <2>1, <2>2
  <2> QED
    BY <1>0, <1>1, <1>2, <1>4, <1>5, <2>1, <2>3 DEF m
<1>10. CASE GoSkips
  <2>1. /\ agenda # <<>> /\ UNCHANGED <<rg, matches>> /\ grep = "search"
        /\ agenda' = Tail(agenda) /\ skipped' = skipped \cup {Head(agenda)}
    BY <1>10 DEF GoSkips
  <2> QED
    BY <1>0, <1>1, <1>2, <1>4, <1>5, <2>1 DEF n
<1>11. CASE StopGrep \/ RgEnds \/ GoEnds \/ ReturnMatches
  <2>1. UNCHANGED <<skipped, matches, agenda>> /\ grep # "begin" /\ (rg = "go" <=> rg' = "go")
    BY <1>11 DEF StopGrep, RgEnds, GoEnds, ReturnMatches, GrepInv, GrepPhases
  <2> QED
    BY <1>4, <1>5, <2>1 DEF n, yet
<1> QED
  BY <1>6, <1>7, <1>8, <1>9, <1>10, <1>11 DEF GrepStep

LEMMA GrepInitInv == GrepInit => GrepInv
<1> SUFFICES ASSUME GrepInit PROVE GrepInv
  OBVIOUS
<1>1. found \in Replies
  BY OutputReplies DEF GrepInit
<1>2. GrepTypeOK
  <2>1. agenda \in Seq(Searched) /\ matches \in Seq(Searched \X Nat)
    BY EmptySeq DEF GrepInit
  <2> QED
    BY <1>1, <2>1 DEF GrepInit, GrepTypeOK
<1> QED
  BY <1>2 DEF GrepInit, GrepInv, GrepPhases, GrepCounts

LEMMA GrepInvComplete == GrepInv => GrepIsComplete
<1> SUFFICES ASSUME GrepInv, grep = "done", NEW f \in Searched, NEW i \in DOMAIN LinesIn[f]
             PROVE  LET n == Times(<<f, i>>, matches)
                    IN /\ rg \in {"go", "ended"} /\ f \notin skipped /\ i \in HitsOf(f) => n = Named(f)
                       /\ n <= IF i \in HitsOf(f) THEN Named(f) ELSE 0
  BY DEF GrepIsComplete
<1>1. rg \in {"go", "ended"} => Times(f, agenda) = 0
  BY TimesZero DEF GrepInv, GrepPhases, GrepTypeOK
<1>2. Times(<<f, i>>, matches) \in Nat /\ Times(f, agenda) \in Nat /\ Named(f) \in Nat
  BY TimesIsNat, GrepAssumption DEF GrepInv, GrepTypeOK, Named
<1> QED
  BY <1>1, <1>2 DEF GrepInv, GrepCounts

LEMMA GrepInvariant == Spec => []GrepInv
<1>1. Init => GrepInv
  BY GrepInitInv DEF Init
<1>2. GrepInv /\ [Next]_workspaceVars => GrepInv'
  BY GrepSteps, GrepTypeStep, GrepCountsStep DEF GrepInv
<1> QED
  BY <1>1, <1>2, PTL DEF Spec

\* Grep reports what it has to, and as often, for any files, any include
\* patterns, whatever files rg selects, and however files are given up and the
\* search ends (GrepIsComplete).
THEOREM GrepsAreComplete == Spec => []GrepIsComplete
BY GrepInvariant, GrepInvComplete, PTL
-----------------------------------------------------------------------------
(* The list operation.                                                     *)

\* The elements of a sequence, and that none is in it twice.
Elements(s) == {s[i] : i \in DOMAIN s}
Distinct(s) == \A i, j \in DOMAIN s : s[i] = s[j] => i = j

LEMMA ElementsOfTail ==
  ASSUME NEW T, NEW s \in Seq(T), s # <<>>, Distinct(s)
  PROVE  /\ Head(s) \in T /\ Tail(s) \in Seq(T) /\ Distinct(Tail(s)) /\ Head(s) \in Elements(s)
         /\ Elements(Tail(s)) = Elements(s) \ {Head(s)}
<1>1. /\ Tail(s) \in Seq(T) /\ Len(Tail(s)) = Len(s) - 1 /\ Len(s) \in Nat \ {0} /\ Head(s) \in T
      /\ \A i \in 1..Len(Tail(s)) : Tail(s)[i] = s[i + 1]
  BY HeadTailProperties, EmptySeq
<1>2. DOMAIN s = 1..Len(s) /\ DOMAIN Tail(s) = 1..(Len(s) - 1) /\ Head(s) = s[1]
  BY <1>1, LenProperties
<1> DEFINE t == Tail(s)
           n == Len(s)
<1>3. /\ n \in Nat \ {0} /\ DOMAIN s = 1..n /\ DOMAIN t = 1..(n - 1)
      /\ \A i \in 1..(n - 1) : t[i] = s[i + 1]
  BY <1>1, <1>2
<1> HIDE DEF t, n
<1>4. Distinct(t)
  BY <1>3 DEF Distinct
<1>5. ASSUME NEW i \in 1..(n - 1) PROVE t[i] \in Elements(s) /\ t[i] # s[1]
  <2>1. i + 1 \in 1..n /\ i + 1 # 1 /\ 1 \in 1..n /\ t[i] = s[i + 1]
    BY <1>3
  <2> QED
    BY <1>3, <2>1 DEF Distinct, Elements
<1>6. ASSUME NEW i \in 1..n, s[i] # s[1] PROVE s[i] \in Elements(t)
  <2>1. i - 1 \in 1..(n - 1) /\ t[i - 1] = s[i]
    BY <1>3, <1>6
  <2> QED
    BY <1>3, <2>1 DEF Elements
<1>7. Elements(t) = Elements(s) \ {s[1]}
  <2>1. \A x \in Elements(t) : x \in Elements(s) /\ x # s[1]
    BY <1>3, <1>5 DEF Elements
  <2>2. \A x \in Elements(s) : x = s[1] \/ x \in Elements(t)
    BY <1>3, <1>6 DEF Elements
  <2> QED
    BY <2>1, <2>2
<1>8. s[1] \in Elements(s)
  BY <1>3 DEF Elements
<1> QED
  BY <1>1, <1>2, <1>4, <1>7, <1>8 DEF t

LEMMA ElementsOfConcat ==
  ASSUME NEW T, NEW s \in Seq(T), NEW t \in Seq(T)
  PROVE  /\ s \o t \in Seq(T) /\ Elements(s \o t) = Elements(s) \cup Elements(t)
         /\ Distinct(s) /\ Distinct(t) /\ Elements(s) \cap Elements(t) = {} => Distinct(s \o t)
<1> DEFINE u == s \o t
           m == Len(s)
           n == Len(t)
<1>1. /\ m \in Nat /\ n \in Nat /\ DOMAIN s = 1..m /\ DOMAIN t = 1..n /\ DOMAIN u = 1..(m + n)
      /\ \A i \in 1..(m + n) : u[i] = IF i <= m THEN s[i] ELSE t[i - m]
      /\ u \in Seq(T)
  BY ConcatProperties, LenProperties
<1> HIDE DEF u, m, n
<1>2. \A i \in 1..(m + n) : IF i <= m THEN i \in 1..m ELSE i - m \in 1..n
  BY <1>1
<1>3. Elements(u) \subseteq Elements(s) \cup Elements(t)
  BY <1>1, <1>2 DEF Elements
<1>4. Elements(s) \subseteq Elements(u)
  BY <1>1 DEF Elements
<1>5. ASSUME NEW i \in 1..n PROVE t[i] \in Elements(u)
  <2>1. m + i \in 1..(m + n) /\ u[m + i] = t[i]
    BY <1>1
  <2> QED
    BY <1>1, <2>1 DEF Elements
<1>6. ASSUME Distinct(s), Distinct(t), Elements(s) \cap Elements(t) = {},
             NEW i \in 1..(m + n), NEW j \in 1..(m + n), u[i] = u[j]
      PROVE  i = j
  <2>1. CASE i <= m /\ j <= m
    BY <1>1, <1>2, <1>6, <2>1 DEF Distinct
  <2>2. CASE ~(i <= m) /\ ~(j <= m)
    <3>1. t[i - m] = t[j - m] /\ i - m \in 1..n /\ j - m \in 1..n
      BY <1>1, <1>6, <2>2
    <3>2. i - m = j - m
      BY <1>1, <1>6, <3>1 DEF Distinct
    <3> QED
      BY <1>1, <3>2
  <2>3. \A k, l \in 1..(m + n) : k <= m /\ ~(l <= m) => u[k] \in Elements(s) /\ u[l] \in Elements(t)
    BY <1>1, <1>2 DEF Elements
  <2>4. ~(i <= m /\ ~(j <= m)) /\ ~(j <= m /\ ~(i <= m))
    BY <1>6, <2>3
  <2> QED
    BY <2>1, <2>2, <2>4
<1>7. Elements(u) = Elements(s) \cup Elements(t)
  BY <1>1, <1>3, <1>4, <1>5 DEF Elements
<1>8. Distinct(s) /\ Distinct(t) /\ Elements(s) \cap Elements(t) = {} => Distinct(u)
  BY <1>1, <1>6 DEF Distinct
<1> QED
  BY <1>1, <1>7, <1>8 DEF u

LEMMA ElementsOfAppend ==
  ASSUME NEW T, NEW s \in Seq(T), NEW e \in T
  PROVE  /\ Append(s, e) \in Seq(T) /\ Elements(Append(s, e)) = Elements(s) \cup {e}
         /\ Distinct(s) /\ e \notin Elements(s) => Distinct(Append(s, e))
<1> DEFINE one == <<e>>
<1>1. one \in Seq(T) /\ Elements(one) = {e} /\ Distinct(one)
  BY DEF Elements, Distinct
<1>2. Append(s, e) = s \o one
  BY AppendIsConcat
<1> HIDE DEF one
<1> QED
  BY <1>1, <1>2, ElementsOfConcat

LEMMA NoElements == Elements(<<>>) = {} /\ Distinct(<<>>)
BY DEF Elements, Distinct

\* Names in order are each of the names once.
LEMMA OrderedOnce ==
  ASSUME NEW S \in SUBSET Paths, NEW names \in InOrder(S)
  PROVE  names \in Seq(Paths) /\ Elements(names) = S /\ Distinct(names)
<1>1. IsFiniteSet(S) /\ Cardinality(S) \in Nat
  BY PathsAssumption, FS_Subset, FS_CardinalityType
<1>2. names \in [1..Cardinality(S) -> S]
  BY DEF InOrder
<1>3. Distinct(names)
  <2> SUFFICES ASSUME NEW i \in DOMAIN names, NEW j \in DOMAIN names, names[i] = names[j], i # j
               PROVE  FALSE
    BY DEF Distinct
  <2>1. i \in Nat /\ j \in Nat
    BY <1>2
  <2>2. names[i] \in Paths
    BY <1>2
  <2>3. Rank[names[i]] \in Nat
    BY <2>2, PathsAssumption
  <2>4. i < j \/ j < i
    BY <2>1
  <2>5. Rank[names[i]] < Rank[names[i]]
    BY <2>4 DEF InOrder
  <2> QED
    BY <2>3, <2>5
<1>4. names \in Injection(1..Cardinality(S), S)
  BY <1>2, <1>3 DEF Injection, IsInjective, Distinct
<1>5. Cardinality(1..Cardinality(S)) = Cardinality(S)
  BY <1>1, FS_Interval
<1>6. names \in Surjection(1..Cardinality(S), S)
  BY <1>1, <1>4, <1>5, FS_Injection
<1>7. Elements(names) = S
  BY <1>2, <1>6 DEF Surjection, Elements
<1>8. names \in [1..Cardinality(S) -> Paths]
  BY <1>2
<1> QED
  BY <1>1, <1>3, <1>7, <1>8

\* Above is what is above in the tree: the path with the fewest paths above it
\* for which this is not so would not be the first, since its parent has fewer.
LEMMA TreeOrder ==
  \A p \in Paths : \A q \in Above[p] :
    /\ q \in Paths /\ q \in Folders /\ q # p /\ Above[q] \subseteq Above[p]
    /\ \E c \in {p} \cup Above[p] : c \in Below(q)
<1> DEFINE Sound(p) == \A q \in Above[p] :
             /\ Above[q] \subseteq Above[p]
             /\ \E c \in {p} \cup Above[p] : c \in Below(q)
           Bad == {Above[p] : p \in {r \in Paths : ~Sound(r)}}
<1>1. IsFiniteSet(Folders) /\ FiniteSubsetsOf(Folders) = SUBSET Folders
  BY PathsAssumption, FS_Subset, FS_FiniteSubsetsOfFinite
<1>2. Bad \subseteq FiniteSubsetsOf(Folders)
  BY <1>1, TreeAssumption
<1>3. ASSUME Bad # {} PROVE FALSE
  <2>1. PICK A \in Bad : \A B \in Bad : <<B, A>> \notin StrictSubsetOrdering(Folders)
    <3> HIDE DEF Bad
    <3> QED
      BY <1>2, <1>3, WFMin, FS_StrictSubsetOrderingWellFounded
  <2>2. PICK p \in Paths : ~Sound(p) /\ A = Above[p]
    BY <2>1
  <2> DEFINE parent == ParentOf[p]
  <2>3. p # Top
    BY <2>2, TreeAssumption
  <2>4. parent \in Folders /\ parent \in Paths /\ Above[p] = {parent} \cup Above[parent] /\ p \in Below(parent)
    BY <2>3, TreeAssumption, PathsAssumption DEF Below
  <2>5. parent \notin Above[parent]
    BY <2>4, TreeAssumption
  <2>6. <<Above[parent], A>> \in StrictSubsetOrdering(Folders)
    <3>1. Above[parent] \subseteq A /\ Above[parent] # A /\ A \subseteq Folders
      BY <2>2, <2>4, <2>5, TreeAssumption
    <3> QED
      BY <3>1 DEF StrictSubsetOrdering
  <2>7. Sound(parent)
    BY <2>1, <2>4, <2>6
  <2>8. ASSUME NEW q \in Above[p]
        PROVE  Above[q] \subseteq Above[p] /\ \E c \in {p} \cup Above[p] : c \in Below(q)
    <3>1. CASE q = parent
      BY <2>4, <3>1
    <3>2. CASE q \in Above[parent]
      <4>1. Above[q] \subseteq Above[parent] /\ \E c \in {parent} \cup Above[parent] : c \in Below(q)
        BY <2>7, <3>2
      <4> QED
        BY <2>4, <4>1
    <3> QED
      BY <2>4, <2>8, <3>1, <3>2
  <2> QED
    BY <2>2, <2>8
<1>4. \A p \in Paths : Sound(p)
  BY <1>3
<1>5. \A p \in Paths : \A q \in Above[p] : q \in Folders /\ q \in Paths /\ q # p
  BY TreeAssumption, PathsAssumption
<1> QED
  BY <1>4, <1>5

\* Paths below p: what is above them is p and what is above p.
LEMMA BelowIs ==
  \A p \in Paths : \A c \in Below(p) :
    c \in Paths /\ c # Top /\ Above[c] = {p} \cup Above[p] /\ c \notin Above[c]
BY TreeAssumption DEF Below

\* The directories above what is there are there.
Rooted == Top \in present /\ \A p \in present : Above[p] \subseteq present

\* No path is to be visited twice, or to be visited and in the list already, and
\* nothing below a path that is to be visited is either.
Untouched ==
  /\ Distinct(todo) /\ Distinct(entries) /\ Elements(todo) \cap Elements(entries) = {}
  /\ \A p \in Elements(todo), q \in Elements(todo) \cup Elements(entries) : p \notin Above[q]

\* The walk has come to path p through directories it descends into.
Reached(p) == p \in present \cup changed /\ \A q \in Above[p] : Descends(q)
Walked ==
  /\ \A p \in Elements(todo) : Reached(p)
  /\ \A p \in Elements(entries) : Reached(p) /\ Listed(p)

\* What is missing in the list is still to be visited, or below what is.
Covered == \A p \in present \ changed : Wanted(p) =>
  p \in Elements(entries) \/ \E q \in {p} \cup Above[p] : q \in Elements(todo)

WalkInv ==
  /\ ListTypeOK /\ Rooted
  /\ list = "begin" => changed = {} /\ todo = <<>> /\ entries = <<>>
  /\ visiting => todo # <<>>
  /\ list \in {"walk", "ok"} => Untouched /\ Walked /\ Covered
  /\ list = "ok" => todo = <<>>

LEMMA ListInitInv == ListInit => WalkInv
<1> SUFFICES ASSUME ListInit PROVE WalkInv
  OBVIOUS
<1>1. ListTypeOK
  <2>1. todo \in Seq(Paths) /\ entries \in Seq(Paths)
    BY EmptySeq DEF ListInit
  <2>2. options \in Options
    BY DEF ListInit, Options
  <2> QED
    BY <2>1, <2>2 DEF ListInit, ListTypeOK
<1>2. Rooted
  BY PathsAssumption, TreeAssumption DEF ListInit, Rooted
<1> QED
  BY <1>1, <1>2 DEF ListInit, WalkInv

\* The paths come and go.
LEMMA ChangeKeeps ==
  ASSUME WalkInv, NEW x \in Paths, Change(x)
  PROVE  WalkInv'
<1>1. /\ list = "walk" /\ x # Top /\ changed' = changed \cup {x}
      /\ UNCHANGED <<list, options, todo, visiting, entries>>
      /\ \/ x \in present /\ Below(x) \cap present = {} /\ present' = present \ {x}
         \/ x \notin present /\ ParentOf[x] \in present /\ present' = present \cup {x}
  BY DEF Change
<1>2. present \subseteq Paths /\ changed \subseteq Paths
  BY DEF WalkInv, ListTypeOK
<1>3. ListTypeOK'
  BY <1>1 DEF WalkInv, ListTypeOK
<1>4. Rooted'
  <2>1. CASE x \in present /\ Below(x) \cap present = {} /\ present' = present \ {x}
    <3> SUFFICES ASSUME NEW p \in present, x \in Above[p] PROVE FALSE
      BY <1>1, <2>1 DEF WalkInv, Rooted
    <3>1. \E c \in {p} \cup Above[p] : c \in Below(x)
      BY <1>2, TreeOrder
    <3> QED
      BY <2>1, <3>1 DEF WalkInv, Rooted
  <2>2. CASE x \notin present /\ ParentOf[x] \in present /\ present' = present \cup {x}
    <3>1. Above[x] = {ParentOf[x]} \cup Above[ParentOf[x]]
      BY <1>1, TreeAssumption
    <3>2. Above[x] \subseteq present
      BY <2>2, <3>1 DEF WalkInv, Rooted
    <3> QED
      BY <2>2, <3>2 DEF WalkInv, Rooted
  <2> QED
    BY <1>1, <2>1, <2>2
<1>5. present \cup changed \subseteq (present \cup changed)' /\ (present \ changed)' \subseteq present \ changed
  BY <1>1
<1>6. /\ \A p : Reached(p) => Reached(p)'
      /\ \A p : Listed(p)' = Listed(p) /\ Wanted(p)' = Wanted(p)
  BY <1>1, <1>5 DEF Reached, Descends, Listed, Ignored, Wanted
<1>7. Untouched' /\ Walked' /\ Covered'
  BY <1>1, <1>5, <1>6 DEF WalkInv, Untouched, Walked, Covered, Elements, Distinct
<1> QED
  BY <1>1, <1>3, <1>4, <1>7 DEF WalkInv

\* The walk begins at the top.
LEMMA BeginKeeps ==
  ASSUME WalkInv, BeginWalk
  PROVE  WalkInv'
<1>1. /\ list = "begin" /\ options' \in Options /\ UNCHANGED <<present, changed, visiting, entries>>
      /\ changed = {} /\ entries = <<>>
      /\ (list' = "error" /\ todo' = todo) \/ (list' = "walk" /\ todo' = <<Top>>)
  BY DEF BeginWalk, WalkInv
<1>2. Top \in Paths /\ Above[Top] = {}
  BY PathsAssumption, TreeAssumption
<1>3. ListTypeOK' /\ Rooted'
  <2>1. todo \in Seq(Paths) /\ <<Top>> \in Seq(Paths)
    BY <1>2 DEF WalkInv, ListTypeOK
  <2> QED
    BY <1>1, <2>1 DEF WalkInv, ListTypeOK, Rooted
<1>4. CASE list' = "walk" /\ todo' = <<Top>>
  <2>1. Elements(todo') = {Top} /\ Distinct(todo') /\ todo' # <<>>
    BY <1>4 DEF Elements, Distinct
  <2>2. Elements(entries') = {} /\ Distinct(entries')
    BY <1>1, NoElements
  <2>3. \A p \in Paths : p = Top \/ Top \in Above[p]
    BY TreeAssumption
  <2>4. Untouched'
    BY <1>2, <2>1, <2>2 DEF Untouched
  <2>5. Walked'
    BY <1>1, <1>2, <2>1, <2>2 DEF Walked, Reached, WalkInv, Rooted
  <2>6. Covered'
    BY <1>1, <2>1, <2>3 DEF Covered, WalkInv, ListTypeOK
  <2> QED
    BY <1>1, <1>3, <1>4, <2>1, <2>4, <2>5, <2>6 DEF WalkInv
<1>5. CASE list' = "error" /\ todo' = todo
  BY <1>1, <1>3, <1>5 DEF WalkInv
<1> QED
  BY <1>1, <1>4, <1>5

\* What is next leaves the paths that are still to be visited.
LEMMA NextIs ==
  ASSUME WalkInv, list = "walk", todo # <<>>
  PROVE  LET p == Head(todo)
         IN /\ p \in Paths /\ p \in Elements(todo) /\ Reached(p)
            /\ p \notin Elements(entries) /\ Tail(todo) \in Seq(Paths) /\ Distinct(Tail(todo))
            /\ Elements(Tail(todo)) = Elements(todo) \ {p}
            /\ \A q \in Elements(todo) \cup Elements(entries) : p \notin Above[q]
<1>1. todo \in Seq(Paths) /\ Distinct(todo)
  BY DEF WalkInv, ListTypeOK, Untouched
<1> QED
  BY <1>1, ElementsOfTail DEF WalkInv, Untouched, Walked

\* The entries with the path that has been visited, if it is listed.
LEMMA EntriesWith ==
  ASSUME WalkInv, list = "walk", todo # <<>>,
         entries' = IF Listed(Head(todo)) THEN Append(entries, Head(todo)) ELSE entries
  PROVE  /\ entries' \in Seq(Paths) /\ Distinct(entries')
         /\ Elements(entries') = Elements(entries) \cup (IF Listed(Head(todo)) THEN {Head(todo)} ELSE {})
<1>1. entries \in Seq(Paths) /\ Distinct(entries) /\ Head(todo) \in Paths /\ Head(todo) \notin Elements(entries)
  BY NextIs DEF WalkInv, ListTypeOK, Untouched
<1> QED
  BY <1>1, ElementsOfAppend

\* If the path that is visited and what is above it are not ignored, it is listed.
LEMMA WantedIsListed ==
  ASSUME NEW p, Wanted(p)
  PROVE  Listed(p)
BY DEF Wanted, Listed, Ignored

LEMMA VisitFileKeeps ==
  ASSUME WalkInv, VisitFile
  PROVE  WalkInv'
<1> DEFINE t == Head(todo)
<1>1. /\ list = "walk" /\ todo # <<>> /\ t \notin Folders
      /\ entries' = IF Listed(t) THEN Append(entries, t) ELSE entries
      /\ todo' = Tail(todo) /\ ~visiting' /\ UNCHANGED <<list, options, present, changed>>
  BY DEF VisitFile, WalkInv
<1>2. /\ t \in Paths /\ t \in Elements(todo) /\ Reached(t) /\ t \notin Elements(entries)
      /\ todo' \in Seq(Paths) /\ Distinct(todo') /\ Elements(todo') = Elements(todo) \ {t}
      /\ \A q \in Elements(todo) \cup Elements(entries) : t \notin Above[q]
  BY <1>1, NextIs
<1>3. /\ entries' \in Seq(Paths) /\ Distinct(entries')
      /\ Elements(entries') = Elements(entries) \cup (IF Listed(t) THEN {t} ELSE {})
  BY <1>1, EntriesWith
<1> HIDE DEF t
<1>4. \A p : Reached(p)' = Reached(p) /\ Listed(p)' = Listed(p) /\ Wanted(p)' = Wanted(p)
  BY <1>1 DEF Reached, Descends, Listed, Ignored, Wanted
<1>5. Untouched' /\ Walked'
  BY <1>1, <1>2, <1>3, <1>4 DEF WalkInv, Untouched, Walked
<1>6. Covered'
  <2> SUFFICES ASSUME NEW p \in present \ changed, Wanted(p)
               PROVE  p \in Elements(entries') \/ \E q \in {p} \cup Above[p] : q \in Elements(todo')
    BY <1>1, <1>4 DEF Covered
  <2>1. p \in Elements(entries) \/ \E q \in {p} \cup Above[p] : q \in Elements(todo)
    BY <1>1 DEF WalkInv, Covered
  <2>2. t \notin Above[p]
    BY <1>1, TreeOrder DEF WalkInv, ListTypeOK
  <2>3. p = t => Listed(t)
    BY WantedIsListed
  <2> QED
    BY <1>2, <1>3, <2>1, <2>2, <2>3
<1>7. ListTypeOK' /\ Rooted'
  BY <1>1, <1>2, <1>3 DEF WalkInv, ListTypeOK, Rooted, VisitFile
<1> QED
  BY <1>1, <1>5, <1>6, <1>7 DEF WalkInv

LEMMA VisitDirKeeps ==
  ASSUME WalkInv, VisitDir
  PROVE  WalkInv'
<1> DEFINE t == Head(todo)
           S == IF Descends(t) THEN Below(t) \cap present ELSE {}
<1>1. /\ list = "walk" /\ todo # <<>> /\ t \in Folders /\ UNCHANGED <<options, present, changed>>
      /\ \/ list' = "error" /\ UNCHANGED <<todo, visiting, entries>>
         \/ /\ entries' = IF Listed(t) THEN Append(entries, t) ELSE entries
            /\ \E names \in InOrder(S) : todo' = names \o Tail(todo)
            /\ visiting' = FALSE /\ list' = list
  BY DEF VisitDir, WalkInv
<1>2. /\ t \in Paths /\ t \in Elements(todo) /\ Reached(t) /\ t \notin Elements(entries)
      /\ Tail(todo) \in Seq(Paths) /\ Distinct(Tail(todo)) /\ Elements(Tail(todo)) = Elements(todo) \ {t}
      /\ \A q \in Elements(todo) \cup Elements(entries) : t \notin Above[q]
  BY <1>1, NextIs
<1>3. /\ present \subseteq Paths /\ S \subseteq Paths
      /\ \A c \in S : c \in present /\ Above[c] = {t} \cup Above[t] /\ c \notin Above[c] /\ Descends(t)
  BY <1>2, BelowIs DEF WalkInv, ListTypeOK
<1>4. /\ Elements(todo) \subseteq Paths /\ Elements(entries) \subseteq Paths
  BY DEF WalkInv, ListTypeOK, Elements
<1>5. CASE list' = "error" /\ UNCHANGED <<todo, visiting, entries>>
  BY <1>1, <1>5 DEF WalkInv, ListTypeOK, Rooted
<1>6. ASSUME entries' = IF Listed(t) THEN Append(entries, t) ELSE entries,
             NEW names \in InOrder(S), todo' = names \o Tail(todo), visiting' = FALSE, list' = list
      PROVE  WalkInv'
  <2>1. /\ entries' \in Seq(Paths) /\ Distinct(entries')
        /\ Elements(entries') = Elements(entries) \cup (IF Listed(t) THEN {t} ELSE {})
    BY <1>1, <1>6, EntriesWith
  <2>2. names \in Seq(Paths) /\ Elements(names) = S /\ Distinct(names)
    BY <1>3, <1>6, OrderedOnce
  <2> DEFINE rest == Tail(todo)
  <2>3. /\ rest \in Seq(Paths) /\ Distinct(rest) /\ Elements(rest) = Elements(todo) \ {t}
        /\ todo' = names \o rest
    BY <1>2, <1>6
  <2> HIDE DEF t, S, rest
  <2>4. S \cap (Elements(todo) \cup Elements(entries)) = {}
    BY <1>2, <1>3
  <2>5. todo' \in Seq(Paths) /\ Elements(todo') = S \cup (Elements(todo) \ {t}) /\ Distinct(todo')
    BY <2>2, <2>3, <2>4, ElementsOfConcat
  <2>6. \A p : Reached(p)' = Reached(p) /\ Listed(p)' = Listed(p) /\ Wanted(p)' = Wanted(p)
    BY <1>1 DEF Reached, Descends, Listed, Ignored, Wanted
  <2>7. Untouched'
    <3>1. Elements(todo') \cap Elements(entries') = {}
      BY <1>1, <1>2, <1>3, <2>1, <2>4, <2>5 DEF WalkInv, Untouched
    <3>2. ASSUME NEW c \in S, NEW q \in Elements(todo') \cup Elements(entries') PROVE c \notin Above[q]
      <4>1. CASE q \in S \/ q = t
        BY <1>3, <3>2, <4>1
      <4>2. CASE q \in Elements(todo) \cup Elements(entries)
        <5>1. t \notin Above[q] /\ q \in Paths
          BY <1>2, <1>4, <4>2
        <5>2. c \in Above[q] => t \in Above[q]
          BY <1>3, <3>2, <5>1, TreeOrder
        <5> QED
          BY <5>1, <5>2
      <4> QED
        BY <2>1, <2>5, <3>2, <4>1, <4>2
    <3>3. ASSUME NEW p \in Elements(todo) \ {t}, NEW q \in Elements(todo') \cup Elements(entries')
          PROVE  p \notin Above[q]
      BY <1>1, <1>2, <1>3, <2>1, <2>5, <3>3 DEF WalkInv, Untouched
    <3> QED
      BY <2>1, <2>5, <3>1, <3>2, <3>3 DEF Untouched
  <2>8. Walked'
    <3>1. \A c \in S : Reached(c)
      BY <1>2, <1>3 DEF Reached
    <3> QED
      BY <1>1, <1>2, <2>1, <2>5, <2>6, <3>1 DEF WalkInv, Walked
  <2>9. Covered'
    <3> SUFFICES ASSUME NEW p \in present \ changed, Wanted(p)
                 PROVE  p \in Elements(entries') \/ \E q \in {p} \cup Above[p] : q \in Elements(todo')
      BY <1>1, <2>6 DEF Covered
    <3>1. p \in Elements(entries) \/ \E q \in {p} \cup Above[p] : q \in Elements(todo)
      BY <1>1 DEF WalkInv, Covered
    <3>2. p = t => Listed(t)
      BY WantedIsListed
    <3>3. ASSUME t \in Above[p] PROVE \E c \in {p} \cup Above[p] : c \in S
      <4>1. PICK c \in {p} \cup Above[p] : c \in Below(t)
        BY <1>3, <3>3, TreeOrder
      <4>2. c \in present
        BY <4>1 DEF WalkInv, Rooted
      <4>3. Descends(t)
        BY <3>3 DEF Wanted, Descends, Ignored
      <4> QED
        BY <4>1, <4>2, <4>3 DEF S
    <3> QED
      BY <2>1, <2>5, <3>1, <3>2, <3>3
  <2>10. ListTypeOK' /\ Rooted'
    BY <1>1, <1>6, <2>1, <2>5 DEF WalkInv, ListTypeOK, Rooted
  <2> QED
    BY <1>1, <1>6, <2>7, <2>8, <2>9, <2>10 DEF WalkInv
<1> QED
  BY <1>1, <1>5, <1>6

LEMMA WalkInvStep == WalkInv /\ [ListStep]_listVars => WalkInv'
<1> SUFFICES ASSUME WalkInv, [ListStep]_listVars PROVE WalkInv'
  OBVIOUS
<1>1. CASE UNCHANGED listVars
  <2>1. UNCHANGED <<list, options, present, changed, todo, visiting, entries>>
    BY <1>1 DEF listVars
  <2>2. ListTypeOK' /\ Rooted'
    BY <2>1 DEF WalkInv, ListTypeOK, Rooted
  <2>3. list \in {"walk", "ok"} => Untouched' /\ Walked' /\ Covered'
    BY <2>1 DEF WalkInv, Untouched, Walked, Covered, Reached, Descends, Listed, Wanted, Ignored,
      Elements, Distinct
  <2> QED
    BY <2>1, <2>2, <2>3 DEF WalkInv
<1>2. CASE LstatNext \/ WalkEnds
  <2>1. /\ UNCHANGED <<options, present, changed, todo, entries>> /\ list = "walk"
        /\ list' \in {"walk", "ok", "error"} /\ visiting' \in BOOLEAN
        /\ (visiting' => todo # <<>>) /\ (list' = "ok" => todo = <<>>)
    <3>1. CASE LstatNext
      BY <3>1 DEF LstatNext, WalkInv, ListTypeOK
    <3>2. CASE WalkEnds
      <4>1. visiting' = visiting /\ visiting \in BOOLEAN /\ (visiting => todo # <<>>)
        BY <3>2 DEF WalkEnds, WalkInv, ListTypeOK
      <4> QED
        BY <3>2, <4>1 DEF WalkEnds
    <3> QED
      BY <1>2, <3>1, <3>2
  <2>2. ListTypeOK' /\ Rooted'
    BY <2>1 DEF WalkInv, ListTypeOK, Rooted
  <2>3. Untouched' /\ Walked' /\ Covered'
    BY <2>1 DEF WalkInv, Untouched, Walked, Covered, Reached, Descends, Listed, Wanted, Ignored,
      Elements, Distinct
  <2> QED
    BY <2>1, <2>2, <2>3 DEF WalkInv
<1> QED
  BY <1>1, <1>2, BeginKeeps, VisitFileKeeps, VisitDirKeeps, ChangeKeeps DEF ListStep

LEMMA WalkInvComplete == WalkInv => ListIsComplete
<1> SUFFICES ASSUME WalkInv, list = "ok" PROVE ListIsComplete
  BY DEF ListIsComplete
<1>1. Elements(todo) = {} /\ Walked /\ Covered /\ Distinct(entries)
  BY NoElements DEF WalkInv, Untouched
<1>2. \A p \in present \ changed : Wanted(p) => \E i \in DOMAIN entries : entries[i] = p
  BY <1>1 DEF Covered, Elements
<1>3. ASSUME NEW i \in DOMAIN entries PROVE Wanted(entries[i]) /\ entries[i] \in present \cup changed
  <2>1. PICK p : p = entries[i]
    OBVIOUS
  <2>2. Reached(p) /\ Listed(p)
    BY <1>1, <2>1 DEF Walked, Elements
  <2>3. Wanted(p)
    BY <2>2 DEF Reached, Listed, Wanted, Descends
  <2> QED
    BY <2>1, <2>2, <2>3 DEF Reached
<1> QED
  BY <1>1, <1>2, <1>3 DEF ListIsComplete, Distinct

LEMMA ListInvariant == Spec => []WalkInv
<1>1. Init => WalkInv
  BY ListInitInv DEF Init
<1>2. WalkInv /\ [Next]_workspaceVars => WalkInv'
  BY ListSteps, WalkInvStep
<1> QED
  BY <1>1, <1>2, PTL DEF Spec

\* A list that succeeds is complete, true and without duplicates, for any tree
\* and however it changes during the walk (ListIsComplete).
THEOREM ListsAreComplete == Spec => []ListIsComplete
BY ListInvariant, WalkInvComplete, PTL
-----------------------------------------------------------------------------
(* The types of the bash, the webfetch and the sync_skill operation.       *)

BashTypes ==
  /\ proc \in Exits \cup {"none", "running", "killed"} /\ holders \subseteq {"bash", "child"}
  /\ \A s \in Streams : written[s] <= MaxWritten
  /\ exitCode \in {-1, 0, 1, 124} /\ reply \in Replies

LEMMA BashTypesStep ==
  ASSUME BashInv, BashTypes, [BashEnvironment \/ BashOperation]_bashVars
  PROVE  BashTypes'
<1> USE DEF BashTypes
<1>0. NoReply \in Replies /\ ErrorReply \in Replies
  BY OutputReplies
<1>1. CASE UNCHANGED bashVars
  BY <1>1 DEF bashVars, procVars
<1>2. ASSUME NEW s \in Streams, NEW n \in 1..MaxWritten, Produce(s, n) PROVE BashTypes'
  BY <1>2 DEF Produce, BashInv, Streamed
<1>3. CASE Deadline \/ CancelTask
  BY <1>3 DEF Deadline, CancelTask, procVars
<1>4. CASE Fork \/ ChildEnds
  BY <1>4 DEF Fork, ChildEnds
<1>5. CASE BashExits
  BY <1>5 DEF BashExits
<1>6. CASE Refuse \/ Accept
  BY <1>0, <1>6 DEF Refuse, Accept, Return, procVars
<1>7. CASE StartOk
  BY <1>7 DEF StartOk
<1>8. CASE StartFails
  BY <1>0, <1>8 DEF StartFails, Conclude, Return, procVars
<1>9. CASE Kill
  BY <1>9 DEF Kill
<1>10. CASE Reap
  BY <1>10 DEF Reap, procVars
<1>11. ASSUME NEW s \in Streams, Copied(s) \/ CopyEnds(s) PROVE BashTypes'
  <2>1. UNCHANGED <<proc, holders, written, exitCode, reply>>
    BY <1>11 DEF Copied, CopyEnds, procVars
  <2> QED
    BY <2>1
<1>12. CASE RunReturns
  <2>1. UNCHANGED procVars /\ exitCode' \in {-1, 0, 1, 124, exitCode} /\ reply' \in {reply, ErrorReply}
    BY <1>12 DEF RunReturns, Conclude, Return
  <2> QED
    BY <1>0, <2>1 DEF procVars
<1>13. kept["stdout"] \in Nat
  BY BashAssumption DEF BashInv, Streamed
<1>14. ASSUME NEW b \in BOOLEAN, ReturnOutput(b) PROVE BashTypes'
  BY <1>13, <1>14, OutputReplies DEF ReturnOutput, Return, procVars
<1>15. CASE SaveOutput
  BY <1>13, <1>15, OutputReplies DEF SaveOutput, procVars
<1> QED
  BY <1>1, <1>2, <1>3, <1>4, <1>5, <1>6, <1>7, <1>8, <1>9, <1>10, <1>11, <1>12, <1>14, <1>15
  DEF BashEnvironment, BashOperation

LEMMA BashTypeCorrect == Spec => []BashTypeOK
<1>1. Init => BashTypes
  BY BashAssumption, OutputReplies DEF Init, BashInit, BashTypes
<1>2. BashInv /\ BashTypes /\ [Next]_workspaceVars => BashTypes'
  BY BashSteps, BashTypesStep
<1>3. BashInv /\ BashTypes => BashTypeOK
  <2> SUFFICES ASSUME BashInv, BashTypes PROVE BashTypeOK
    OBVIOUS
  <2>1. written \in [Streams -> 0..MaxWritten] /\ pipe \in [Streams -> 0..MaxWritten]
    BY BashAssumption DEF BashInv, Streamed, BashTypes
  <2>2. kept \in [Streams -> 0..Limit]
    BY BashAssumption DEF BashInv, Streamed, Lesser
  <2>3. copier \in [Streams -> {"copying", "eof", "short"}]
    BY DEF BashInv, Streamed
  <2> QED
    BY <2>1, <2>2, <2>3 DEF BashInv, Phases, BashTypes, BashTypeOK
<1> QED
  BY <1>1, <1>2, <1>3, BashInvariant, PTL DEF Spec

LEMMA FetchTypesStep ==
  ASSUME FetchTypeOK, [FetchEnvironment \/ FetchOperation]_fetchVars
  PROVE  FetchTypeOK'
<1> USE FetchAssumption DEF FetchTypeOK
<1>0. NoReply \in Replies /\ ErrorReply \in Replies
  BY OutputReplies
<1>1. CASE UNCHANGED fetchVars
  BY <1>1 DEF fetchVars, bodyVars
<1>2. CASE TimeUp
  BY <1>2 DEF TimeUp, bodyVars
<1>3. CASE StopFetch
  BY <1>3 DEF StopFetch, bodyVars
<1>4. CASE Arrive \/ NetFails
  BY <1>4 DEF Arrive, NetFails, bodyVars
<1>5. CASE BadURL \/ Request \/ DoFails
  BY <1>0, <1>5 DEF BadURL, Request, DoFails, FetchFails, bodyVars
<1>6. CASE DoOk
  BY <1>6 DEF DoOk
<1>7. CASE Abort
  BY <1>7 DEF Abort
<1>8. CASE DeclaredTooLarge
  BY <1>0, <1>8 DEF DeclaredTooLarge, FetchFails, bodyVars
<1>9. CASE ReadBody
  <2>1. body' \in 0..MaxPage
    BY <1>9 DEF ReadBody, Lesser, ReadLimit
  <2> QED
    BY <1>9, <2>1 DEF ReadBody
<1>10. CASE ReadEnds \/ ReadBodyFails
  BY <1>0, <1>10 DEF ReadEnds, ReadBodyFails, FetchFails, bodyVars
<1>11. CASE ConvertAndReturn
  <2>1. fetched' \in Replies
    BY <1>11, OutputReplies DEF ConvertAndReturn
  <2> QED
    BY <1>11, <2>1 DEF ConvertAndReturn, bodyVars
<1> QED
  BY <1>1, <1>2, <1>3, <1>4, <1>5, <1>6, <1>7, <1>8, <1>9, <1>10, <1>11
  DEF FetchEnvironment, FetchOperation

LEMMA FetchTypeCorrect == Spec => []FetchTypeOK
<1>1. Init => FetchTypeOK
  <2> SUFFICES ASSUME Init PROVE FetchTypeOK
    OBVIOUS
  <2>1. NoReply \in Replies
    BY OutputReplies
  <2>2. [size |-> 0, declared |-> FALSE] \in [size : 0..MaxPage, declared : BOOLEAN]
    BY FetchAssumption
  <2>3. page.size = 0 /\ arrived \in 0..(page.size + 1) /\ body \in 0..MaxPage
    BY FetchAssumption DEF Init, FetchInit
  <2>4. timeUp \in BOOLEAN /\ stopped \in BOOLEAN
    BY DEF Init, FetchInit
  <2> QED
    BY <2>1, <2>2, <2>3, <2>4 DEF Init, FetchInit, FetchTypeOK
<1>2. FetchTypeOK /\ [Next]_workspaceVars => FetchTypeOK'
  BY FetchSteps, FetchTypesStep
<1> QED
  BY <1>1, <1>2, PTL DEF Spec

\* Files of a skill are in its directory.
Directory == dir \in BOOLEAN /\ (Present # {} => dir)

LEMMA DirectoryStep ==
  ASSUME SyncInv, Directory, [SyncStep]_syncVars
  PROVE  Directory'
<1> USE DEF Directory
<1>0. file \in [Names -> Saved \cup {NoFile}]
  BY DEF SyncInv, SyncTypes
<1>1. CASE UNCHANGED <<file, dir>>
  BY <1>1 DEF Present
<1>2. ASSUME NEW s \in Syncs, RemoveOne(s) PROVE Directory'
  <2>1. Present' \subseteq Present /\ dir' = dir
    BY <1>0, <1>2 DEF RemoveOne, Present
  <2> QED
    BY <2>1
<1>3. ASSUME NEW s \in Syncs, RemoveDone(s) PROVE Directory'
  BY <1>3 DEF RemoveDone, Present
<1>4. ASSUME NEW s \in Syncs, MakeDir(s) \/ Open(s) PROVE Directory'
  BY <1>4 DEF MakeDir, Open
<1>5. ASSUME NEW s \in Syncs, Copy(s) PROVE Directory'
  <2>1. Present' \subseteq Present /\ dir' = dir
    BY <1>0, <1>5 DEF Copy, Present
  <2> QED
    BY <2>1
<1> QED
  BY <1>1, <1>2, <1>3, <1>4, <1>5
  DEF SyncStep, Sync, Crash, Start, TruncateChecksum, WriteChecksum, Fail, syncVars

LEMMA SyncTypeCorrect == Spec => []SyncTypeOK
<1>1. Init => Directory
  BY DEF Init, SyncInit, Directory, Present
<1>2. SyncInv /\ Directory /\ [Next]_workspaceVars => Directory'
  BY SkillSteps, DirectoryStep
<1>3. SyncInv /\ Directory => SyncTypeOK
  BY DEF SyncInv, SyncTypes, Directory, SyncTypeOK
<1> QED
  BY <1>1, <1>2, <1>3, SyncInvariant, PTL DEF Spec

=============================================================================
