----------------------------- MODULE SkillSync -----------------------------
(***************************************************************************)
(* The sync_skill operation (SyncSkill in workspace/workspace.go) on one   *)
(* skill directory.                                                        *)
(*                                                                         *)
(* A sync removes the directory, file by file, extracts the archive entry  *)
(* by entry, and writes the .checksum file last.  Nothing locks the        *)
(* directory, any step may fail and leaves what is there by then, and the  *)
(* process may end at any moment.  A file that has been opened stays the   *)
(* same file (an inode, named by the sync that created it) until it is     *)
(* removed, so two syncs may write to it together.                         *)
(***************************************************************************)
EXTENDS Naturals, Sequences, FiniteSets

CONSTANTS
  Syncs,      \* the sync_skill tasks for this directory
  Archives,   \* the versions of the skill
  Names,      \* the names of files in archives
  Entries,    \* the file names of an archive, in the order of the archive
  ArchiveOf,  \* the archive a task brings
  MaxActive   \* bound: tasks that run at the same time

ASSUME ArchivesAssumption ==
  /\ Entries \in [Archives -> Seq(Names)] /\ ArchiveOf \in [Syncs -> Archives]
  /\ \A a \in Archives : \A i, j \in DOMAIN Entries[a] : Entries[a][i] = Entries[a][j] => i = j
  /\ MaxActive \in Nat
ASSUME ChecksumAssumption == {"absent", "empty"} \cap Archives = {}

VARIABLES
  pc,        \* pc[s]: how far sync s is
  entry,     \* entry[s]: the entry of the archive it is at
  inode,     \* inode[s]: the file it has open, if any
  file,      \* file[n]: the file under name n of the directory
  checksum,  \* the .checksum file: "absent", "empty", or the archive it names
  dir,       \* the directory exists
  mixed      \* syncs have overlapped since a sync alone emptied the directory

syncVars == <<pc, entry, inode, file, checksum, dir, mixed>>

Active   == {"remove", "make", "open", "copy", "truncate", "write"}
PcStates == Active \cup {"none", "ok", "failed"}

NoFile == [state |-> "absent"]
Saved  == [ino : Syncs, by : Syncs, state : {"partial", "whole", "torn"}]

Archive(s) == Entries[ArchiveOf[s]]
Name(s)    == Archive(s)[entry[s]]
Present    == {n \in Names : file[n] # NoFile}

SyncTypeOK ==
  /\ pc \in [Syncs -> PcStates]
  /\ entry \in [Syncs -> Nat] /\ \A s \in Syncs : entry[s] \in 1..(Len(Archive(s)) + 1)
  /\ inode \in [Syncs -> Syncs]
  /\ file \in [Names -> Saved \cup {NoFile}]
  /\ checksum \in Archives \cup {"absent", "empty"}
  /\ dir \in BOOLEAN /\ mixed \in BOOLEAN /\ (Present # {} => dir)

SyncInit ==
  /\ pc = [s \in Syncs |-> "none"]
  /\ entry = [s \in Syncs |-> 1]
  /\ inode = [s \in Syncs |-> s]
  /\ file = [n \in Names |-> NoFile]
  /\ checksum = "absent" /\ dir = FALSE /\ mixed = FALSE

Goto(s, from, to) == pc[s] = from /\ pc' = [pc EXCEPT ![s] = to]
-----------------------------------------------------------------------------
Running == {t \in Syncs : pc[t] \in Active}

\* Mutant: the existing directory is kept.
Start_KeepsDirectory(s) ==
  /\ Cardinality(Running) < MaxActive
  /\ Goto(s, "none", "make")
  /\ mixed' = (mixed \/ Running # {})
  /\ UNCHANGED <<entry, inode, file, checksum, dir>>

\* The path is safe and the data is a zip archive: the work begins.
Start(s) ==
  /\ Cardinality(Running) < MaxActive
  /\ Goto(s, "none", "remove")
  /\ mixed' = (mixed \/ Running # {})
  /\ UNCHANGED <<entry, inode, file, checksum, dir>>

\* os.RemoveAll unlinks one file after the other, in the order of the directory.
RemoveOne(s) ==
  /\ pc[s] = "remove"
  /\ \/ \E n \in Present : file' = [file EXCEPT ![n] = NoFile] /\ UNCHANGED checksum
     \/ checksum # "absent" /\ checksum' = "absent" /\ UNCHANGED file
  /\ UNCHANGED <<pc, entry, inode, dir, mixed>>

\* The directory is empty, or it was not there, and is removed itself.
RemoveDone(s) ==
  /\ Present = {} /\ checksum = "absent"
  /\ Goto(s, "remove", "make")
  /\ dir' = FALSE
  /\ mixed' = (mixed /\ Running # {s})
  /\ UNCHANGED <<entry, inode, file, checksum>>

\* Where a sync is when i entries have been extracted.
AfterEntry(s, i) == IF i < Len(Archive(s)) THEN "open" ELSE "truncate"

\* os.MkdirAll of the destination.
MakeDir(s) ==
  /\ Goto(s, "make", AfterEntry(s, 0))
  /\ dir' = TRUE
  /\ UNCHANGED <<entry, inode, file, checksum, mixed>>

\* os.MkdirAll of the parent, and os.OpenFile, which creates or truncates.
Open(s) ==
  LET n == Name(s)
      i == IF file[n] = NoFile THEN s ELSE file[n].ino
  IN /\ Goto(s, "open", "copy")
     /\ file' = [file EXCEPT ![n] = [ino |-> i, by |-> s, state |-> "partial"]]
     /\ inode' = [inode EXCEPT ![s] = i]
     /\ dir' = TRUE
     /\ UNCHANGED <<entry, checksum, mixed>>

WithState(f, state) == [ino |-> f.ino, by |-> f.by, state |-> state]

\* Mutant: the loop over the entries ends one too early.
Copy_SkipsLast(s) ==
  /\ Goto(s, "copy", AfterEntry(s, entry[s] + 1))
  /\ entry' = [entry EXCEPT ![s] = @ + 1]
  /\ file' = [file EXCEPT ![Name(s)] = WithState(@, "whole")]
  /\ UNCHANGED <<inode, checksum, dir, mixed>>

\* io.Copy returns.  What has been written is in the directory only if the file
\* that was opened still is; if somebody else has truncated it meanwhile, it
\* holds parts of both.  (A file of more than 100 MB is cut off at that size,
\* without an error: "whole" is what an archive with smaller files gives.)
Copy(s) ==
  LET n == Name(s)
      linked == file[n] # NoFile /\ file[n].ino = inode[s]
      alone  == file[n].by = s /\ file[n].state = "partial"
  IN /\ Goto(s, "copy", AfterEntry(s, entry[s]))
     /\ entry' = [entry EXCEPT ![s] = @ + 1]
     /\ file' = IF ~linked THEN file
                ELSE [file EXCEPT ![n] = WithState(@, IF alone THEN "whole" ELSE "torn")]
     /\ UNCHANGED <<inode, checksum, dir, mixed>>

\* os.WriteFile of .checksum: it is created or truncated, and then written.
TruncateChecksum(s) ==
  /\ dir /\ Goto(s, "truncate", "write")
  /\ checksum' = "empty"
  /\ UNCHANGED <<entry, inode, file, dir, mixed>>

\* Mutant: the name of the skill is written in the place of its checksum.
WriteChecksum_Name(s) ==
  /\ Goto(s, "write", "ok")
  /\ checksum' = s
  /\ UNCHANGED <<entry, inode, file, dir, mixed>>

WriteChecksum(s) ==
  /\ Goto(s, "write", "ok")
  /\ checksum' = IF checksum = "absent" THEN checksum ELSE ArchiveOf[s]
  /\ UNCHANGED <<entry, inode, file, dir, mixed>>

\* A call fails, or an entry has an invalid path: the task ends with an error.
Fail(s) ==
  /\ pc[s] \in Active \cup {"none"} /\ pc' = [pc EXCEPT ![s] = "failed"]
  /\ UNCHANGED <<entry, inode, file, checksum, dir, mixed>>

\* The process ends, while syncs are running, and is started again.
Crash ==
  /\ \E s \in Syncs : pc[s] \in Active
  /\ pc' = [s \in Syncs |-> IF pc[s] \in Active THEN "failed" ELSE pc[s]]
  /\ UNCHANGED <<entry, inode, file, checksum, dir, mixed>>

Sync(s) == \/ Start(s) \/ RemoveOne(s) \/ RemoveDone(s) \/ MakeDir(s) \/ Open(s)
           \/ Copy(s) \/ TruncateChecksum(s) \/ WriteChecksum(s) \/ Fail(s)

SyncStep == (\E s \in Syncs : Sync(s)) \/ Crash
-----------------------------------------------------------------------------
\* The directory holds archive a, all of it and nothing else.
Holds(a) ==
  /\ checksum = a
  /\ Present = {Entries[a][i] : i \in DOMAIN Entries[a]}
  /\ \A n \in Present : file[n].state = "whole" /\ ArchiveOf[file[n].by] = a

\* A sync that no other sync disturbs and that reports success leaves exactly
\* its archive in the directory, whatever earlier syncs, failures, crashes and
\* overlapping syncs have left there (SyncSkill removes the directory first).
SuccessIsExact ==
  [][\A s \in Syncs :
       ~mixed /\ pc[s] # "ok" /\ pc'[s] = "ok" => Holds(ArchiveOf[s])']_syncVars

\* Unless syncs overlap, a checksum is never found beside the files of another
\* version or beside a file that was not extracted to its end: it is removed
\* before the first entry is extracted and written after the last one.
ChecksumMatchesFiles ==
  (~mixed /\ checksum \in Archives) =>
    \A n \in Present : file[n].state = "whole" /\ ArchiveOf[file[n].by] = checksum

=============================================================================
