------------------------------ MODULE Workspace ------------------------------
(***************************************************************************)
(* The operations of the workspace, joined.                                *)
(*                                                                         *)
(* A saved output has a file of its own and a skill a directory of its     *)
(* own, so operations meet only at files: a behaviour is about one         *)
(* operation, and about the reads that page through the file it saves, or  *)
(* about the reads, the writes and the removals of one path.               *)
(***************************************************************************)
EXTENDS Bash, WebFetch, Grep, Listing, SkillSync

VARIABLE op   \* the operation this behaviour is about

workspaceVars == <<op, filesVars, bashVars, fetchVars, grepVars, listVars, syncVars>>

Operations == {"files", "bash", "webfetch", "grep", "list", "sync_skill"}

WorkspaceTypeOK ==
  /\ op \in Operations /\ FilesTypeOK /\ BashTypeOK /\ FetchTypeOK /\ GrepTypeOK
  /\ ListTypeOK /\ SyncTypeOK

Init ==
  /\ op \in Operations /\ FilesInit /\ BashInit /\ FetchInit /\ GrepInit /\ ListInit /\ SyncInit

\* The result of the operation that captures an output.
Result == CASE op = "bash" -> reply [] op = "webfetch" -> fetched [] op = "grep" -> found
            [] OTHER -> NoReply

\* A client reads the saved output when it has been told its path.
ReadSaved == Result.file /\ ReadStep

OnFiles == op = "files" /\ (ReadStep \/ WriteStep \/ Unlink)
             /\ UNCHANGED <<op, bashVars, fetchVars, grepVars, listVars, syncVars>>

OnBash ==
  /\ op = "bash"
  /\ BashEnvironment \/ BashOperation \/ (ReadSaved /\ UNCHANGED bashVars)
  /\ UNCHANGED <<op, fetchVars, grepVars, listVars, syncVars>>

OnFetch ==
  /\ op = "webfetch"
  /\ FetchEnvironment \/ FetchOperation \/ (ReadSaved /\ UNCHANGED fetchVars)
  /\ UNCHANGED <<op, bashVars, grepVars, listVars, syncVars>>

OnGrep ==
  /\ op = "grep" /\ (GrepStep \/ (ReadSaved /\ UNCHANGED grepVars))
  /\ UNCHANGED <<op, bashVars, fetchVars, listVars, syncVars>>

OnList == op = "list" /\ ListStep
            /\ UNCHANGED <<op, filesVars, bashVars, fetchVars, grepVars, syncVars>>

OnSkill == op = "sync_skill" /\ SyncStep
             /\ UNCHANGED <<op, filesVars, bashVars, fetchVars, grepVars, listVars>>

\* The operations have ended, or the process has.
Ended ==
  /\ \/ FilesPanicked
     \/ op \in {"files", "bash", "webfetch", "grep"}
          /\ (\A r \in Readers : rd[r].pc \in {"idle", "done", "error"})
          /\ (\A w \in Writers : wr[w].pc # "write")
          /\ (op = "bash" => bash = "done") /\ (op = "webfetch" => fetch = "done")
          /\ (op = "grep" => grep = "done")
     \/ op = "list" /\ list \in {"ok", "error"}
     \/ op = "sync_skill" /\ \A s \in Syncs : pc[s] \in {"ok", "failed"}
  /\ UNCHANGED workspaceVars

Next == \/ ~FilesPanicked /\ (OnFiles \/ OnBash \/ OnFetch \/ OnGrep \/ OnList \/ OnSkill)
        \/ Ended

Spec == Init /\ [][Next]_workspaceVars

\* Goroutines are scheduled, os/exec reaps and copies, timers of net/http fire;
\* a command, its children, a server and a client need not do anything.
FairSpec ==
  /\ Spec
  /\ WF_workspaceVars(OnBash /\ BashOperation)
  /\ WF_workspaceVars(OnFetch /\ FetchProceeds)
-----------------------------------------------------------------------------
\* A reply names a file only if the file holds all of the output, also when
\* writing it failed half way, and the file is one nobody else writes to.
SavedIsWhole == Result.file => data[ino] = Bytes("output", Result.total)

=============================================================================
