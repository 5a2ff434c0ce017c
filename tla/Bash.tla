-------------------------------- MODULE Bash --------------------------------
(***************************************************************************)
(* The bash operation (Bash and executeBashCommand in                      *)
(* workspace/workspace.go, and os/exec as it uses it).                     *)
(*                                                                         *)
(* Run waits for the bash process and then for the two goroutines that     *)
(* copy its output into limited buffers; a third one kills the process     *)
(* when the context is done.  The pipes end when nobody has them open any  *)
(* more, and a child of bash may have them open after bash has ended.      *)
(***************************************************************************)
EXTENDS LargeOutput

CONSTANTS
  Streams,    \* "stdout" and "stderr"
  Limit,      \* maxOutputSize, the limit of a LimitedWriter (10 MB)
  MaxWritten  \* bound: what is written to each stream

ASSUME BashAssumption == "stdout" \in Streams /\ Limit \in Nat /\ MaxWritten \in Nat

VARIABLES
  bash,     \* program counter of the operation
  ctx,      \* the context: "live", "deadline" or "cancelled"
  proc,     \* the bash process
  watch,    \* the goroutine that kills it: what it reports to Wait
  holders,  \* who has the pipes open: "bash", and "child", a child of it
  written,  \* written[s]: what has been written to stream s
  pipe,     \* pipe[s]: how much of it is in the pipe
  kept,     \* kept[s]: how much of it the LimitedWriter has kept
  copier,   \* copier[s]: the goroutine that copies stream s
  exitCode, \* the exit code in the result
  reply     \* the result

procVars == <<proc, holders, written>>
bashVars == <<bash, ctx, procVars, watch, pipe, kept, copier, exitCode, reply>>

\* How bash may end by itself: a status, or a signal from another process.
Exits == {"success", "failure", "signalled"}

BashTypeOK ==
  /\ bash \in {"check", "start", "wait", "copies", "process", "done"}
  /\ ctx \in {"live", "deadline", "cancelled"}
  /\ proc \in Exits \cup {"none", "running", "killed"}
  /\ watch \in {"none", "watching", "killed", "missed"}
  /\ holders \subseteq {"bash", "child"}
  /\ written \in [Streams -> 0..MaxWritten] /\ pipe \in [Streams -> 0..MaxWritten]
  /\ kept \in [Streams -> 0..Limit]
  /\ copier \in [Streams -> {"copying", "eof", "short"}]
  /\ exitCode \in {-1, 0, 1, 124} /\ reply \in Replies

BashInit ==
  /\ bash = "check" /\ ctx = "live" /\ proc = "none" /\ watch = "none"
  /\ holders = {} /\ exitCode = 0 /\ reply = NoReply
  /\ written = [s \in Streams |-> 0] /\ pipe = [s \in Streams |-> 0]
  /\ kept = [s \in Streams |-> 0] /\ copier = [s \in Streams |-> "copying"]
-----------------------------------------------------------------------------
(* The environment: the context, the command and its children.             *)

\* The time-out of the command, which is set after the check.
Deadline ==
  /\ bash \in {"start", "wait", "copies"} /\ ctx = "live" /\ ctx' = "deadline"
  /\ UNCHANGED <<bash, procVars, watch, pipe, kept, copier, exitCode, reply, filesVars>>

\* The task is cancelled, or the runner is shut down.
CancelTask ==
  /\ bash # "done" /\ ctx = "live" /\ ctx' = "cancelled"
  /\ UNCHANGED <<bash, procVars, watch, pipe, kept, copier, exitCode, reply, filesVars>>

\* Bash or its child writes n characters.
Produce(s, n) ==
  /\ holders # {} /\ copier[s] = "copying" /\ written[s] + n <= MaxWritten
  /\ written' = [written EXCEPT ![s] = @ + n] /\ pipe' = [pipe EXCEPT ![s] = @ + n]
  /\ UNCHANGED <<bash, ctx, proc, watch, holders, kept, copier, exitCode, reply, filesVars>>

Fork ==
  /\ proc = "running" /\ holders' = holders \cup {"child"}
  /\ UNCHANGED <<bash, ctx, proc, watch, written, pipe, kept, copier, exitCode, reply, filesVars>>

ChildEnds ==
  /\ "child" \in holders /\ holders' = holders \ {"child"}
  /\ UNCHANGED <<bash, ctx, proc, watch, written, pipe, kept, copier, exitCode, reply, filesVars>>

BashExits ==
  /\ proc = "running" /\ proc' \in Exits /\ holders' = holders \ {"bash"}
  /\ UNCHANGED <<bash, ctx, watch, written, pipe, kept, copier, exitCode, reply, filesVars>>

BashEnvironment == \/ Deadline \/ CancelTask \/ Fork \/ ChildEnds \/ BashExits
                   \/ \E s \in Streams, n \in 1..MaxWritten : Produce(s, n)
-----------------------------------------------------------------------------
(* The operation.                                                          *)

Return(r) == bash' = "done" /\ reply' = r

\* Check denies the command, or the working directory is outside the root.
Refuse ==
  /\ bash = "check" /\ Return(ErrorReply)
  /\ UNCHANGED <<ctx, procVars, watch, pipe, kept, copier, exitCode, filesVars>>

Accept ==
  /\ bash = "check" /\ bash' = "start"
  /\ UNCHANGED <<ctx, procVars, watch, pipe, kept, copier, exitCode, reply, filesVars>>

\* What executeBashCommand makes of the error Run has returned: an ExitError
\* (failed), another error, or none.
Conclude(failed, other) ==
  \/ /\ failed /\ bash' = "process" /\ exitCode' = IF proc = "failure" THEN 1 ELSE -1
     /\ UNCHANGED reply
  \/ /\ ~failed /\ other /\ ctx = "deadline"
     /\ bash' = "process" /\ exitCode' = 124 /\ UNCHANGED reply
  \/ /\ ~failed /\ other /\ ctx # "deadline"
     /\ Return(ErrorReply) /\ UNCHANGED exitCode
  \/ /\ ~failed /\ ~other
     /\ bash' = "process" /\ exitCode' = 0 /\ UNCHANGED reply

StartOk ==
  /\ bash = "start" /\ ctx = "live" /\ bash' = "wait"
  /\ proc' = "running" /\ holders' = {"bash"} /\ watch' = "watching"
  /\ UNCHANGED <<ctx, written, pipe, kept, copier, exitCode, reply, filesVars>>

\* The context is done, or bash cannot be started.
StartFails ==
  /\ bash = "start" /\ Conclude(FALSE, TRUE)
  /\ UNCHANGED <<ctx, procVars, watch, pipe, kept, copier, filesVars>>

\* Mutant: the command is made with the context of the task.
Kill_TaskContext ==
  /\ bash = "wait" /\ watch = "watching" /\ ctx = "cancelled"
  /\ \/ proc = "running" /\ proc' = "killed" /\ holders' = holders \ {"bash"} /\ watch' = "killed"
     \/ proc \in Exits /\ watch' \in {"killed", "missed"} /\ UNCHANGED <<proc, holders>>
  /\ UNCHANGED <<bash, ctx, written, pipe, kept, copier, exitCode, reply, filesVars>>

\* The context is done: the process, but not its child, is killed.  A process
\* that has ended and was not waited for may take the signal as well.
Kill ==
  /\ bash = "wait" /\ watch = "watching" /\ ctx # "live"
  /\ \/ proc = "running" /\ proc' = "killed" /\ holders' = holders \ {"bash"} /\ watch' = "killed"
     \/ proc \in Exits /\ watch' \in {"killed", "missed"} /\ UNCHANGED <<proc, holders>>
  /\ UNCHANGED <<bash, ctx, written, pipe, kept, copier, exitCode, reply, filesVars>>

\* Wait has the state of the process, and what the watching goroutine reports.
Reap ==
  /\ bash = "wait" /\ proc \in Exits \cup {"killed"} /\ bash' = "copies"
  /\ watch' = IF watch = "watching" THEN "missed" ELSE watch
  /\ UNCHANGED <<ctx, procVars, pipe, kept, copier, exitCode, reply, filesVars>>

\* Mutant: a full LimitedWriter reports what it has written.
LimitedWrite_Short(curr, p) ==
  LET left == Lesser(p, Limit - curr) IN [n |-> left, curr |-> curr + left]

\* LimitedWriter.Write: p bytes are accepted, those within the limit are kept.
LimitedWrite(curr, p) ==
  [n |-> p, curr |-> IF curr >= Limit THEN curr ELSE Lesser(curr + p, Limit)]

\* io.Copy reads what is in the pipe and writes it; a short write ends it.
Copied(s) ==
  LET w == LimitedWrite(kept[s], pipe[s])
  IN /\ copier[s] = "copying" /\ pipe[s] > 0
     /\ pipe' = [pipe EXCEPT ![s] = 0] /\ kept' = [kept EXCEPT ![s] = w.curr]
     /\ copier' = IF w.n = pipe[s] THEN copier ELSE [copier EXCEPT ![s] = "short"]
     /\ UNCHANGED <<bash, ctx, procVars, watch, exitCode, reply, filesVars>>

CopyEnds(s) ==
  /\ copier[s] = "copying" /\ pipe[s] = 0 /\ bash # "check" /\ proc # "none" /\ holders = {}
  /\ copier' = [copier EXCEPT ![s] = "eof"]
  /\ UNCHANGED <<bash, ctx, procVars, watch, pipe, kept, exitCode, reply, filesVars>>

\* Mutant: Run does not wait for the goroutines.
RunReturns_NoWait ==
  /\ bash = "copies"
  /\ Conclude(proc # "success", watch = "killed")
  /\ UNCHANGED <<ctx, procVars, watch, pipe, kept, copier, filesVars>>

\* Run returns: the state of the process comes first, then the context, if the
\* goroutine believes that it has killed the process, then the copies.
RunReturns ==
  /\ bash = "copies" /\ \A s \in Streams : copier[s] # "copying"
  /\ Conclude(proc # "success",
              watch = "killed" \/ \E s \in Streams : copier[s] = "short")
  /\ UNCHANGED <<ctx, procVars, watch, pipe, kept, copier, filesVars>>

\* The output fits into the reply, or the command reads a saved output.
ReturnOutput(readsWork) ==
  /\ bash = "process" /\ (readsWork \/ FitsReply(kept["stdout"]))
  /\ Return(Unchanged(kept["stdout"]))
  /\ UNCHANGED <<ctx, procVars, watch, pipe, kept, copier, exitCode, filesVars>>

SaveOutput ==
  /\ bash = "process" /\ ~FitsReply(kept["stdout"])
  /\ bash' = "done" /\ Save(kept["stdout"], reply')
  /\ UNCHANGED <<ctx, procVars, watch, pipe, kept, copier, exitCode>>

BashOperation ==
  \/ Refuse \/ Accept \/ StartOk \/ StartFails \/ Kill \/ Reap \/ RunReturns \/ SaveOutput
  \/ \E b \in BOOLEAN : ReturnOutput(b)
  \/ \E s \in Streams : Copied(s) \/ CopyEnds(s)
-----------------------------------------------------------------------------
(* Properties.                                                             *)

\* The exit code of a result is the one of the command; it is -1 if and only if
\* bash ended by a signal, which the runner sends only after a time-out or a
\* cancellation; it is 124 only for a command that had ended well, or was never
\* started, by then.  An operation is an error only if it was refused, could not
\* be started, or was cancelled: never because of what the command has written.
OutcomeIsTrue ==
  /\ reply.status = "ok" =>
       /\ (exitCode = 0) <=> (proc = "success" /\ exitCode # 124)
       /\ (exitCode = 1) <=> (proc = "failure")
       /\ (exitCode = -1) <=> (proc \in {"killed", "signalled"})
       /\ exitCode = 124 => ctx = "deadline" /\ proc \in {"success", "none"}
       /\ proc = "killed" => ctx # "live"
  /\ reply.status = "error" => proc = "none" \/ ctx = "cancelled"

\* Nothing that the command or its children have written is missing in a
\* result, up to the limit of each stream: bytes may still be in the pipes when
\* the process ends, and a full buffer must not make its stream fail.  (With
\* exit code 124 "command timed out" takes the place of what stderr has kept.)
OutputIsComplete == reply.status = "ok" =>
  \A s \in Streams : kept[s] = Lesser(written[s], Limit)

\* When the time is up or the task is cancelled the operation ends, unless
\* a child of the command keeps the output open for ever (WaitDelay is not set).
StopReturns == <>[](holders # {"child"}) => (ctx # "live" ~> bash = "done")

=============================================================================
