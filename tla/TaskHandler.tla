---------------------------- MODULE TaskHandler ----------------------------
(***************************************************************************)
(* The message handler of the runner (ws/handler.go).                      *)
(*                                                                         *)
(* readLoop starts a goroutine for every message, so messages are handled  *)
(* in any order.  A task request registers a cancel function under its     *)
(* task id, is counted in taskWg, and is executed by a goroutine that      *)
(* sends the result, unregisters the task id and leaves taskWg, in this    *)
(* order.  A cancel message looks the task id up under the lock and calls  *)
(* what it found after releasing it.  WaitForTasks waits for taskWg in a   *)
(* goroutine of its own.                                                   *)
(*                                                                         *)
(* The operations of the workspace are outside this module: an execution   *)
(* ends, with a result or with an error, at some time, or never: a command *)
(* whose children keep its output open holds the task although its context *)
(* is cancelled (workspace.go:392-406, no WaitDelay), and so does the read *)
(* of a pipe that nobody writes.  The requests for such operations are     *)
(* called deaf.                                                            *)
(***************************************************************************)
EXTENDS Integers, FiniteSets

CONSTANTS
  Requests,    \* the task.request messages
  Cancels,     \* the task.cancel messages
  Calls,       \* the mcp.call messages
  Deaf,        \* the requests whose operation need not end when it is cancelled
  TaskIds,     \* the task ids
  TaskOf,      \* the task id in a request or a cancel
  Waiters,     \* the calls of WaitForTasks
  MaxReceived, \* bound: messages received
  NoRequest    \* no cancel function under a task id

Messages == Requests \cup Cancels \cup Calls

ASSUME MessagesAssumption ==
  /\ IsFiniteSet(Requests) /\ NoRequest \notin Requests
  /\ Requests \cap Cancels = {} /\ Requests \cap Calls = {} /\ Cancels \cap Calls = {}
ASSUME DeafAssumption == Deaf \subseteq Requests
ASSUME TaskAssumption == TaskOf \in [Requests \cup Cancels -> TaskIds]

VARIABLES
  pc,           \* pc[m]: how far the goroutines that handle message m are
  runningTask,  \* h.runningTask: the request whose cancel function is stored
  cancelled,    \* the requests whose own context has been cancelled
  ctxDone,      \* the context all others derive from is cancelled
  target,       \* target[c]: the request cancel message c has found
  wg,           \* the counter of h.taskWg
  results,      \* the results handed to Client.Send
  wait,         \* wait[w]: the call of WaitForTasks
  waitWg        \* waitWg[w]: the goroutine this call has started

vars == <<pc, runningTask, cancelled, ctxDone, target, wg, results, wait,
          waitWg>>

PcStates == {"none", "arrived", "rejected", "registered", "running", "ok",
             "error", "sent", "unregistered", "looked", "done"}

\* Between taskWg.Add and taskWg.Done.
Counted == {"running", "ok", "error", "sent", "unregistered"}
\* Its task id has not been, or never will be, inserted into runningTask.
NotRegistered == {"none", "arrived", "rejected"}
\* Between the insertion into runningTask and its deferred removal.
Registered == {"registered", "running", "ok", "error", "sent"}
\* The result has been handed to the client.
Answered == {"sent", "unregistered", "done"}

TaskResult(r, success) == [of |-> r, success |-> success]

\* sync.WaitGroup panics when it is reused before Wait has returned.
Panicked == \E w \in Waiters : waitWg[w] = "panic"

\* Mutant: the task's context is made from context.Background().
CtxCancelled_Detached(r) == r \in cancelled

\* The context of task r, a child of the one given to Handle.
CtxCancelled(r) == ctxDone \/ r \in cancelled

TypeOK ==
  /\ pc \in [Messages -> PcStates]
  /\ runningTask \in [TaskIds -> Requests \cup {NoRequest}]
  /\ cancelled \subseteq Requests /\ ctxDone \in BOOLEAN
  /\ target \in [Cancels -> Requests \cup {NoRequest}]
  /\ wg \in Int
  /\ results \subseteq [of : Messages, success : BOOLEAN]
  /\ wait \in [Waiters -> {"none", "waiting", "true", "false"}]
  /\ waitWg \in [Waiters -> {"none", "waiting", "released", "closed", "panic"}]

Init ==
  /\ pc = [m \in Messages |-> "none"]
  /\ runningTask = [t \in TaskIds |-> NoRequest]
  /\ cancelled = {} /\ ctxDone = FALSE
  /\ target = [c \in Cancels |-> NoRequest]
  /\ wg = 0
  /\ results = {}
  /\ wait = [w \in Waiters |-> "none"]
  /\ waitWg = [w \in Waiters |-> "none"]

Goto(m, from, to) == ~Panicked /\ pc[m] = from /\ pc' = [pc EXCEPT ![m] = to]
-----------------------------------------------------------------------------
(* Messages.                                                               *)

\* readLoop has read message m and has started a goroutine that handles it.
Receive(m) ==
  /\ Goto(m, "none", "arrived")
  /\ Cardinality({x \in Messages : pc[x] # "none"}) < MaxReceived
  /\ UNCHANGED <<runningTask, cancelled, ctxDone, target, wg, results, wait,
                 waitWg>>

\* The payload cannot be parsed: the message is dropped without an answer.
Reject(m) ==
  /\ Goto(m, "arrived", "rejected")
  /\ UNCHANGED <<runningTask, cancelled, ctxDone, target, wg, results, wait,
                 waitWg>>

\* handleTaskRequest: a new context, stored under the task id.
Register(r) ==
  /\ Goto(r, "arrived", "registered")
  /\ runningTask' = [runningTask EXCEPT ![TaskOf[r]] = r]
  /\ UNCHANGED <<cancelled, ctxDone, target, wg, results, wait, waitWg>>

\* Mutant: taskWg.Done is not deferred, it runs as soon as the goroutine starts.
StartTask_DoneAtOnce(r) ==
  /\ Goto(r, "registered", "running")
  /\ UNCHANGED <<runningTask, cancelled, ctxDone, target, wg, results, wait,
                 waitWg>>

\* taskWg.Add(1), and the goroutine that executes the task is started.
StartTask(r) ==
  /\ Goto(r, "registered", "running")
  /\ wg' = wg + 1
  /\ UNCHANGED <<runningTask, cancelled, ctxDone, target, results, wait,
                 waitWg>>

\* executeTask returns a result, or an error (of the operation, of its
\* arguments, or because the operation is unknown).
Finish(m) ==
  /\ Goto(m, "running", "ok") \/ Goto(m, "running", "error")
  /\ UNCHANGED <<runningTask, cancelled, ctxDone, target, wg, results, wait,
                 waitWg>>

\* Mutant: the return after the error result is missing.
SendResult_NoReturn(r) ==
  /\ \/ Goto(r, "ok", "sent") /\ results' = results \cup {TaskResult(r, TRUE)}
     \/ Goto(r, "error", "sent")
        /\ results' = results \cup {TaskResult(r, FALSE), TaskResult(r, TRUE)}
  /\ UNCHANGED <<runningTask, cancelled, ctxDone, target, wg, wait, waitWg>>

\* Mutant: a failed task is executed again after its failure has been sent.
SendResult_Retries(r) ==
  /\ \/ Goto(r, "ok", "sent") /\ results' = results \cup {TaskResult(r, TRUE)}
     \/ Goto(r, "error", "running") /\ results' = results \cup {TaskResult(r, FALSE)}
  /\ UNCHANGED <<runningTask, cancelled, ctxDone, target, wg, wait, waitWg>>

\* sendTaskResult, on one of the two paths of executeAndSendResult.
SendResult(r) ==
  /\ \/ Goto(r, "ok", "sent") /\ results' = results \cup {TaskResult(r, TRUE)}
     \/ Goto(r, "error", "sent") /\ results' = results \cup {TaskResult(r, FALSE)}
  /\ UNCHANGED <<runningTask, cancelled, ctxDone, target, wg, wait, waitWg>>

\* Mutant: a cancelled task does not unregister itself.
Unregister_SkipsCancelled(r) ==
  /\ Goto(r, "sent", "unregistered")
  /\ runningTask' = IF CtxCancelled(r) THEN runningTask
                    ELSE [runningTask EXCEPT ![TaskOf[r]] = NoRequest]
  /\ UNCHANGED <<cancelled, ctxDone, target, wg, results, wait, waitWg>>

\* The deferred unregisterTask: whatever is stored under the id is deleted.
Unregister(r) ==
  /\ Goto(r, "sent", "unregistered")
  /\ runningTask' = [runningTask EXCEPT ![TaskOf[r]] = NoRequest]
  /\ UNCHANGED <<cancelled, ctxDone, target, wg, results, wait, waitWg>>

\* The deferred taskWg.Done: the last one releases the goroutines in Wait.
TaskDone(r) ==
  /\ Goto(r, "unregistered", "done")
  /\ wg' = wg - 1
  /\ waitWg' = [w \in Waiters |-> IF wg = 1 /\ waitWg[w] = "waiting"
                                    THEN "released" ELSE waitWg[w]]
  /\ UNCHANGED <<runningTask, cancelled, ctxDone, target, results, wait>>

\* Mutant: the cancel handler also removes the entry it finds.
LookUp_Removes(c) ==
  LET found == runningTask[TaskOf[c]] IN
  /\ Goto(c, "arrived", IF found = NoRequest THEN "done" ELSE "looked")
  /\ target' = [target EXCEPT ![c] = found]
  /\ runningTask' = [runningTask EXCEPT ![TaskOf[c]] = NoRequest]
  /\ UNCHANGED <<cancelled, ctxDone, wg, results, wait, waitWg>>

\* handleTaskCancel, under the read lock.
LookUp(c) ==
  LET found == runningTask[TaskOf[c]] IN
  /\ Goto(c, "arrived", IF found = NoRequest THEN "done" ELSE "looked")
  /\ target' = [target EXCEPT ![c] = found]
  /\ UNCHANGED <<runningTask, cancelled, ctxDone, wg, results, wait, waitWg>>

\* Mutant: the cancel function that was found is never called.
CallCancel_Forgotten(c) ==
  /\ Goto(c, "looked", "done")
  /\ UNCHANGED <<runningTask, cancelled, ctxDone, target, wg, results, wait,
                 waitWg>>

\* The cancel function that was found is called without the lock.
CallCancel(c) ==
  /\ Goto(c, "looked", "done")
  /\ cancelled' = cancelled \cup {target[c]}
  /\ UNCHANGED <<runningTask, ctxDone, target, wg, results, wait, waitWg>>

\* handleMCPCall: a goroutine that neither runningTask nor taskWg knows.
StartCall(m) ==
  /\ Goto(m, "arrived", "running")
  /\ UNCHANGED <<runningTask, cancelled, ctxDone, target, wg, results, wait,
                 waitWg>>

\* sendMCPResult ends the goroutine.
SendCallResult(m) ==
  /\ \/ Goto(m, "ok", "done") /\ results' = results \cup {TaskResult(m, TRUE)}
     \/ Goto(m, "error", "done") /\ results' = results \cup {TaskResult(m, FALSE)}
  /\ UNCHANGED <<runningTask, cancelled, ctxDone, target, wg, wait, waitWg>>
-----------------------------------------------------------------------------
(* Shutdown.                                                               *)

\* The parent context is cancelled.
CancelCtx ==
  /\ ~Panicked /\ ~ctxDone /\ ctxDone' = TRUE
  /\ UNCHANGED <<pc, runningTask, cancelled, target, wg, results, wait,
                 waitWg>>

\* CancelAllTasks: the cancel functions in the map, under the lock.
CancelAllTasks ==
  /\ ~Panicked
  /\ cancelled' = cancelled \cup ({runningTask[t] : t \in TaskIds} \ {NoRequest})
  /\ UNCHANGED <<pc, runningTask, ctxDone, target, wg, results, wait, waitWg>>

\* WaitForTasks is called; its goroutine calls taskWg.Wait, which returns at
\* once when the counter is zero.
WaitForTasks(w) ==
  /\ ~Panicked /\ wait[w] = "none"
  /\ wait' = [wait EXCEPT ![w] = "waiting"]
  /\ UNCHANGED <<pc, runningTask, cancelled, ctxDone, target, wg, results,
                 waitWg>>

\* The goroutine of this call executes taskWg.Wait.
WaitBegins(w) ==
  /\ ~Panicked /\ wait[w] # "none" /\ waitWg[w] = "none"
  /\ waitWg' = [waitWg EXCEPT ![w] = IF wg = 0 THEN "closed" ELSE "waiting"]
  /\ UNCHANGED <<pc, runningTask, cancelled, ctxDone, target, wg, results,
                 wait>>

\* It was released, and panics when the counter is no longer zero.
WaitReturns(w) ==
  /\ ~Panicked /\ waitWg[w] = "released"
  /\ waitWg' = [waitWg EXCEPT ![w] = IF wg = 0 THEN "closed" ELSE "panic"]
  /\ UNCHANGED <<pc, runningTask, cancelled, ctxDone, target, wg, results,
                 wait>>

AllCompleted(w) ==
  /\ ~Panicked /\ wait[w] = "waiting" /\ waitWg[w] = "closed"
  /\ wait' = [wait EXCEPT ![w] = "true"]
  /\ UNCHANGED <<pc, runningTask, cancelled, ctxDone, target, wg, results,
                 waitWg>>

TimedOut(w) ==
  /\ ~Panicked /\ wait[w] = "waiting"
  /\ wait' = [wait EXCEPT ![w] = "false"]
  /\ UNCHANGED <<pc, runningTask, cancelled, ctxDone, target, wg, results,
                 waitWg>>

Waiter(w) == WaitBegins(w) \/ WaitReturns(w) \/ AllCompleted(w) \/ TimedOut(w)
-----------------------------------------------------------------------------
\* The steps of the goroutines of request r, apart from the execution.
Task(r) == \/ Register(r) \/ Reject(r) \/ StartTask(r) \/ SendResult(r)
           \/ Unregister(r) \/ TaskDone(r)

Cancel(c) == LookUp(c) \/ CallCancel(c) \/ Reject(c)

Call(m) == StartCall(m) \/ SendCallResult(m) \/ Reject(m)

\* Every message has been handled; nothing is left to do but to shut down.
Ended == /\ Panicked \/ \A m \in Messages : pc[m] \in {"done", "rejected"}
         /\ UNCHANGED vars

Next ==
  \/ \E m \in Messages : Receive(m)
  \/ \E r \in Requests : Task(r) \/ Finish(r)
  \/ \E c \in Cancels : Cancel(c)
  \/ \E m \in Calls : Call(m) \/ Finish(m)
  \/ \E w \in Waiters : WaitForTasks(w) \/ Waiter(w)
  \/ CancelCtx \/ CancelAllTasks \/ Ended

Spec == Init /\ [][Next]_vars

\* Goroutines are scheduled.  Of the operations it is assumed only that one which
\* is not deaf ends once its context is cancelled: it watches the context, as
\* Bash and WebFetch do (StopReturns and FetchEnds of module Workspace), or ends
\* by itself on files and trees that are finite.
FairSpec ==
  /\ Spec
  /\ \A r \in Requests : WF_vars(Task(r))
  /\ \A r \in Requests \ Deaf : WF_vars(CtxCancelled(r) /\ Finish(r))
  /\ \A c \in Cancels : WF_vars(Cancel(c))
-----------------------------------------------------------------------------
(* Safety.                                                                 *)

\* No entry of runningTask outlives its task, or is stored under another id,
\* even when a task id is used twice: a cancel never reaches a finished task.
EntryIsLive == \A t \in TaskIds :
  runningTask[t] # NoRequest =>
    pc[runningTask[t]] \in Registered /\ TaskOf[runningTask[t]] = t

\* A task can be cancelled from the moment it is registered until its result
\* has been sent (runningTask, handler.go:20), unless another request with the
\* same task id has been registered as well.
Tracked == \A r \in Requests :
  /\ pc[r] \in Registered
  /\ \A q \in Requests \ {r} : TaskOf[q] = TaskOf[r] => pc[q] \in NotRegistered
  => runningTask[TaskOf[r]] = r

\* Each request gets one result, a success or a failure, before it is
\* unregistered, and a request that was not executed gets none.
OneResult == \A r \in Requests :
  Cardinality({x \in results : x.of = r}) = IF pc[r] \in Answered THEN 1 ELSE 0

\* The counter of taskWg is the number of tasks between Add and Done.
WgCounts == wg = Cardinality({r \in Requests : pc[r] \in Counted})

\* taskWg.Wait returns only at a moment when no counted task is unfinished.
WaitSeesIdle ==
  [][\A w \in Waiters : waitWg[w] # "closed" /\ waitWg'[w] = "closed"
                          => \A r \in Requests : pc[r] \notin Counted]_vars
-----------------------------------------------------------------------------
(* Liveness, under FairSpec.                                               *)

\* A cancel message that has found a task brings it to an end: the task's
\* result is sent, whatever other task has the same id, unless its operation is
\* deaf or a Wait that was released too late panics.
CancelIsAnswered == \A c \in Cancels : \A r \in Requests \ Deaf :
  (pc[c] = "looked" /\ target[c] = r) ~> (pc[r] \in Answered \/ Panicked)

\* When the parent context is cancelled every task comes to an end, also one
\* whose request was read after that, with the same exceptions; a deaf one holds
\* up no other.
ShutdownDrains ==
  ctxDone ~> \/ Panicked
             \/ \A r \in Requests : \/ pc[r] \in {"none", "rejected", "done"}
                                    \/ r \in Deaf /\ pc[r] = "running"

=============================================================================
