------------------------------- MODULE Runner -------------------------------
(***************************************************************************)
(* The program (cmd/main.go): the client and the handler joined.           *)
(*                                                                         *)
(* A message the read loop returns is a message the handler receives, a    *)
(* result the handler sends is one the client buffers, and one context is  *)
(* the parent of everything.  A goroutine waits for SIGINT or SIGTERM,     *)
(* cancels that context, waits for the running tasks, and closes the       *)
(* client; main itself waits for RunWithReconnect alone, and the process   *)
(* ends when that returns, wherever the signal goroutine is by then.       *)
(***************************************************************************)
EXTENDS Integers, Sequences, FiniteSets

CONSTANTS
  Requests, Cancels, Calls, TaskIds, TaskOf, NoRequest,
  SendCap, MaxReconnectAttempts, InitialReconnectDelay, MaxReconnectDelay,
  MaxRuns, MaxBeats, MaxSignals

VARIABLES
  rc, attempt, delay, conn, link, doneCh, sendCh, doneClosed, queue, closed,
  envInfoSent, hb, sl, beats, submitted, wire,
  pc, runningTask, cancelled, target, wg, results, wait, waitWg,
  ctxDone,  \* shared: the context made by main
  sig,      \* program counter of the signal goroutine
  late      \* messages the handler was given after the signal

clientVars  == <<rc, attempt, delay, conn, link, doneCh, sendCh, doneClosed,
                 queue, closed, envInfoSent, hb, sl, beats, submitted, wire>>
handlerVars == <<pc, runningTask, cancelled, target, wg, results, wait,
                 waitWg>>
vars == <<clientVars, handlerVars, ctxDone, sig, late>>

Client  == INSTANCE WsClient WITH Results <- Requests \cup Calls
Handler == INSTANCE TaskHandler WITH
  Deaf <- Requests, Waiters <- {"first", "second"}, MaxReceived <- Cardinality(Requests \cup Cancels \cup Calls)

\* The process runs until RunWithReconnect returns or a goroutine panics.
Alive == Client!Alive /\ ~Handler!Panicked

Init == Client!Init /\ Handler!Init /\ sig = "none" /\ late = 0
-----------------------------------------------------------------------------
\* The client by itself.
ClientStep ==
  /\ Alive
  /\ \/ Client!Reconnector \/ Client!DialOk \/ Client!ReadError
     \/ \E g \in Client!Runs : \/ Client!HeartbeatLoop(g) \/ Client!HbTick(g)
                               \/ Client!SendLoop(g) \/ Client!LinkFails(g)
  /\ UNCHANGED <<handlerVars, ctxDone, sig, late>>

\* readLoop has a message, and takes it if it is not too late.
Read == /\ Alive /\ Client!ReadMessage
        /\ late' = IF ctxDone THEN late + 1 ELSE late
        /\ UNCHANGED sig

\* readLoop hands message m to the handler.
ReadMessage(m) == Read /\ Handler!Receive(m)

\* A message of another type, which the handler only logs.
ReadOther == Read /\ UNCHANGED <<handlerVars, ctxDone>>

\* The handler by itself.
HandlerStep ==
  /\ Alive
  /\ \/ \E r \in Requests : \/ Handler!Register(r) \/ Handler!StartTask(r)
                            \/ Handler!Unregister(r) \/ Handler!TaskDone(r)
     \/ \E c \in Cancels : Handler!LookUp(c) \/ Handler!CallCancel(c)
     \/ \E m \in Calls : Handler!StartCall(m)
     \/ \E m \in Handler!Messages : Handler!Reject(m)
     \/ \E w \in {"first", "second"} : Handler!WaitBegins(w) \/ Handler!WaitReturns(w)
  /\ UNCHANGED <<clientVars, ctxDone, sig, late>>

\* An operation of the workspace ends.
Finish(m) ==
  /\ Alive /\ Handler!Finish(m)
  /\ UNCHANGED <<clientVars, ctxDone, sig, late>>

\* Mutant: the handler was never given the client.
SendResult_NoClient(m) ==
  /\ Alive
  /\ \/ m \in Requests /\ Handler!SendResult(m)
     \/ m \in Calls /\ Handler!SendCallResult(m)
  /\ UNCHANGED <<clientVars, sig, late>>

\* The handler sends a result: sendPayload calls Client.SendPayload.
SendResult(m) ==
  /\ Alive
  /\ Client!Submit(m)
  /\ \/ m \in Requests /\ Handler!SendResult(m)
     \/ m \in Calls /\ Handler!SendCallResult(m)
  /\ UNCHANGED <<sig, late>>
-----------------------------------------------------------------------------
(* The signal goroutine of runRunner.                                      *)

\* A signal has arrived: cancel().
Signal ==
  /\ Alive /\ sig = "none" /\ sig' = "count"
  /\ Client!CancelCtx /\ Handler!CancelCtx /\ UNCHANGED late

\* RunningTaskCount; with no task there is nothing to wait for.
CountNone ==
  /\ Alive /\ sig = "count" /\ sig' = "close"
  /\ \A t \in TaskIds : runningTask[t] = NoRequest
  /\ UNCHANGED <<clientVars, handlerVars, ctxDone, late>>

\* WaitForTasks is called, with 30 seconds, or with 5 the second time.
WaitFirst ==
  /\ Alive /\ sig = "count" /\ sig' = "first"
  /\ \E t \in TaskIds : runningTask[t] # NoRequest
  /\ Handler!WaitForTasks("first")
  /\ UNCHANGED <<clientVars, late>>

FirstTrue ==
  /\ Alive /\ sig = "first" /\ sig' = "close"
  /\ Handler!AllCompleted("first") /\ UNCHANGED <<clientVars, late>>

FirstFalse ==
  /\ Alive /\ sig = "first" /\ sig' = "cancelAll"
  /\ Handler!TimedOut("first") /\ UNCHANGED <<clientVars, late>>

CancelAll ==
  /\ Alive /\ sig = "cancelAll" /\ sig' = "again"
  /\ Handler!CancelAllTasks /\ UNCHANGED <<clientVars, late>>

WaitSecond ==
  /\ Alive /\ sig = "again" /\ sig' = "second"
  /\ Handler!WaitForTasks("second") /\ UNCHANGED <<clientVars, late>>

\* Mutant: the second wait has no time-out.
SecondReturns_NoTimeout ==
  /\ Alive /\ sig = "second" /\ sig' = "close"
  /\ Handler!AllCompleted("second")
  /\ UNCHANGED <<clientVars, late>>

\* The result of the second wait is ignored.
SecondReturns ==
  /\ Alive /\ sig = "second" /\ sig' = "close"
  /\ Handler!AllCompleted("second") \/ Handler!TimedOut("second")
  /\ UNCHANGED <<clientVars, late>>

CloseClient ==
  /\ Alive /\ sig = "close" /\ sig' = "done"
  /\ Client!Close /\ UNCHANGED <<handlerVars, late>>

SignalStep == \/ CountNone \/ WaitFirst \/ FirstTrue \/ FirstFalse \/ CancelAll
              \/ WaitSecond \/ SecondReturns \/ CloseClient

Ended == ~Alive /\ UNCHANGED vars

Next ==
  \/ ClientStep \/ ReadOther \/ HandlerStep \/ Signal \/ SignalStep \/ Ended
  \/ \E m \in Handler!Messages : ReadMessage(m)
  \/ \E m \in Requests \cup Calls : Finish(m) \/ SendResult(m)

Spec == Init /\ [][Next]_vars

\* Scheduling, the time-outs, and the client's own fairness.  An operation may
\* run for ever, also after its context has been cancelled.
FairSpec ==
  /\ Spec /\ WF_vars(SignalStep)
  /\ WF_vars(Client!Reconnector /\ UNCHANGED <<handlerVars, ctxDone, sig, late>>)
  /\ \A g \in Client!Runs :
       WF_vars(Client!SendLoop(g) /\ UNCHANGED <<handlerVars, ctxDone, sig, late>>)
  /\ \A m \in Requests \cup Calls : WF_vars(SendResult(m))
-----------------------------------------------------------------------------
\* "Cancel context to stop accepting new tasks" (main.go:211): the message the
\* read loop is waiting for when the signal comes is the last one it accepts,
\* whatever the client is doing at that moment.
AtMostOneLate == late <= 1

\* The handler keeps the client's side of the bargain: whenever it has a result
\* to send there has been a connection, and this result was not sent before, so
\* that the assumptions under which WsClient was checked hold in the program.
SubmitNeverBlocked == \A m \in Requests \cup Calls :
  pc[m] \in {"ok", "error"} => m \notin submitted /\ conn > 0

\* Send has refused result m: the channel is full, and m is nowhere.
Refused(m) ==
  /\ m \in submitted /\ Client!Places(Client!Result(m)) = {}
  /\ Len(queue[sendCh]) = SendCap

\* A task or a call that ends while a connection is served has its result
\* written, if the connection lasts and nobody stops the runner, unless heartbeats
\* and other results have filled the channel at the moment it is sent.
FinishedIsSent == \A r \in Requests \cup Calls :
  (pc[r] \in {"ok", "error"} /\ Client!Running)
    ~> (\/ \E k \in Client!Runs : Client!OnWire(r, k)
        \/ Refused(r)
        \/ ~Client!Running \/ link[conn] # "open" \/ ctxDone \/ ~Alive)

\* After a signal the process ends, even if a task never does: both waits have
\* a time-out, and Close wakes the read loop.
SignalEnds == sig # "none" ~> ~Alive
-----------------------------------------------------------------------------
(* What the comments say and the code does not do.                         *)

\* main.go:214, "Wait for running tasks to complete (with timeout)": the
\* process does not end while a task runs and the time-out has not passed.
ExitWaitsForTasks ==
  ~Client!Alive /\ wait["first"] = "waiting" =>
    \A r \in Requests : pc[r] \notin Handler!Counted

=============================================================================
