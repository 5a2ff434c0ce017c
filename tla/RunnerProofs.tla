---------------------------- MODULE RunnerProofs ----------------------------
(***************************************************************************)
(* Proofs about Runner, for any messages, connections and buffers.         *)
(*                                                                         *)
(* Seen from the client the program is a behaviour of WsClient, and seen   *)
(* from the handler it is one of TaskHandler: what is proved of these two  *)
(* modules holds of the program.                                           *)
(***************************************************************************)
EXTENDS Runner, TLAPS

\* A message the read loop takes after the signal.
Exits   == {"exitCtx", "exitClosed", "exitGaveUp"}
Leaving == {"return", "checkClosed", "newDone", "newSend", "top"} \cup Exits

\* The read loop accepts one message after the signal, and then ends.
LateOnce ==
  /\ late \in {0, 1}
  /\ late = 1 => ctxDone /\ rc \in Leaving

\* Messages come from a connection.
Connected ==
  /\ conn \in Nat
  /\ rc \in {"welcome", "start", "check", "read"} => conn > 0
  /\ \A m \in Handler!Messages : pc[m] # "none" => conn > 0

\* What a message goes through before its result is sent.
Before == {"none", "arrived", "registered", "running", "ok", "error"}

\* A result has not been submitted before it is sent.
Unsent ==
  /\ pc = [m \in Handler!Messages |-> pc[m]]
  /\ \A m \in Requests \cup Calls : pc[m] \in Before => m \notin submitted

RInv == LateOnce /\ Connected /\ Unsent
-----------------------------------------------------------------------------
\* The client's part of the variables, and the handler's.
LEMMA ClientSteps == [Next]_vars => [Client!Next]_(Client!vars)
<1> SUFFICES ASSUME [Next]_vars PROVE [Client!Next]_(Client!vars)
  OBVIOUS
<1> USE DEF Client!vars, Client!chanVars, Client!stopVars, clientVars
<1>1. CASE ClientStep
  BY <1>1 DEF ClientStep, Client!Next
<1>2. CASE ReadOther \/ \E m \in Handler!Messages : ReadMessage(m)
  BY <1>2 DEF ReadOther, ReadMessage, Read, Client!Next
<1>3. CASE HandlerStep \/ \E m \in Requests \cup Calls : Finish(m)
  BY <1>3 DEF HandlerStep, Finish
<1>4. CASE \E m \in Requests \cup Calls : SendResult(m)
  BY <1>4 DEF SendResult, Client!Next
<1>5. CASE Signal
  BY <1>5 DEF Signal, Client!Next
<1>6. CASE CloseClient
  BY <1>6 DEF CloseClient, Client!Next
<1>7. CASE CountNone \/ WaitFirst \/ FirstTrue \/ FirstFalse \/ CancelAll \/ WaitSecond \/ SecondReturns
  BY <1>7 DEF CountNone, WaitFirst, FirstTrue, FirstFalse, CancelAll, WaitSecond, SecondReturns,
     Handler!WaitForTasks, Handler!AllCompleted, Handler!TimedOut, Handler!CancelAllTasks
<1>8. CASE UNCHANGED vars
  BY <1>8 DEF vars
<1> QED
  BY <1>1, <1>2, <1>3, <1>4, <1>5, <1>6, <1>7, <1>8 DEF Next, SignalStep, Ended

LEMMA HandlerSteps == [Next]_vars => [Handler!Next]_(Handler!vars)
<1> SUFFICES ASSUME [Next]_vars PROVE [Handler!Next]_(Handler!vars)
  OBVIOUS
<1> USE DEF Handler!vars, handlerVars
<1>1. CASE ClientStep \/ ReadOther
  BY <1>1 DEF ClientStep, ReadOther
<1>2. CASE \E m \in Handler!Messages : ReadMessage(m)
  BY <1>2 DEF ReadMessage, Handler!Next
<1>3. CASE HandlerStep
  BY <1>3 DEF HandlerStep, Handler!Next, Handler!Task, Handler!Cancel, Handler!Call,
     Handler!Waiter, Handler!Messages
<1>4. CASE \E m \in Requests \cup Calls : Finish(m)
  BY <1>4 DEF Finish, Handler!Next
<1>5. CASE \E m \in Requests \cup Calls : SendResult(m)
  BY <1>5 DEF SendResult, Handler!Next, Handler!Task, Handler!Call
<1>6. CASE Signal
  BY <1>6 DEF Signal, Handler!Next
<1>7. CASE WaitFirst \/ WaitSecond
  BY <1>7 DEF WaitFirst, WaitSecond, Handler!Next
<1>8. CASE FirstTrue \/ FirstFalse \/ SecondReturns
  BY <1>8 DEF FirstTrue, FirstFalse, SecondReturns, Handler!Next, Handler!Waiter
<1>9. CASE CancelAll
  BY <1>9 DEF CancelAll, Handler!Next
<1>10. CASE CountNone \/ CloseClient
  BY <1>10 DEF CountNone, CloseClient, Client!Close
<1>11. CASE UNCHANGED vars
  BY <1>11 DEF vars
<1> QED
  BY <1>1, <1>2, <1>3, <1>4, <1>5, <1>6, <1>7, <1>8, <1>9, <1>10, <1>11 DEF Next, SignalStep, Ended

\* The client in the program is the client of WsClient.
THEOREM ClientInProgram == Spec => Client!Spec
<1>1. Init => Client!Init
  BY DEF Init
<1> QED
  BY <1>1, ClientSteps, PTL DEF Spec, Client!Spec

\* The handler in the program is the handler of TaskHandler.
THEOREM HandlerInProgram == Spec => Handler!Spec
<1>1. Init => Handler!Init
  BY DEF Init
<1> QED
  BY <1>1, HandlerSteps, PTL DEF Spec, Handler!Spec
-----------------------------------------------------------------------------
(* What the two say to each other.                                         *)

\* A step of the reconnector never leaves Leaving once the context is done, and
\* gets to the read loop by a connection.
LEMMA ReconnectorKeeps ==
  ASSUME LateOnce, conn \in Nat, rc \in {"welcome", "start", "check", "read"} => conn > 0,
         Client!Reconnector \/ Client!DialOk \/ Client!ReadError
  PROVE  /\ ctxDone /\ rc \in Leaving => rc' \in Leaving
         /\ conn' \in Nat /\ conn' >= conn /\ UNCHANGED <<ctxDone, submitted>>
         /\ rc' \in {"welcome", "start", "check", "read"} => conn' > 0
<1> USE DEF Leaving, Exits, Client!chanVars, Client!stopVars, Client!Goto
<1>1. CASE Client!Top \/ Client!BackoffCancelled \/ Client!ReadCheck \/ Client!ReadError
           \/ Client!ReadClosed \/ Client!ReturnClosed
  BY <1>1 DEF Client!Top, Client!BackoffCancelled, Client!ReadCheck, Client!ReadError,
              Client!ReadClosed, Client!ReturnClosed
<1>2. CASE Client!DialOk \/ Client!DialFail \/ Client!BackoffElapsed \/ Client!Welcomed
  BY <1>2 DEF Client!DialOk, Client!DialFail, Client!BackoffElapsed, Client!Welcomed
<1>3. CASE Client!StartRun \/ Client!CloseDone \/ Client!ResetEnvInfo \/ Client!NewDoneCh
           \/ Client!NewSendCh
  BY <1>3 DEF Client!StartRun, Client!CloseDone, Client!ResetEnvInfo, Client!NewDoneCh, Client!NewSendCh
<1> QED
  BY <1>1, <1>2, <1>3 DEF Client!Reconnector

\* The loops and the network move neither the reconnector nor the results.
LEMMA LoopsKeep ==
  ASSUME NEW g, \/ Client!HeartbeatLoop(g) \/ Client!HbTick(g)
                \/ Client!SendLoop(g) \/ Client!LinkFails(g)
  PROVE  UNCHANGED <<rc, conn, ctxDone, submitted>>
BY DEF Client!HeartbeatLoop, Client!HbLock, Client!HbPush, Client!HbEval, Client!HbStop, Client!HbTick,
       Client!SendLoop, Client!SlStep, Client!SlEvalDone, Client!SlEvalSend, Client!SlStop, Client!SlTake,
       Client!SlConn, Client!SlWritten, Client!SlWriteError, Client!LinkFails, Client!stopVars

\* A message that is handled goes on, and never back to before its result.
LEMMA GotoKeeps ==
  ASSUME Unsent, NEW m \in Handler!Messages, NEW from, NEW to, Handler!Goto(m, from, to)
  PROVE  /\ pc' = [x \in Handler!Messages |-> pc'[x]]
         /\ pc[m] = from /\ pc'[m] = to
         /\ \A x \in Handler!Messages \ {m} : pc'[x] = pc[x]
BY DEF Unsent, Handler!Goto

LEMMA NextRInv ==
  ASSUME RInv, [Next]_vars PROVE RInv'
<1> USE DEF RInv
<1>1. CASE ClientStep
  <2>1. /\ UNCHANGED <<pc, late, ctxDone, submitted>>
        /\ ctxDone /\ rc \in Leaving => rc' \in Leaving
        /\ conn' \in Nat /\ conn' >= conn
        /\ rc' \in {"welcome", "start", "check", "read"} => conn' > 0
    BY <1>1, ReconnectorKeeps, LoopsKeep DEF ClientStep, Connected, handlerVars
  <2> QED
    BY <2>1 DEF LateOnce, Connected, Unsent
<1>2. CASE Read /\ UNCHANGED pc
  BY <1>2 DEF Read, Client!ReadMessage, Client!Goto, Client!stopVars, LateOnce, Connected, Unsent,
     Leaving, Exits
<1>3. ASSUME NEW m \in Handler!Messages, Read, Handler!Goto(m, "none", "arrived") PROVE RInv'
  <2>1. /\ rc = "read" /\ rc' \in {"read", "return"} /\ (ctxDone => rc' = "return")
        /\ late' = (IF ctxDone THEN late + 1 ELSE late)
        /\ UNCHANGED <<conn, ctxDone, submitted>>
    BY <1>3 DEF Read, Client!ReadMessage, Client!Goto, Client!stopVars
  <2>2. LateOnce'
    BY <2>1 DEF LateOnce, Leaving, Exits
  <2>3. Connected'
    BY <2>1 DEF Connected
  <2>4. Unsent'
    BY <1>3, <2>1, GotoKeeps DEF Unsent, Before, Handler!Messages
  <2> QED
    BY <2>2, <2>3, <2>4
<1>4. ASSUME NEW m \in Handler!Messages, NEW from, NEW to, from # "none",
             to \in Before => from \in Before,
             Handler!Goto(m, from, to), UNCHANGED <<rc, conn, late, ctxDone, submitted>>
      PROVE  RInv'
  <2>1. Connected'
    BY <1>4, GotoKeeps DEF Connected
  <2>2. Unsent'
    BY <1>4, GotoKeeps DEF Unsent, Handler!Messages
  <2> QED
    BY <1>4, <2>1, <2>2 DEF LateOnce
<1>5. CASE HandlerStep
  <2>1. UNCHANGED <<rc, conn, late, ctxDone, submitted>>
    BY <1>5 DEF HandlerStep, clientVars
  <2>2. CASE UNCHANGED pc
    BY <2>1, <2>2 DEF LateOnce, Connected, Unsent
  <2>3. CASE \E m \in Handler!Messages, from \in Before \ {"none"},
               to \in {"registered", "running", "rejected"} : Handler!Goto(m, from, to)
    BY <1>4, <2>1, <2>3
  <2>4. CASE \E m \in Handler!Messages, from \in {"arrived", "sent", "unregistered", "looked"},
               to \in {"unregistered", "done", "looked"} : Handler!Goto(m, from, to)
    <3>1. PICK m \in Handler!Messages, from \in {"arrived", "sent", "unregistered", "looked"},
               to \in {"unregistered", "done", "looked"} : Handler!Goto(m, from, to)
      BY <2>4
    <3>2. from # "none" /\ to \notin Before
      BY DEF Before
    <3> QED
      BY <1>4, <2>1, <3>1, <3>2
  <2>5. ASSUME NEW r \in Requests,
               \/ Handler!Register(r) \/ Handler!StartTask(r)
               \/ Handler!Unregister(r) \/ Handler!TaskDone(r)
        PROVE  RInv'
    BY <2>3, <2>4, <2>5 DEF Handler!Register, Handler!StartTask, Handler!Unregister,
       Handler!TaskDone, Handler!Messages, Before
  <2>6. ASSUME NEW c \in Cancels, Handler!LookUp(c) \/ Handler!CallCancel(c) PROVE RInv'
    BY <2>4, <2>6 DEF Handler!LookUp, Handler!CallCancel, Handler!Messages
  <2>7. ASSUME NEW m \in Handler!Messages, Handler!Reject(m) \/ (m \in Calls /\ Handler!StartCall(m))
        PROVE  RInv'
    BY <2>3, <2>7 DEF Handler!Reject, Handler!StartCall, Before
  <2>8. ASSUME NEW w, Handler!WaitBegins(w) \/ Handler!WaitReturns(w) PROVE UNCHANGED pc
    BY <2>8 DEF Handler!WaitBegins, Handler!WaitReturns
  <2> QED
    BY <1>5, <2>2, <2>5, <2>6, <2>7, <2>8 DEF HandlerStep, Handler!Messages
<1>6. ASSUME NEW m \in Requests \cup Calls, Finish(m) PROVE RInv'
  BY <1>4, <1>6 DEF Finish, Handler!Finish, Handler!Messages, clientVars, Before
<1>7. ASSUME NEW m \in Requests \cup Calls, SendResult(m) PROVE RInv'
  <2>1. /\ UNCHANGED <<rc, conn, late, ctxDone>> /\ submitted' = submitted \cup {m}
        /\ m \in Handler!Messages
    BY <1>7 DEF SendResult, Client!Submit, Client!stopVars, Handler!Messages
  <2>2. \E from, to : /\ from \in {"ok", "error"} /\ to \in {"sent", "done"}
                      /\ Handler!Goto(m, from, to)
    BY <1>7 DEF SendResult, Handler!SendResult, Handler!SendCallResult
  <2>3. PICK from, to : from \in {"ok", "error"} /\ to \in {"sent", "done"} /\ Handler!Goto(m, from, to)
    BY <2>2
  <2>4. Connected'
    BY <2>1, <2>3, GotoKeeps DEF Connected
  <2>5. Unsent'
    BY <2>1, <2>3, GotoKeeps DEF Unsent, Before, Handler!Messages
  <2> QED
    BY <2>1, <2>4, <2>5 DEF LateOnce
<1>8. CASE Signal
  BY <1>8 DEF Signal, Client!CancelCtx, Handler!CancelCtx, LateOnce, Connected, Unsent
<1>9. CASE SignalStep
  <2>1. UNCHANGED <<rc, conn, late, ctxDone, submitted, pc>>
    BY <1>9 DEF SignalStep, CountNone, WaitFirst, FirstTrue, FirstFalse, CancelAll, WaitSecond,
       SecondReturns, CloseClient, Client!Close, clientVars, handlerVars, Handler!WaitForTasks,
       Handler!AllCompleted, Handler!TimedOut, Handler!CancelAllTasks
  <2> QED
    BY <2>1 DEF LateOnce, Connected, Unsent
<1>10. CASE UNCHANGED vars
  BY <1>10 DEF vars, clientVars, handlerVars, LateOnce, Connected, Unsent
<1>11. ASSUME NEW m \in Handler!Messages, ReadMessage(m) PROVE RInv'
  BY <1>3, <1>11 DEF ReadMessage, Handler!Receive
<1>12. CASE ReadOther
  BY <1>2, <1>12 DEF ReadOther, handlerVars
<1> QED
  BY <1>1, <1>5, <1>6, <1>7, <1>8, <1>9, <1>10, <1>11, <1>12 DEF Next, Ended

LEMMA RInvariant == Spec => []RInv
<1>1. Init => RInv
  BY DEF Init, Client!Init, Handler!Init, RInv, LateOnce, Connected, Unsent
<1> QED
  BY <1>1, NextRInv, PTL DEF Spec

\* At most one message is accepted after a signal (AtMostOneLate of module
\* Runner), wherever the reconnector is when the signal comes.
THEOREM OneLateMessage == Spec => []AtMostOneLate
<1>1. RInv => AtMostOneLate
  BY DEF RInv, LateOnce, AtMostOneLate
<1> QED
  BY <1>1, RInvariant, PTL

\* The handler sends a result only once, and only after a connection
\* (SubmitNeverBlocked of module Runner), as the client's model assumes.
THEOREM SubmitsAreLegal == Spec => []SubmitNeverBlocked
<1>1. RInv => SubmitNeverBlocked
  BY DEF RInv, Unsent, Before, Connected, SubmitNeverBlocked, Handler!Messages
<1> QED
  BY <1>1, RInvariant, PTL
=============================================================================
