--------------------------- MODULE WsClientProofs ---------------------------
(***************************************************************************)
(* Proofs about WsClient, for any number of runs, results and heartbeats.  *)
(*                                                                         *)
(* The heart of the argument is how the channel objects follow the runs:   *)
(* while a connection is served c.doneCh and c.sendCh are the objects made *)
(* for it, all the earlier doneCh objects are closed, and this one is not. *)
(***************************************************************************)
EXTENDS WsClient, SequenceTheorems, FiniteSetTheorems, TLAPS

\* The reconnector is between DialOk and the replacement of doneCh.
Serving == {"welcome", "start", "check", "read", "return", "checkClosed", "newDone"}
\* It is between the replacement of sendCh and DialOk.
Between == {"top", "dial", "backoff"}
\* doneCh has been closed and has not been replaced yet.
Closing == {"checkClosed", "newDone"}

\* The channel objects c.doneCh and c.sendCh refer to.
Generation ==
  /\ rc \in Serving => doneCh = conn /\ sendCh = conn
  /\ rc = "newSend" => doneCh = conn + 1 /\ sendCh = conn
  /\ rc \in Between => doneCh = conn + 1 /\ sendCh = conn + 1
  /\ rc \in Serving \cup {"newSend"} => conn > 0

\* The doneCh objects that are closed: the earlier ones, and the current one
\* in Closing.
ClosedDone ==
  /\ doneClosed \subseteq 1..doneCh
  /\ rc \in Closing => doneCh \in doneClosed
  /\ rc \notin Closing \cup Exits => doneCh \notin doneClosed

\* Counting the attempts.
Attempts == rc # "exitGaveUp" => attempt <= MaxReconnectAttempts

\* What the send loops hold.
Held == \A g \in Runs :
  /\ sl[g].pc = "wait" => sl[g].send \in Chans
  /\ sl[g].pc \in {"got", "write"} => sl[g].msg \in Messages

\* The loops of a run that has not been started.
NotStarted == \A g \in Runs :
  g > conn \/ (g = conn /\ rc \in {"welcome", "start"}) =>
    hb[g].pc = "none" /\ hb[g].done = 0 /\ sl[g] = Idle

IInv == /\ TypeOK /\ Generation /\ ClosedDone /\ Attempts /\ Held /\ NotStarted
        /\ NoOrphanWait /\ RunHasLoops
-----------------------------------------------------------------------------
LEMMA InitIInv == Init => IInv
<1> SUFFICES ASSUME Init PROVE IInv
  OBVIOUS
<1> USE CapAssumption, BackoffAssumption, BoundAssumption DEF Init
<1>1. TypeOK
  <2>1. /\ queue \in [Chans -> Seq(Messages)]
        /\ \A c \in Chans : Len(queue[c]) <= SendCap
    BY EmptySeq
  <2>2. sl \in [Runs -> SlStates]
    BY DEF Idle, SlStates
  <2>3. hb \in [Runs -> HbStates]
    BY DEF HbStates
  <2>4. wire \in [Runs -> Seq(Messages)] /\ link \in [Runs -> {"none", "open", "failed", "closed"}]
    <3>1. <<>> \in Seq(Messages)
      BY EmptySeq
    <3> QED
      BY <3>1
  <2>5. attempt \in 0..(MaxReconnectAttempts + 1)
       /\ delay \in InitialReconnectDelay..MaxReconnectDelay
    OBVIOUS
  <2>6. doneCh \in Chans /\ sendCh \in Chans /\ conn \in 0..MaxRuns /\ beats \in 0..MaxBeats
    BY DEF Chans
  <2> QED
    BY <2>1, <2>2, <2>3, <2>4, <2>5, <2>6 DEF TypeOK, RcStates
<1>2. Generation /\ ClosedDone /\ Attempts
  BY DEF Generation, ClosedDone, Attempts, Serving, Between, Closing, Exits
<1>3. Held /\ NotStarted /\ NoOrphanWait /\ RunHasLoops
  BY DEF Held, NotStarted, NoOrphanWait, RunHasLoops, Running, Idle, Runs
<1> QED
  BY <1>1, <1>2, <1>3 DEF IInv

-----------------------------------------------------------------------------
(* Type correctness.                                                       *)

LEMMA SendType ==
  ASSUME TypeOK, NEW m \in Messages, Send(m)
  PROVE  /\ queue' \in [Chans -> Seq(Messages)]
         /\ \A c \in Chans : Len(queue'[c]) <= SendCap
<1> USE CapAssumption DEF TypeOK, Send
<1>1. CASE ~(Len(queue[sendCh]) < SendCap)
  BY <1>1
<1>2. CASE Len(queue[sendCh]) < SendCap
  <2>1. queue' = [queue EXCEPT ![sendCh] = Append(queue[sendCh], m)]
    BY <1>2
  <2>2. /\ Append(queue[sendCh], m) \in Seq(Messages)
        /\ Len(Append(queue[sendCh], m)) = Len(queue[sendCh]) + 1
    BY AppendProperties
  <2>3. Len(queue[sendCh]) \in Nat
    BY LenProperties
  <2> QED
    BY <1>2, <2>1, <2>2, <2>3
<1> QED
  BY <1>1, <1>2

\* A step of a send loop that only changes the record of that loop.
LEMMA SlStepType ==
  ASSUME TypeOK, NEW g \in Runs,
         NEW loop \in SlStates, SlStep(g, loop)
  PROVE  TypeOK'
BY DEF TypeOK, SlStep, chanVars, stopVars

LEMMA TypeNext ==
  ASSUME TypeOK, Generation, Attempts, Held, [Next]_vars
  PROVE  TypeOK'
<1> USE CapAssumption, BackoffAssumption, BoundAssumption
<1>1. CASE Reconnector \/ DialOk \/ ReadMessage \/ ReadError
  <2> USE DEF TypeOK, chanVars, stopVars, RcStates, Exits
  <2>1. CASE Top \/ BackoffCancelled \/ ReadCheck \/ ReadMessage \/ ReadError
             \/ ReadClosed \/ ReturnClosed
    BY <2>1 DEF Top, BackoffCancelled, ReadCheck, ReadMessage, ReadError,
                ReadClosed, ReturnClosed, Goto
  <2>2. CASE DialOk
    <3>1. link' \in [Runs -> {"none", "open", "failed", "closed"}]
      BY <2>2 DEF DialOk
    <3>2. conn' \in 0..MaxRuns
      BY <2>2 DEF DialOk
    <3> QED
      BY <2>2, <3>1, <3>2 DEF DialOk
  <2>3. CASE DialFail
    BY <2>3 DEF DialFail, Attempts
  <2>4. CASE BackoffElapsed
    BY <2>4 DEF BackoffElapsed
  <2>5. CASE Welcomed
    BY <2>5 DEF Welcomed
  <2>6. CASE StartRun
    <3>1. hb' \in [Runs -> HbStates]
      BY <2>6 DEF StartRun, HbStates
    <3>2. sl' \in [Runs -> SlStates]
      BY <2>6 DEF StartRun, SlStates
    <3> QED
      BY <2>6, <3>1, <3>2 DEF StartRun
  <2>7. CASE CloseDone \/ ResetEnvInfo
    BY <2>7 DEF CloseDone, ResetEnvInfo
  <2>8. CASE NewDoneCh
    BY <2>8 DEF NewDoneCh, Chans, Generation, Serving
  <2>9. CASE NewSendCh
    BY <2>9 DEF NewSendCh, Chans, Generation, Serving
  <2> QED
    BY <1>1, <2>1, <2>2, <2>3, <2>4, <2>5, <2>6, <2>7, <2>8, <2>9 DEF Reconnector
<1>2. ASSUME NEW g \in Runs, HeartbeatLoop(g) \/ HbTick(g)
      PROVE  TypeOK'
  <2>0. doneCh \in 0..(MaxRuns + 1) /\ hb \in [Runs -> HbStates] /\ envInfoSent \in BOOLEAN
    BY DEF TypeOK, Chans
  <2>1. CASE HbPush(g)
    <3>0. hb[g].env \in BOOLEAN
      BY DEF TypeOK, HbStates
    <3>1. Heartbeat(hb[g].env) \in Messages
      BY <3>0 DEF Messages
    <3>2. /\ queue' \in [Chans -> Seq(Messages)]
          /\ \A c \in Chans : Len(queue'[c]) <= SendCap
      BY <2>1, <3>1, SendType DEF HbPush
    <3>3. hb' \in [Runs -> HbStates]
      BY <2>1 DEF HbPush, TypeOK, HbStates
    <3> QED
      BY <2>1, <3>2, <3>3 DEF HbPush, TypeOK, chanVars, stopVars
  <2>2. CASE HbLock(g) \/ HbEval(g) \/ HbStop(g) \/ HbTick(g)
    <3>1. hb' \in [Runs -> HbStates]
      <4>1. CASE HbLock(g)
        BY <2>0, <4>1 DEF HbLock, HbStates
      <4>2. CASE HbEval(g)
        BY <2>0, <4>2 DEF HbEval, HbStates
      <4>3. CASE HbStop(g) \/ HbTick(g)
        BY <2>0, <4>3 DEF HbStop, HbTick, HbStates
      <4> QED
        BY <2>2, <4>1, <4>2, <4>3
    <3>2. beats' \in 0..MaxBeats
      BY <2>2 DEF HbLock, HbEval, HbStop, HbTick, TypeOK
    <3>3. envInfoSent' \in BOOLEAN
      BY <2>2 DEF HbLock, HbEval, HbStop, HbTick, TypeOK
    <3> QED
      BY <2>2, <3>1, <3>2, <3>3 DEF HbLock, HbEval, HbStop, HbTick, TypeOK, chanVars, stopVars
  <2> QED
    BY <1>2, <2>1, <2>2 DEF HeartbeatLoop
<1>3. ASSUME NEW g \in Runs, SendLoop(g)
      PROVE  TypeOK'
  <2>0. sl[g] \in SlStates /\ Idle \in SlStates
    BY DEF TypeOK, Idle, SlStates
  <2>a. doneCh \in 0..(MaxRuns + 1) /\ sendCh \in 0..(MaxRuns + 1)
    BY DEF TypeOK, Chans
  <2>1. CASE SlEvalDone(g)
    <3>1. [sl[g] EXCEPT !.pc = "evalSend", !.done = doneCh] \in SlStates
      BY <2>0, <2>a DEF SlStates
    <3> QED
      BY <2>1, <3>1, SlStepType DEF SlEvalDone
  <2>2. CASE SlEvalSend(g)
    <3>1. [sl[g] EXCEPT !.pc = "wait", !.send = sendCh] \in SlStates
      BY <2>0, <2>a DEF SlStates
    <3> QED
      BY <2>2, <3>1, SlStepType DEF SlEvalSend
  <2>3. CASE SlStop(g)
    <3>1. [Idle EXCEPT !.pc = "dead"] \in SlStates
      BY <2>0 DEF SlStates
    <3> QED
      BY <2>3, <3>1, SlStepType DEF SlStop
  <2>4. CASE SlConn(g)
    <3>1. [sl[g] EXCEPT !.pc = "write", !.conn = conn] \in SlStates
      BY <2>0 DEF TypeOK, SlStates
    <3> QED
      BY <2>4, <3>1, SlStepType DEF SlConn
  <2>5. CASE SlWriteError(g)
    <3>1. [Idle EXCEPT !.pc = "evalDone"] \in SlStates
      BY <2>0 DEF SlStates
    <3> QED
      BY <2>5, <3>1, SlStepType DEF SlWriteError
  <2>6. CASE SlTake(g)
    <3> DEFINE c == sl[g].send
    <3>1. c \in Chans /\ queue[c] \in Seq(Messages) /\ queue[c] # <<>>
      BY <2>6 DEF SlTake, Held, TypeOK
    <3>2. /\ Head(queue[c]) \in Messages
          /\ Tail(queue[c]) \in Seq(Messages)
          /\ Len(Tail(queue[c])) = Len(queue[c]) - 1
      BY <3>1, HeadTailProperties
    <3>3. [Idle EXCEPT !.pc = "got", !.msg = Head(queue[c])] \in SlStates
      BY <2>0, <3>2 DEF SlStates
    <3>4. Len(queue[c]) \in Nat
      BY <3>1, LenProperties
    <3>5. /\ queue' \in [Chans -> Seq(Messages)]
          /\ \A k \in Chans : Len(queue'[k]) <= SendCap
      <4>1. queue' = [queue EXCEPT ![c] = Tail(queue[c])]
        BY <2>6 DEF SlTake
      <4> HIDE DEF c
      <4>2. \A k \in Chans : queue'[k] = IF k = c THEN Tail(queue[c]) ELSE queue[k]
        BY <4>1 DEF TypeOK
      <4> QED
        BY <3>1, <3>2, <3>4, <4>1, <4>2, CapAssumption DEF TypeOK
    <3>6. sl' \in [Runs -> SlStates]
      BY <2>6, <3>3 DEF SlTake, TypeOK
    <3> QED
      BY <2>6, <3>5, <3>6 DEF SlTake, TypeOK, chanVars, stopVars
  <2>7. CASE SlWritten(g)
    <3>1. [Idle EXCEPT !.pc = "evalDone"] \in SlStates /\ sl[g].msg \in Messages
      BY <2>0, <2>7 DEF SlWritten, Held, SlStates
    <3>2. wire' \in [Runs -> Seq(Messages)]
      <4>1. \A k \in Runs : wire[k] \in Seq(Messages) /\ Append(wire[k], sl[g].msg) \in Seq(Messages)
        BY <3>1, AppendProperties DEF TypeOK
      <4> QED
        BY <2>7, <4>1 DEF SlWritten, TypeOK
    <3>3. sl' \in [Runs -> SlStates]
      BY <2>7, <3>1 DEF SlWritten, TypeOK
    <3> QED
      BY <2>7, <3>2, <3>3 DEF SlWritten, TypeOK, chanVars, stopVars
  <2> QED
    BY <1>3, <2>1, <2>2, <2>3, <2>4, <2>5, <2>6, <2>7 DEF SendLoop
<1>4. ASSUME NEW r \in Results, Submit(r)
      PROVE  TypeOK'
  <2>1. Result(r) \in Messages
    BY DEF Messages
  <2>2. /\ queue' \in [Chans -> Seq(Messages)]
        /\ \A c \in Chans : Len(queue'[c]) <= SendCap
    BY <1>4, <2>1, SendType DEF Submit
  <2> QED
    BY <1>4, <2>2 DEF Submit, TypeOK, chanVars, stopVars
<1>5. CASE CancelCtx \/ Close \/ \E k \in Runs : LinkFails(k)
  BY <1>5 DEF CancelCtx, Close, LinkFails, TypeOK, chanVars, stopVars
<1>6. CASE UNCHANGED vars
  BY <1>6 DEF vars, TypeOK, chanVars, stopVars
<1> QED
  BY <1>1, <1>2, <1>3, <1>4, <1>5, <1>6 DEF Next, Ended

-----------------------------------------------------------------------------
(* The channel objects and the attempts.                                   *)

\* The steps of everybody but the reconnector leave its state alone.
LEMMA OthersKeepControl ==
  ASSUME \/ \E g \in Runs : HeartbeatLoop(g) \/ HbTick(g) \/ SendLoop(g) \/ LinkFails(g)
         \/ \E r \in Results : Submit(r)
         \/ CancelCtx \/ Close \/ UNCHANGED vars
  PROVE  UNCHANGED <<rc, attempt, conn, doneCh, sendCh, doneClosed>>
BY DEF HeartbeatLoop, HbLock, HbPush, HbEval, HbStop, HbTick, SendLoop, SlStep,
       SlEvalDone, SlEvalSend, SlStop, SlTake, SlConn, SlWritten, SlWriteError,
       LinkFails, Submit, CancelCtx, Close, vars, chanVars

LEMMA ControlNext ==
  ASSUME TypeOK, Generation, ClosedDone, Attempts, [Next]_vars
  PROVE  Generation' /\ ClosedDone' /\ Attempts'
<1> USE BackoffAssumption, BoundAssumption
        DEF Generation, ClosedDone, Attempts, Serving, Between, Closing, Exits
<1>0. doneCh \in Nat /\ sendCh \in Nat /\ conn \in Nat /\ attempt \in Nat
  BY DEF TypeOK, Chans
<1>1. CASE Top \/ BackoffCancelled \/ ReadCheck \/ ReadMessage \/ ReadError
           \/ ReadClosed \/ ReturnClosed
  BY <1>1 DEF Top, BackoffCancelled, ReadCheck, ReadMessage, ReadError,
              ReadClosed, ReturnClosed, Goto, chanVars
<1>2. CASE DialOk
  BY <1>0, <1>2 DEF DialOk, chanVars
<1>3. CASE DialFail \/ BackoffElapsed \/ Welcomed \/ StartRun
  BY <1>0, <1>3 DEF DialFail, BackoffElapsed, Welcomed, StartRun, chanVars
<1>4. CASE CloseDone
  BY <1>0, <1>4 DEF CloseDone
<1>5. CASE ResetEnvInfo
  BY <1>5 DEF ResetEnvInfo, chanVars
<1>6. CASE NewDoneCh
  BY <1>0, <1>6 DEF NewDoneCh
<1>7. CASE NewSendCh
  BY <1>0, <1>7 DEF NewSendCh
<1>8. CASE UNCHANGED <<rc, attempt, conn, doneCh, sendCh, doneClosed>>
  BY <1>8
<1> QED
  BY <1>1, <1>2, <1>3, <1>4, <1>5, <1>6, <1>7, <1>8, OthersKeepControl
     DEF Next, Reconnector, Ended
-----------------------------------------------------------------------------
(* The loops.                                                              *)

\* A loop that is not running takes no step.
LEMMA LoopsNext ==
  ASSUME IInv, [Next]_vars
  PROVE  Held' /\ NotStarted' /\ NoOrphanWait' /\ RunHasLoops'
<1> USE BoundAssumption DEF IInv
<1>0. /\ doneCh \in Nat /\ sendCh \in Nat /\ conn \in Nat
      /\ doneCh \in Chans /\ sendCh \in Chans /\ conn <= MaxRuns
      /\ hb \in [Runs -> HbStates] /\ sl \in [Runs -> SlStates]
      /\ queue \in [Chans -> Seq(Messages)]
  BY DEF TypeOK, Chans
<1>a. 0 \notin doneClosed /\ (Running => conn \in Runs /\ doneCh \notin doneClosed)
  BY <1>0 DEF ClosedDone, Generation, Serving, Closing, Exits, Running, Runs
<1>1. CASE Top \/ BackoffCancelled \/ ReadCheck \/ ReadMessage \/ ReadError
           \/ ReadClosed \/ ReturnClosed
  BY <1>1 DEF Top, BackoffCancelled, ReadCheck, ReadMessage, ReadError, ReadClosed,
              ReturnClosed, Goto, chanVars, stopVars, Held, NotStarted,
              NoOrphanWait, RunHasLoops, Running, Exits
<1>2. CASE DialFail \/ BackoffElapsed \/ Welcomed \/ ResetEnvInfo \/ NewSendCh
  BY <1>2 DEF DialFail, BackoffElapsed, Welcomed, ResetEnvInfo, NewSendCh, chanVars,
              stopVars, Held, NotStarted, NoOrphanWait, RunHasLoops, Running
<1>3. CASE DialOk
  <2>1. NotStarted'
    BY <1>0, <1>3 DEF DialOk, NotStarted, Runs
  <2>2. Held' /\ NoOrphanWait' /\ RunHasLoops'
    BY <1>3 DEF DialOk, Held, NoOrphanWait, RunHasLoops, Running, chanVars
  <2> QED
    BY <2>1, <2>2
<1>4. CASE StartRun
  <2>0. conn \in Runs
    BY <1>0, <1>4 DEF StartRun, Generation, Serving, Runs
  <2>1. \A g \in Runs : g # conn => hb'[g] = hb[g] /\ sl'[g] = sl[g]
    BY <1>0, <1>4 DEF StartRun
  <2>2. hb[conn].done = 0 /\ sl[conn] = Idle
    BY <1>4, <2>0 DEF StartRun, NotStarted
  <2>3. hb'[conn].pc = "lock" /\ hb'[conn].done = 0
    BY <1>0, <1>4, <2>0, <2>2 DEF StartRun, HbStates
  <2>4. sl'[conn].pc = "evalDone" /\ sl'[conn].done = 0
    BY <1>0, <1>4, <2>0, <2>2 DEF StartRun, SlStates, Idle
  <2>5. Held' /\ NoOrphanWait'
    BY <1>4, <2>1, <2>3, <2>4 DEF StartRun, Held, NoOrphanWait, chanVars
  <2>6. NotStarted'
    BY <1>0, <1>4, <2>0, <2>1 DEF StartRun, NotStarted, Runs
  <2>7. RunHasLoops'
    BY <1>a, <1>4, <2>3, <2>4 DEF StartRun, RunHasLoops, chanVars
  <2> QED
    BY <2>5, <2>6, <2>7
<1>5. CASE CloseDone
  BY <1>5 DEF CloseDone, stopVars, Held, NotStarted, NoOrphanWait, RunHasLoops, Running
<1>6. CASE NewDoneCh
  \* The object that is replaced is closed: a loop that waits on it stops.
  <2>1. doneCh \in doneClosed
    BY <1>6 DEF NewDoneCh, ClosedDone, Closing
  <2>2. NoOrphanWait'
    BY <1>6, <2>1 DEF NewDoneCh, NoOrphanWait
  <2> QED
    BY <1>6, <2>2 DEF NewDoneCh, stopVars, Held, NotStarted, RunHasLoops, Running
<1>7. ASSUME NEW g \in Runs, HeartbeatLoop(g) \/ HbTick(g)
      PROVE  Held' /\ NotStarted' /\ NoOrphanWait' /\ RunHasLoops'
  <2>0. UNCHANGED <<rc, conn, doneCh, sendCh, doneClosed, closed, ctxDone, sl>>
    BY <1>7 DEF HeartbeatLoop, HbLock, HbPush, HbEval, HbStop, HbTick, chanVars, stopVars
  <2>1. \A h \in Runs : h # g => hb'[h] = hb[h]
    BY <1>0, <1>7 DEF HeartbeatLoop, HbLock, HbPush, HbEval, HbStop, HbTick
  <2>2. \/ /\ hb'[g].pc \in {"push", "eval"} /\ hb'[g].done = hb[g].done
           /\ hb[g].pc \in {"lock", "push"}
        \/ hb[g].pc = "eval" /\ hb'[g].pc = "wait" /\ hb'[g].done = doneCh
        \/ hb[g].pc = "wait" /\ hb'[g].pc = "lock" /\ hb'[g].done = 0
        \/ hb[g].pc = "wait" /\ hb'[g].pc = "dead" /\ MustStop(hb[g].done)
    <3>1. CASE HbLock(g) \/ HbPush(g)
      BY <1>0, <3>1 DEF HbLock, HbPush, HbStates
    <3>2. CASE HbEval(g)
      BY <1>0, <3>2 DEF HbEval, HbStates
    <3>3. CASE HbStop(g) \/ HbTick(g)
      BY <1>0, <3>3 DEF HbStop, HbTick, HbStates
    <3> QED
      BY <1>7, <3>1, <3>2, <3>3 DEF HeartbeatLoop
  <2>3. Held'
    BY <2>0 DEF Held
  <2>4. NotStarted'
    BY <2>0, <2>1, <2>2 DEF NotStarted
  <2>5. NoOrphanWait'
    BY <2>0, <2>1, <2>2 DEF NoOrphanWait
  <2>6. RunHasLoops'
    BY <1>a, <2>0, <2>1, <2>2 DEF RunHasLoops, Running, MustStop
  <2> QED
    BY <2>3, <2>4, <2>5, <2>6
<1>8. ASSUME NEW g \in Runs, SendLoop(g)
      PROVE  Held' /\ NotStarted' /\ NoOrphanWait' /\ RunHasLoops'
  <2>0. UNCHANGED <<rc, conn, doneCh, sendCh, doneClosed, closed, ctxDone, hb>>
    BY <1>8 DEF SendLoop, SlStep, SlEvalDone, SlEvalSend, SlStop, SlTake, SlConn,
                SlWritten, SlWriteError, chanVars, stopVars
  <2>1. \A h \in Runs : h # g => sl'[h] = sl[h]
    BY <1>0, <1>8 DEF SendLoop, SlStep, SlEvalDone, SlEvalSend, SlStop, SlTake,
                      SlConn, SlWritten, SlWriteError
  <2>2. \/ sl[g].pc = "evalDone" /\ sl'[g].pc = "evalSend" /\ sl'[g].done = doneCh
        \/ /\ sl[g].pc = "evalSend" /\ sl'[g].pc = "wait"
           /\ sl'[g].done = sl[g].done /\ sl'[g].send = sendCh
        \/ sl[g].pc = "wait" /\ sl'[g].pc = "dead" /\ MustStop(sl[g].done)
        \/ /\ sl[g].pc = "wait" /\ sl'[g].pc = "got"
           /\ sl'[g].done = 0 /\ sl'[g].msg \in Messages
        \/ /\ sl[g].pc = "got" /\ sl'[g].pc = "write"
           /\ sl'[g].done = sl[g].done /\ sl'[g].msg = sl[g].msg
        \/ sl[g].pc = "write" /\ sl'[g].pc = "evalDone" /\ sl'[g].done = 0
    <3>1. CASE SlEvalDone(g)
      BY <1>0, <3>1 DEF SlEvalDone, SlStep, SlStates
    <3>2. CASE SlEvalSend(g)
      BY <1>0, <3>2 DEF SlEvalSend, SlStep, SlStates
    <3>3. CASE SlStop(g)
      BY <1>0, <3>3 DEF SlStop, SlStep, Idle
    <3>4. CASE SlTake(g)
      <4>1. Head(queue[sl[g].send]) \in Messages
        BY <1>0, <3>4, HeadTailProperties DEF SlTake, Held
      <4> QED
        BY <1>0, <3>4, <4>1 DEF SlTake, Idle
    <3>5. CASE SlConn(g)
      BY <1>0, <3>5 DEF SlConn, SlStep, SlStates
    <3>6. CASE SlWritten(g) \/ SlWriteError(g)
      BY <1>0, <3>6 DEF SlWritten, SlWriteError, SlStep, Idle
    <3> QED
      BY <1>8, <3>1, <3>2, <3>3, <3>4, <3>5, <3>6 DEF SendLoop
  <2>3. Held'
    BY <1>0, <2>0, <2>1, <2>2 DEF Held
  <2>4. NotStarted'
    BY <2>0, <2>1, <2>2 DEF NotStarted, Idle
  <2>5. NoOrphanWait'
    BY <2>0, <2>1, <2>2 DEF NoOrphanWait
  <2>6. RunHasLoops'
    BY <1>a, <2>0, <2>1, <2>2 DEF RunHasLoops, Running, MustStop
  <2> QED
    BY <2>3, <2>4, <2>5, <2>6
<1>9. CASE \/ \E r \in Results : Submit(r)
           \/ CancelCtx \/ Close \/ (\E k \in Runs : LinkFails(k)) \/ UNCHANGED vars
  <2>1. UNCHANGED <<rc, conn, doneCh, sendCh, doneClosed, hb, sl>>
    BY <1>9 DEF Submit, CancelCtx, Close, LinkFails, vars, chanVars
  <2>2. (ctxDone => ctxDone') /\ (closed => closed')
    BY <1>9 DEF Submit, CancelCtx, Close, LinkFails, vars, stopVars
  <2> QED
    BY <2>1, <2>2 DEF Held, NotStarted, NoOrphanWait, RunHasLoops, Running
<1> QED
  BY <1>1, <1>2, <1>3, <1>4, <1>5, <1>6, <1>7, <1>8, <1>9 DEF Next, Reconnector, Ended
-----------------------------------------------------------------------------
(* The theorems.                                                           *)

\* Every step preserves the inductive invariant.
LEMMA NextIInv == IInv /\ [Next]_vars => IInv'
BY TypeNext, ControlNext, LoopsNext DEF IInv

\* A doneCh object that is about to be closed is not closed yet.
LEMMA IInvClosesOnce == IInv => DoneClosedOnce
BY DEF IInv, ClosedDone, Closing, Exits, DoneClosedOnce

LEMMA InvIInv == Spec => []IInv
<1>1. Init => IInv
  BY InitIInv
<1>2. IInv /\ [Next]_vars => IInv'
  BY NextIInv
<1> QED
  BY <1>1, <1>2, PTL DEF Spec

\* The variables keep their types, and no sendCh object ever holds more than
\* its capacity (Send drops instead of blocking).
THEOREM TypeCorrect == Spec => []TypeOK
<1>1. IInv => TypeOK
  BY DEF IInv
<1> QED
  BY <1>1, InvIInv, PTL

\* The deferred close(c.doneCh) of Run never closes a channel twice, however
\* many times the client has reconnected.
THEOREM ClosesOnce == Spec => []DoneClosedOnce
BY IInvClosesOnce, InvIInv, PTL

\* No heartbeat or send loop waits on a doneCh that has been replaced without
\* having been closed: no loop is leaked.
THEOREM NoLeakedLoop == Spec => []NoOrphanWait
<1>1. IInv => NoOrphanWait
  BY DEF IInv
<1> QED
  BY <1>1, InvIInv, PTL

\* A connection that is served has a live heartbeat loop and a live send loop,
\* whatever the loops of earlier runs have picked up.
THEOREM ServedByLoops == Spec => []RunHasLoops
<1>1. IInv => RunHasLoops
  BY DEF IInv
<1> QED
  BY <1>1, InvIInv, PTL
-----------------------------------------------------------------------------
(* The back-off.                                                           *)

\* Induction on the natural numbers, stated of sets: if m is not in S, adding
\* one maps the elements of S up to m into those that are not 0, one too few.
LEMMA SetInduction ==
  ASSUME NEW S, 0 \in S, \A n \in Nat : n \in S => n + 1 \in S
  PROVE  Nat \subseteq S
<1> SUFFICES ASSUME NEW m \in Nat, m \notin S PROVE FALSE
  OBVIOUS
<1> DEFINE T == {i \in 0..m : i \in S}
<1>1. IsFiniteSet(T)
  <2>1. IsFiniteSet(0..m) /\ T \in SUBSET (0..m)
    BY FS_Interval
  <2> HIDE DEF T
  <2> QED
    BY <2>1, FS_Subset
<1>2. [i \in T |-> i + 1] \in Injection(T, T \ {0}) /\ 0 \in T
  BY DEF Injection, IsInjective
<1> HIDE DEF T
<1>3. IsFiniteSet(T \ {0}) /\ Cardinality(T \ {0}) = Cardinality(T) - 1 /\ Cardinality(T) \in Nat
  BY <1>1, <1>2, FS_RemoveElement, FS_CardinalityType
<1>4. Cardinality(T) <= Cardinality(T \ {0})
  BY <1>2, <1>3, FS_Injection
<1> QED
  BY <1>3, <1>4

\* h holds the first n + 1 delays.
Delays(h, n) ==
  /\ h \in [0..n -> Nat] /\ h[0] = InitialReconnectDelay
  /\ \A k \in 1..n : h[k] = 2 * h[k - 1]

LEMMA DelaysExist == \A n \in Nat : \E h : Delays(h, n)
<1> DEFINE S == {n \in Nat : \E h : Delays(h, n)}
<1>1. 0 \in S
  <2>1. Delays([k \in 0..0 |-> InitialReconnectDelay], 0)
    BY BackoffAssumption DEF Delays
  <2> QED
    BY <2>1
<1>2. ASSUME NEW n \in Nat, n \in S PROVE n + 1 \in S
  <2>1. PICK h : Delays(h, n)
    BY <1>2
  <2> DEFINE g == [k \in 0..(n + 1) |-> IF k = n + 1 THEN 2 * h[n] ELSE h[k]]
  <2>2. Delays(g, n + 1)
    BY <2>1 DEF Delays
  <2> HIDE DEF g
  <2> QED
    BY <2>2
<1> HIDE DEF S
<1>3. Nat \subseteq S
  BY <1>1, <1>2, SetInduction
<1> QED
  BY <1>3 DEF S

LEMMA DelaysAgree ==
  ASSUME NEW n \in Nat, NEW m \in Nat, NEW g, NEW h, Delays(g, n), Delays(h, m)
  PROVE  \A k \in Nat : k <= n /\ k <= m => g[k] = h[k]
<1> DEFINE S == {k \in Nat : k <= n /\ k <= m => g[k] = h[k]}
<1>1. 0 \in S
  BY DEF Delays
<1>2. ASSUME NEW k \in Nat, k \in S PROVE k + 1 \in S
  BY <1>2 DEF Delays
<1> HIDE DEF S
<1>3. Nat \subseteq S
  BY <1>1, <1>2, SetInduction
<1> QED
  BY <1>3 DEF S

\* What the definition of Doubled says holds of it.
LEMMA DoubledIs ==
  /\ Doubled[0] = InitialReconnectDelay
  /\ \A n \in Nat : Doubled[n] \in Nat /\ Doubled[n + 1] = 2 * Doubled[n]
<1> DEFINE table(n) == CHOOSE h : Delays(h, n)
           f == [n \in Nat |-> table(n)[n]]
<1>1. \A n \in Nat : Delays(table(n), n)
  BY DelaysExist
<1> HIDE DEF table
<1>2. f[0] = InitialReconnectDelay /\ f \in [Nat -> Nat]
  BY <1>1 DEF Delays
<1>3. ASSUME NEW n \in Nat, n # 0 PROVE f[n] = 2 * f[n - 1]
  <2>1. table(n)[n - 1] = table(n - 1)[n - 1]
    BY <1>1, <1>3, DelaysAgree
  <2>2. table(n)[n] = 2 * table(n)[n - 1]
    BY <1>1, <1>3 DEF Delays
  <2> QED
    BY <1>3, <2>1, <2>2
<1> HIDE DEF f
<1>4. f = [n \in Nat |-> IF n = 0 THEN InitialReconnectDelay ELSE 2 * f[n - 1]]
  BY <1>2, <1>3
<1>5. Doubled = [n \in Nat |-> IF n = 0 THEN InitialReconnectDelay ELSE 2 * Doubled[n - 1]]
  BY <1>4 DEF Doubled
<1>6. Doubled[0] = InitialReconnectDelay /\ \A n \in Nat : Doubled[n + 1] = 2 * Doubled[n]
  BY <1>5
<1> DEFINE S == {n \in Nat : Doubled[n] \in Nat}
<1>7. 0 \in S /\ \A n \in Nat : n \in S => n + 1 \in S
  BY <1>6, BackoffAssumption
<1> HIDE DEF S
<1>8. Nat \subseteq S
  BY <1>7, SetInduction
<1> QED
  BY <1>6, <1>8 DEF S

\* The delay after n failed dials.
DelayAfter(n) == IF Doubled[n] > MaxReconnectDelay THEN MaxReconnectDelay ELSE Doubled[n]

\* From the welcome to the next dial the delay is the initial one.
BackoffInv ==
  /\ attempt \in Nat /\ Attempts
  /\ rc \in {"top", "dial"} => delay = DelayAfter(attempt)
  /\ rc = "backoff" => attempt > 0 /\ delay = DelayAfter(attempt - 1)
  /\ rc \in {"start", "check", "read", "return", "checkClosed", "newDone", "newSend"} =>
       attempt = 0 /\ delay = InitialReconnectDelay
  /\ rc = "exitGaveUp" => attempt = MaxReconnectAttempts + 1

LEMMA DelaySteps ==
  /\ DelayAfter(0) = InitialReconnectDelay
  /\ \A n \in Nat : DelayAfter(n + 1) = IF 2 * DelayAfter(n) > MaxReconnectDelay
                                          THEN MaxReconnectDelay ELSE 2 * DelayAfter(n)
BY DoubledIs, BackoffAssumption DEF DelayAfter

LEMMA BackoffNext == BackoffInv /\ [Next]_vars => BackoffInv'
<1> SUFFICES ASSUME BackoffInv, [Next]_vars PROVE BackoffInv'
  OBVIOUS
<1> USE BackoffAssumption DEF BackoffInv, Attempts
<1> HIDE DEF DelayAfter
<1>1. CASE UNCHANGED <<rc, attempt, delay>>
  BY <1>1 DEF DelayAfter
<1>2. CASE Top \/ ReadCheck \/ ReadMessage \/ ReadError \/ ReadClosed \/ BackoffCancelled \/ ReturnClosed
  BY <1>2 DEF Top, ReadCheck, ReadMessage, ReadError, ReadClosed, BackoffCancelled, ReturnClosed, Goto, DelayAfter
<1>3. CASE DialOk
  BY <1>3 DEF DialOk
<1>4. CASE DialFail
  BY <1>4 DEF DialFail, DelayAfter
<1>5. CASE BackoffElapsed
  <2>1. attempt - 1 \in Nat /\ delay = DelayAfter(attempt - 1) /\ attempt = (attempt - 1) + 1
    BY <1>5 DEF BackoffElapsed
  <2>2. delay' = DelayAfter(attempt)
    BY <1>5, <2>1, DelaySteps DEF BackoffElapsed
  <2> QED
    BY <1>5, <2>2 DEF BackoffElapsed, DelayAfter
<1>6. CASE Welcomed \/ StartRun \/ CloseDone \/ ResetEnvInfo \/ NewDoneCh
  BY <1>6 DEF Welcomed, StartRun, CloseDone, ResetEnvInfo, NewDoneCh
<1>7. CASE NewSendCh
  BY <1>7, DelaySteps DEF NewSendCh, DelayAfter
<1>8. ASSUME NEW g \in Runs, HeartbeatLoop(g) \/ HbTick(g) \/ SendLoop(g) \/ LinkFails(g)
      PROVE  UNCHANGED <<rc, attempt, delay>>
  BY <1>8 DEF HeartbeatLoop, HbLock, HbPush, HbEval, HbStop, HbTick, SendLoop, SlStep, SlEvalDone,
    SlEvalSend, SlStop, SlTake, SlConn, SlWritten, SlWriteError, LinkFails
<1>9. CASE (\E r \in Results : Submit(r)) \/ CancelCtx \/ Close \/ UNCHANGED vars
  BY <1>1, <1>9 DEF Submit, CancelCtx, Close, vars
<1> QED
  BY <1>1, <1>2, <1>3, <1>4, <1>5, <1>6, <1>7, <1>8, <1>9 DEF Next, Reconnector, Ended

\* The delay before a dial is the initial one doubled for every dial that has
\* failed since the last connection, up to the maximum, whatever these three
\* constants are (BackoffShape).
THEOREM BackoffDoubles == Spec => []BackoffShape
<1>1. Init => BackoffInv
  BY DelaySteps, BackoffAssumption DEF Init, BackoffInv, Attempts
<1>2. BackoffInv => BackoffShape
  BY DEF BackoffInv, BackoffShape, DelayAfter
<1> QED
  BY <1>1, <1>2, BackoffNext, PTL DEF Spec

=============================================================================
