------------------------------ MODULE WsClient ------------------------------
(***************************************************************************)
(* The WebSocket client of the runner (ws/client.go).                      *)
(*                                                                         *)
(* One goroutine, the reconnector, runs RunWithReconnect: it dials, reads  *)
(* the welcome message, starts a heartbeat loop and a send loop for the    *)
(* new connection, reads until the connection fails, closes doneCh, and    *)
(* then replaces c.doneCh and c.sendCh before it dials again.  The loops   *)
(* of a run read the fields c.doneCh, c.sendCh and c.conn again in every   *)
(* iteration, with no lock around the two channel fields: a loop that was  *)
(* busy while they were replaced goes on with the objects of the next run. *)
(*                                                                         *)
(* A channel object is named by the number of the run it was made for, a   *)
(* connection by the number of the dial that opened it.  Evaluating the    *)
(* operands of a select and executing the select are separate steps, so    *)
(* every value an unsynchronised read of a channel field can return is     *)
(* covered by an interleaving.  Time is abstracted: a timer fires whenever *)
(* it is armed.                                                            *)
(***************************************************************************)
EXTENDS Naturals, Sequences, FiniteSets

CONSTANTS
  Results,                \* the result messages the handler hands to Send
  SendCap,                \* capacity of sendCh (100 in the code)
  MaxReconnectAttempts,   \* maxReconnectAttempts (10 in the code)
  InitialReconnectDelay,  \* initialReconnectDelay, in seconds (1)
  MaxReconnectDelay,      \* maxReconnectDelay, in seconds (300)
  MaxRuns,                \* bound: connections opened in one behaviour
  MaxBeats,               \* bound: heartbeats made
  MaxSignals              \* bound: shutdown signals, 0 or 1

ASSUME CapAssumption     == SendCap \in Nat \ {0}
ASSUME BackoffAssumption == /\ MaxReconnectAttempts \in Nat
                            /\ InitialReconnectDelay \in Nat \ {0}
                            /\ MaxReconnectDelay \in Nat
                            /\ InitialReconnectDelay <= MaxReconnectDelay
ASSUME BoundAssumption   == MaxRuns \in Nat \ {0} /\ MaxBeats \in Nat

VARIABLES
  rc,           \* program counter of the reconnector
  attempt,      \* consecutive failed dials
  delay,        \* the next back-off delay
  conn,         \* c.conn: number of the current connection, 0 for nil
  link,         \* link[k]: what became of connection k
  doneCh,       \* the channel object c.doneCh refers to
  sendCh,       \* the channel object c.sendCh refers to
  doneClosed,   \* the doneCh objects that have been closed
  queue,        \* queue[c]: the messages buffered in sendCh object c
  closed,       \* c.closed, and stopCh closed with it
  ctxDone,      \* the context given to RunWithReconnect is cancelled
  envInfoSent,  \* c.envInfoSent
  hb,           \* hb[g]: the heartbeat loop started by run g
  sl,           \* sl[g]: the send loop started by run g
  beats,        \* heartbeats made so far
  submitted,    \* the results handed to Send so far
  wire          \* wire[k]: the messages written to connection k, in order

chanVars == <<doneCh, sendCh, doneClosed>>
stopVars == <<closed, ctxDone>>
vars == <<rc, attempt, delay, conn, link, chanVars, queue, stopVars,
          envInfoSent, hb, sl, beats, submitted, wire>>

Runs  == 1..MaxRuns
Chans == 1..(MaxRuns + 1)

Result(r)    == [type |-> "result", of |-> r]
Heartbeat(e) == [type |-> "heartbeat", env |-> e]
Messages     == {Result(r) : r \in Results} \cup {Heartbeat(e) : e \in BOOLEAN}
NoMessage    == [type |-> "none"]

Exits == {"exitCtx", "exitClosed", "exitGaveUp"}
RcStates == {"top", "dial", "backoff", "welcome", "start", "check", "read",
             "return", "checkClosed", "newDone", "newSend"} \cup Exits

\* The process ends when RunWithReconnect returns, and its goroutines with it.
Alive == rc \notin Exits
\* Run g is in progress: its read loop has not returned.
Running == rc \in {"check", "read"}

\* The state of a heartbeat loop, and of a send loop.
HbStates == [pc : {"none", "lock", "push", "eval", "wait", "dead"},
             env : BOOLEAN, done : 0..(MaxRuns + 1)]
SlStates == [pc : {"none", "evalDone", "evalSend", "wait", "got", "write", "dead"},
             done : 0..(MaxRuns + 1), send : 0..(MaxRuns + 1),
             conn : 0..MaxRuns, msg : Messages \cup {NoMessage}]

Idle == [pc |-> "none", done |-> 0, send |-> 0, conn |-> 0, msg |-> NoMessage]

\* What a blocked select returns from: ctx.Done, stopCh, or doneCh object d.
MustStop(d) == ctxDone \/ closed \/ d \in doneClosed

TypeOK ==
  /\ rc \in RcStates
  /\ attempt \in 0..(MaxReconnectAttempts + 1)
  /\ delay \in InitialReconnectDelay..MaxReconnectDelay
  /\ conn \in 0..MaxRuns
  /\ link \in [Runs -> {"none", "open", "failed", "closed"}]
  /\ doneCh \in Chans /\ sendCh \in Chans /\ doneClosed \subseteq Chans
  /\ queue \in [Chans -> Seq(Messages)]
  /\ \A c \in Chans : Len(queue[c]) <= SendCap
  /\ closed \in BOOLEAN /\ ctxDone \in BOOLEAN /\ envInfoSent \in BOOLEAN
  /\ hb \in [Runs -> HbStates] /\ sl \in [Runs -> SlStates]
  /\ beats \in 0..MaxBeats
  /\ submitted \subseteq Results
  /\ wire \in [Runs -> Seq(Messages)]

Init ==
  /\ rc = "top" /\ attempt = 0 /\ delay = InitialReconnectDelay
  /\ conn = 0 /\ link = [k \in Runs |-> "none"]
  /\ doneCh = 1 /\ sendCh = 1 /\ doneClosed = {}
  /\ queue = [c \in Chans |-> <<>>]
  /\ closed = FALSE /\ ctxDone = FALSE /\ envInfoSent = FALSE
  /\ hb = [g \in Runs |-> [pc |-> "none", env |-> FALSE, done |-> 0]]
  /\ sl = [g \in Runs |-> Idle]
  /\ beats = 0 /\ submitted = {}
  /\ wire = [k \in Runs |-> <<>>]
-----------------------------------------------------------------------------
(* RunWithReconnect, Connect, Run and readLoop: the reconnector.           *)

\* A step of the reconnector that only moves its program counter.
Goto(from, to) ==
  /\ rc = from /\ rc' = to
  /\ UNCHANGED <<attempt, delay, conn, link, chanVars, queue, stopVars,
                 envInfoSent, hb, sl, beats, submitted, wire>>

\* The select at the head of the loop of RunWithReconnect.
Top == \/ ctxDone /\ Goto("top", "exitCtx")
       \/ closed  /\ Goto("top", "exitClosed")
       \/ ~ctxDone /\ ~closed /\ Goto("top", "dial")

\* Dial succeeds: c.conn is replaced, the previous connection is not closed.
DialOk ==
  /\ rc = "dial" /\ conn < MaxRuns
  /\ rc' = "welcome"
  /\ conn' = conn + 1
  /\ link' = [link EXCEPT ![conn + 1] = "open"]
  /\ UNCHANGED <<attempt, delay, chanVars, queue, stopVars, envInfoSent, hb,
                 sl, beats, submitted, wire>>

\* Dial fails: one more attempt, then wait or give up.
DialFail ==
  /\ rc = "dial"
  /\ attempt' = attempt + 1
  /\ rc' = IF attempt + 1 > MaxReconnectAttempts THEN "exitGaveUp"
                                                 ELSE "backoff"
  /\ UNCHANGED <<delay, conn, link, chanVars, queue, stopVars, envInfoSent,
                 hb, sl, beats, submitted, wire>>

\* The delay has elapsed: it is doubled, up to the maximum, and the loop goes on.
BackoffElapsed ==
  /\ rc = "backoff" /\ rc' = "top"
  /\ delay' = IF 2 * delay > MaxReconnectDelay THEN MaxReconnectDelay
                                               ELSE 2 * delay
  /\ UNCHANGED <<attempt, conn, link, chanVars, queue, stopVars, envInfoSent,
                 hb, sl, beats, submitted, wire>>

\* The context ends during the delay; the stop channel is not watched here.
BackoffCancelled == ctxDone /\ Goto("backoff", "exitCtx")

\* Mutant: the delay is not reset on a successful connection.
Welcomed_KeepsDelay ==
  /\ rc = "welcome" /\ rc' = "start"
  /\ attempt' = 0
  /\ UNCHANGED <<delay, conn, link, chanVars, queue, stopVars, envInfoSent, hb,
                 sl, beats, submitted, wire>>

\* The first message has been read, or its five seconds are over: either way
\* Connect returns nil and the attempts and the delay start over.
Welcomed ==
  /\ rc = "welcome" /\ rc' = "start"
  /\ attempt' = 0 /\ delay' = InitialReconnectDelay
  /\ UNCHANGED <<conn, link, chanVars, queue, stopVars, envInfoSent, hb, sl,
                 beats, submitted, wire>>

\* Mutant: only the first connection gets loops.
StartRun_Once ==
  /\ rc = "start" /\ rc' = "check"
  /\ hb' = IF conn = 1 THEN [hb EXCEPT ![conn].pc = "lock"] ELSE hb
  /\ sl' = IF conn = 1 THEN [sl EXCEPT ![conn].pc = "evalDone"] ELSE sl
  /\ UNCHANGED <<attempt, delay, conn, link, chanVars, queue, stopVars,
                 envInfoSent, beats, submitted, wire>>

\* Run starts the heartbeat loop and the send loop of this connection.
StartRun ==
  /\ rc = "start" /\ rc' = "check"
  /\ hb' = [hb EXCEPT ![conn].pc = "lock"]
  /\ sl' = [sl EXCEPT ![conn].pc = "evalDone"]
  /\ UNCHANGED <<attempt, delay, conn, link, chanVars, queue, stopVars,
                 envInfoSent, beats, submitted, wire>>

\* The select of readLoop, before every ReadMessage.
ReadCheck == IF ctxDone \/ closed THEN Goto("check", "return")
                                 ELSE Goto("check", "read")

\* Mutant: the context is not looked at between two messages.
ReadMessage_Unchecked == Goto("read", "read")

\* ReadMessage returns a message, which is handed to a goroutine of its own,
\* and the select is executed again.
ReadMessage == IF ctxDone \/ closed THEN Goto("read", "return")
                                   ELSE Goto("read", "read")

\* ReadMessage fails: the peer is gone or the read deadline has passed.
ReadError == Goto("read", "return")

\* ReadMessage fails because Close has closed the connection.
ReadClosed == rc = "read" /\ link[conn] = "closed" /\ Goto("read", "return")

\* Mutant: Run returns without closing doneCh.
CloseDone_Missing == Goto("return", "checkClosed")

\* Run returns: the deferred close(c.doneCh).
CloseDone ==
  /\ rc = "return" /\ rc' = "checkClosed"
  /\ doneClosed' = doneClosed \cup {doneCh}
  /\ UNCHANGED <<attempt, delay, conn, link, doneCh, sendCh, queue, stopVars,
                 envInfoSent, hb, sl, beats, submitted, wire>>

\* A closed client is not connected again.
ReturnClosed == closed /\ Goto("checkClosed", "exitClosed")

\* The state of the connection is reset in three separate statements.
ResetEnvInfo ==
  /\ rc = "checkClosed" /\ ~closed
  /\ rc' = "newDone"
  /\ envInfoSent' = FALSE
  /\ UNCHANGED <<attempt, delay, conn, link, chanVars, queue, stopVars, hb,
                 sl, beats, submitted, wire>>

\* Mutant: the closed doneCh is kept for the next connection.
NewDoneCh_Kept == Goto("newDone", "newSend")

NewDoneCh ==
  /\ rc = "newDone" /\ rc' = "newSend"
  /\ doneCh' = doneCh + 1
  /\ UNCHANGED <<attempt, delay, conn, link, sendCh, doneClosed, queue,
                 stopVars, envInfoSent, hb, sl, beats, submitted, wire>>

NewSendCh ==
  /\ rc = "newSend" /\ rc' = "top"
  /\ sendCh' = sendCh + 1
  /\ UNCHANGED <<attempt, delay, conn, link, doneCh, doneClosed, queue,
                 stopVars, envInfoSent, hb, sl, beats, submitted, wire>>

Reconnector ==
  \/ Top \/ DialFail \/ BackoffElapsed \/ BackoffCancelled \/ Welcomed
  \/ StartRun \/ ReadCheck \/ ReadClosed \/ CloseDone \/ ReturnClosed
  \/ ResetEnvInfo \/ NewDoneCh \/ NewSendCh
-----------------------------------------------------------------------------
(* Send, the heartbeat loops and the send loops.                           *)

\* Mutant: Send never reports a full channel.
Send_Unbounded(m) == queue' = [queue EXCEPT ![sendCh] = Append(@, m)]

\* Send: the message is buffered, or dropped when the channel is full.
Send(m) ==
  queue' = IF Len(queue[sendCh]) < SendCap
             THEN [queue EXCEPT ![sendCh] = Append(@, m)]
             ELSE queue

\* Mutant: a result is submitted again.
Submit_Again(r) ==
  /\ Alive /\ conn > 0
  /\ submitted' = submitted \cup {r}
  /\ Send(Result(r))
  /\ UNCHANGED <<rc, attempt, delay, conn, link, chanVars, stopVars,
                 envInfoSent, hb, sl, beats, wire>>

\* The handler submits a result; see TaskHandler for when it does so.
Submit(r) ==
  /\ Alive /\ conn > 0 /\ r \notin submitted
  /\ submitted' = submitted \cup {r}
  /\ Send(Result(r))
  /\ UNCHANGED <<rc, attempt, delay, conn, link, chanVars, stopVars,
                 envInfoSent, hb, sl, beats, wire>>

\* Mutant: that the environment information was attached is not remembered.
HbLock_Unmarked(g) ==
  /\ Alive /\ hb[g].pc = "lock" /\ beats < MaxBeats
  /\ beats' = beats + 1
  /\ hb' = [hb EXCEPT ![g].pc = "push", ![g].env = ~envInfoSent]
  /\ UNCHANGED <<rc, attempt, delay, conn, link, chanVars, queue, stopVars,
                 envInfoSent, sl, submitted, wire>>

\* sendHeartbeat, the critical section: environment information is attached
\* once, and marked as sent before it has been sent.
HbLock(g) ==
  /\ Alive /\ hb[g].pc = "lock" /\ beats < MaxBeats
  /\ beats' = beats + 1
  /\ hb' = [hb EXCEPT ![g].pc = "push", ![g].env = ~envInfoSent]
  /\ envInfoSent' = TRUE
  /\ UNCHANGED <<rc, attempt, delay, conn, link, chanVars, queue, stopVars,
                 sl, submitted, wire>>

HbPush(g) ==
  /\ Alive /\ hb[g].pc = "push"
  /\ Send(Heartbeat(hb[g].env))
  /\ hb' = [hb EXCEPT ![g].pc = "eval", ![g].env = FALSE]
  /\ UNCHANGED <<rc, attempt, delay, conn, link, chanVars, stopVars,
                 envInfoSent, sl, beats, submitted, wire>>

\* heartbeatLoop evaluates c.doneCh on its way into the select.
HbEval(g) ==
  /\ Alive /\ hb[g].pc = "eval"
  /\ hb' = [hb EXCEPT ![g].pc = "wait", ![g].done = doneCh]
  /\ UNCHANGED <<rc, attempt, delay, conn, link, chanVars, queue, stopVars,
                 envInfoSent, sl, beats, submitted, wire>>

HbStop(g) ==
  /\ Alive /\ hb[g].pc = "wait" /\ MustStop(hb[g].done)
  /\ hb' = [hb EXCEPT ![g].pc = "dead", ![g].done = 0]
  /\ UNCHANGED <<rc, attempt, delay, conn, link, chanVars, queue, stopVars,
                 envInfoSent, sl, beats, submitted, wire>>

\* The ticker is chosen, possibly while another case of the select is ready.
HbTick(g) ==
  /\ Alive /\ hb[g].pc = "wait"
  /\ hb' = [hb EXCEPT ![g].pc = "lock", ![g].done = 0]
  /\ UNCHANGED <<rc, attempt, delay, conn, link, chanVars, queue, stopVars,
                 envInfoSent, sl, beats, submitted, wire>>

HeartbeatLoop(g) == HbLock(g) \/ HbPush(g) \/ HbEval(g) \/ HbStop(g)

\* A step of the send loop of run g that touches nothing but the loop.
SlStep(g, loop) ==
  /\ Alive /\ sl' = [sl EXCEPT ![g] = loop]
  /\ UNCHANGED <<rc, attempt, delay, conn, link, chanVars, queue, stopVars,
                 envInfoSent, hb, beats, submitted, wire>>

\* The operands of the select, in source order.
SlEvalDone(g) ==
  sl[g].pc = "evalDone" /\ SlStep(g, [sl[g] EXCEPT !.pc = "evalSend", !.done = doneCh])

SlEvalSend(g) ==
  sl[g].pc = "evalSend" /\ SlStep(g, [sl[g] EXCEPT !.pc = "wait", !.send = sendCh])

SlStop(g) ==
  sl[g].pc = "wait" /\ MustStop(sl[g].done) /\ SlStep(g, [Idle EXCEPT !.pc = "dead"])

\* Mutant: the message stays in the channel while it is being written.
SlTake_Peek(g) ==
  /\ sl[g].pc = "wait" /\ queue[sl[g].send] # <<>>
  /\ SlStep(g, [Idle EXCEPT !.pc = "got", !.msg = Head(queue[sl[g].send])])

\* The select receives from the sendCh object it has evaluated.
SlTake(g) ==
  /\ Alive /\ sl[g].pc = "wait" /\ queue[sl[g].send] # <<>>
  /\ sl' = [sl EXCEPT ![g] = [Idle EXCEPT !.pc = "got",
                                          !.msg = Head(queue[sl[g].send])]]
  /\ queue' = [queue EXCEPT ![sl[g].send] = Tail(@)]
  /\ UNCHANGED <<rc, attempt, delay, conn, link, chanVars, stopVars,
                 envInfoSent, hb, beats, submitted, wire>>

\* c.conn is read only now, and WriteMessage begins.
SlConn(g) ==
  sl[g].pc = "got" /\ SlStep(g, [sl[g] EXCEPT !.pc = "write", !.conn = conn])

\* WriteMessage succeeds.  A heartbeat without environment information is not
\* recorded: nothing tells two of them apart.
SlWritten(g) ==
  LET k == sl[g].conn IN
  /\ Alive /\ sl[g].pc = "write" /\ link[k] = "open"
  /\ wire' = [wire EXCEPT ![k] = IF sl[g].msg = Heartbeat(FALSE) THEN @
                                ELSE Append(@, sl[g].msg)]
  /\ sl' = [sl EXCEPT ![g] = [Idle EXCEPT !.pc = "evalDone"]]
  /\ UNCHANGED <<rc, attempt, delay, conn, link, chanVars, queue, stopVars,
                 envInfoSent, hb, beats, submitted>>

\* WriteMessage fails: the message is logged and forgotten, the loop goes on.
SlWriteError(g) ==
  sl[g].pc = "write" /\ link[sl[g].conn] # "open"
    /\ SlStep(g, [Idle EXCEPT !.pc = "evalDone"])

SendLoop(g) ==
  \/ SlEvalDone(g) \/ SlEvalSend(g) \/ SlStop(g) \/ SlTake(g) \/ SlConn(g)
  \/ SlWritten(g) \/ SlWriteError(g)
-----------------------------------------------------------------------------
(* Shutdown, as cmd/main.go drives it, and the network.                    *)

\* The signal goroutine cancels the context first ...
CancelCtx ==
  /\ Alive /\ MaxSignals > 0 /\ ~ctxDone /\ ctxDone' = TRUE
  /\ UNCHANGED <<rc, attempt, delay, conn, link, chanVars, queue, closed,
                 envInfoSent, hb, sl, beats, submitted, wire>>

\* Mutant: Close leaves the connection open.
Close_LeavesConn ==
  /\ Alive /\ ctxDone /\ ~closed /\ closed' = TRUE
  /\ UNCHANGED <<rc, attempt, delay, conn, link, chanVars, queue, ctxDone,
                 envInfoSent, hb, sl, beats, submitted, wire>>

\* ... and closes the client in the end.
Close ==
  /\ Alive /\ ctxDone /\ ~closed /\ closed' = TRUE
  /\ link' = IF conn > 0 THEN [link EXCEPT ![conn] = "closed"] ELSE link
  /\ UNCHANGED <<rc, attempt, delay, conn, chanVars, queue, ctxDone,
                 envInfoSent, hb, sl, beats, submitted, wire>>

\* The network loses connection k, or a write on it runs into its deadline:
\* the connection accepts no more writes.
LinkFails(k) ==
  /\ Alive /\ link[k] = "open"
  /\ link' = [link EXCEPT ![k] = "failed"]
  /\ UNCHANGED <<rc, attempt, delay, conn, chanVars, queue, stopVars,
                 envInfoSent, hb, sl, beats, submitted, wire>>

\* Nothing happens after the process has ended.
Ended == ~Alive /\ UNCHANGED vars

Next ==
  \/ Reconnector \/ DialOk \/ ReadMessage \/ ReadError
  \/ \E g \in Runs : HeartbeatLoop(g) \/ HbTick(g) \/ SendLoop(g) \/ LinkFails(g)
  \/ \E r \in Results : Submit(r)
  \/ CancelCtx \/ Close \/ Ended

Spec == Init /\ [][Next]_vars

\* Every goroutine that can take a step takes one in the end, and the signal
\* goroutine reaches Close.  Nothing is assumed of the network, of the peer or
\* of the tickers.
FairSpec == /\ Spec
            /\ WF_vars(Reconnector) /\ WF_vars(Close)
            /\ \A g \in Runs : WF_vars(SendLoop(g)) /\ WF_vars(HeartbeatLoop(g))
-----------------------------------------------------------------------------
(* What a result goes through.                                             *)

InQueue(r, c) == \E i \in DOMAIN queue[c] : queue[c][i] = Result(r)
InHand(r, g)  == sl[g].msg = Result(r)
OnWire(r, k)  == \E i \in DOMAIN wire[k] : wire[k][i] = Result(r)

\* The places message m is in, one for each copy of it.
Places(m) ==
  (UNION {{<<"queue", c, i>> : i \in {j \in DOMAIN queue[c] : queue[c][j] = m}} : c \in Chans})
  \cup {<<"loop", g, 0>> : g \in {h \in Runs : sl[h].msg = m}}
  \cup (UNION {{<<"wire", k, i>> : i \in {j \in DOMAIN wire[k] : wire[k][j] = m}} : k \in Runs})

\* A sendCh object some goroutine can still receive from.
Reachable(c) == c = sendCh \/ \E g \in Runs : sl[g].pc = "wait" /\ sl[g].send = c

Fate(r) ==
  CASE r \notin submitted -> "new"
    [] \E k \in Runs : OnWire(r, k) -> "sent"
    [] /\ r \in submitted /\ \A k \in Runs : ~OnWire(r, k)
       /\ Alive /\ \/ \E c \in Chans : Reachable(c) /\ InQueue(r, c)
                   \/ \E g \in Runs : InHand(r, g) -> "pending"
    [] OTHER -> "lost"

Abstract == INSTANCE Delivery WITH fate <- [r \in Results |-> Fate(r)]

\* Whatever the interleaving of reconnections with stale and current loops,
\* the client is a delivery: a result goes out at most once, and nothing that
\* has been dropped reappears (sendLoop forgets a message it could not write).
DeliverySpec == Abstract!Spec
-----------------------------------------------------------------------------
(* Safety.                                                                 *)

\* A result is in one place only: one buffer, one send loop, or one connection
\* (Send buffers it once and sendLoop never puts a message back).
AtMostOnce == \A r \in Results : \A p, q \in Places(Result(r)) : p = q

\* close(c.doneCh), deferred by Run, never closes a channel a second time: it
\* would panic and take the process down.
DoneClosedOnce == rc = "return" => doneCh \notin doneClosed

\* While a connection is served, both of its loops are alive, and the doneCh
\* they have picked up, perhaps long ago, is not one that stops them.
RunHasLoops ==
  (Running /\ ~ctxDone /\ ~closed) =>
     /\ hb[conn].pc \notin {"none", "dead"} /\ sl[conn].pc \notin {"none", "dead"}
     /\ hb[conn].done \notin doneClosed /\ sl[conn].done \notin doneClosed

\* No loop waits on a doneCh that was replaced without having been closed: the
\* goroutine would outlive its connection for ever.
NoOrphanWait == \A g \in Runs :
  /\ hb[g].pc = "wait" => hb[g].done \in {doneCh} \cup doneClosed
  /\ sl[g].pc \in {"evalSend", "wait"} => sl[g].done \in {doneCh} \cup doneClosed

\* The heartbeats with environment information, wherever they are, those that
\* have been made and not yet been handed to Send among them.
EnvInfos == {<<"hand", g, 0>> : g \in {h \in Runs : hb[h].env}} \cup Places(Heartbeat(TRUE))

\* The flag envInfoSent (client.go:250 and :437) bounds the whole of the
\* environment information: one message for each connection so far, and one more
\* once the flag has been reset for the next, although the loops of earlier runs
\* tick before, while and after it is reset.  It does not bound what a single
\* connection gets: see EnvInfoOncePerConnection.
EnvInfosBounded ==
  Cardinality(EnvInfos)
    <= (IF rc \in {"newDone", "newSend", "top", "dial", "backoff"} \cup Exits THEN conn + 1 ELSE conn)

\* The initial delay doubled n times.
Doubled[n \in Nat] == IF n = 0 THEN InitialReconnectDelay ELSE 2 * Doubled[n - 1]

\* The delay before the next dial is initialReconnectDelay doubled once for
\* every dial that has failed since the last connection, up to the maximum.
BackoffShape ==
  LET Bounded(n) == IF Doubled[n] > MaxReconnectDelay THEN MaxReconnectDelay ELSE Doubled[n]
  IN /\ rc \in {"top", "dial"} => delay = Bounded(attempt)
     /\ rc = "backoff" => delay = Bounded(attempt - 1)
     /\ rc = "exitGaveUp" => attempt = MaxReconnectAttempts + 1
-----------------------------------------------------------------------------
(* Liveness, under FairSpec.                                               *)

\* A result buffered for the connection being served goes out on a connection,
\* unless that connection fails first or the client is stopped.
QueuedIsSent == \A r \in Results :
  (Running /\ InQueue(r, sendCh)) ~>
    (\/ \E k \in Runs : OnWire(r, k)
     \/ ~Running \/ link[conn] # "open" \/ ctxDone)

\* Once a signal has cancelled the context, RunWithReconnect returns: the read
\* loop may be blocked in ReadMessage and only Close wakes it up.
ShutdownTerminates == ctxDone ~> ~Alive
-----------------------------------------------------------------------------
(* What the comments say and the code does not do.                         *)

\* client.go:173, "Run starts the client's read/write loops": a connection has
\* the one write loop of its Run, so two goroutines never write it at once.
OneWriter == \A g, h \in Runs :
  (sl[g].pc = "write" /\ sl[h].pc = "write" /\ sl[g].conn = sl[h].conn) => g = h

\* client.go:431-432, "Only send environment info on first heartbeat after
\* connection": the connection being served has not carried it twice.
EnvInfoOncePerConnection ==
  Running => Cardinality({i \in DOMAIN wire[conn] : wire[conn][i] = Heartbeat(TRUE)}) <= 1

=============================================================================
