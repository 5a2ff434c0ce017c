--------------------------- MODULE DeliveryProofs ---------------------------
(***************************************************************************)
(* Proofs that a result is in one place at a time, that the client         *)
(* implements Delivery, and that there are never more messages with        *)
(* environment information than connections (and one more between two      *)
(* runs), for any number of results, runs and heartbeats and any capacity  *)
(* of the send channel.                                                    *)
(*                                                                         *)
(* A result moves in three steps only: Send buffers it, the select of a    *)
(* send loop takes it, WriteMessage puts it on a connection.  All other    *)
(* steps are quiet: they may drop results, and never bring one back.       *)
(***************************************************************************)
EXTENDS WsClientProofs

\* Message m is at place i of buffer c, with send loop g, or is the i-th on
\* connection k.
Buffered(m, c, i) == i \in DOMAIN queue[c] /\ queue[c][i] = m
Carries(m, g)     == sl[g].msg = m
Written(m, k, i)  == i \in DOMAIN wire[k] /\ wire[k][i] = m

\* Result r has been submitted if it is anywhere.
Known == \A r \in Results :
  /\ \A c \in Chans, i \in Nat : Buffered(Result(r), c, i) => r \in submitted
  /\ \A g \in Runs : InHand(r, g) \/ OnWire(r, g) => r \in submitted

\* A result is in one place.
OnePlace == \A r \in Results :
  /\ \A c, d \in Chans, i, j \in Nat : Buffered(Result(r), c, i) /\ Buffered(Result(r), d, j) => c = d /\ i = j
  /\ \A g, h \in Runs : /\ InHand(r, g) /\ InHand(r, h) => g = h
                        /\ ~(InHand(r, g) /\ OnWire(r, h))
  /\ \A k, l \in Runs, i, j \in Nat : Written(Result(r), k, i) /\ Written(Result(r), l, j) => k = l /\ i = j
  /\ \A c \in Chans, i \in Nat, g \in Runs :
       Buffered(Result(r), c, i) => ~InHand(r, g) /\ ~OnWire(r, g)

\* Nothing has been sent to the buffers of runs to come.
Fresh == \A c \in Chans : c > sendCh => queue[c] = <<>>

DInv == Known /\ OnePlace /\ Fresh

\* A step that moves no result.
Quiet ==
  /\ UNCHANGED <<queue, wire, submitted>> /\ (Alive' => Alive)
  /\ sendCh' \in {sendCh, sendCh + 1}
  /\ \A g \in Runs : /\ sl'[g].msg \in {sl[g].msg, NoMessage}
                     /\ sl'[g].pc = "wait" => \/ sl[g].pc = "wait" /\ sl'[g].send = sl[g].send
                                              \/ sl'[g].send = sendCh
-----------------------------------------------------------------------------
\* The messages can be told apart.
LEMMA MessageKinds ==
  /\ \A r, s : Result(r) = Result(s) => r = s
  /\ \A r, e : Result(r) # Heartbeat(e)
  /\ \A r : Result(r) # NoMessage
  /\ \A r \in Results : Result(r) \in Messages
  /\ \A m \in Messages : m # NoMessage
  /\ Heartbeat(TRUE) # Heartbeat(FALSE) /\ Heartbeat(TRUE) \in Messages
<1>1. /\ \A r, s : Result(r) = Result(s) => r = s
      /\ \A r, e : Result(r) # Heartbeat(e)
      /\ \A r : Result(r) # NoMessage
      /\ \A r \in Results : Result(r) \in Messages
  BY DEF Result, Heartbeat, NoMessage, Messages
<1>2. \A e : Heartbeat(e) # NoMessage
  BY DEF Heartbeat, NoMessage
<1>3. \A m \in Messages : m # NoMessage
  BY <1>1, <1>2 DEF Messages
<1>4. Heartbeat(TRUE) # Heartbeat(FALSE)
  <2>1. Heartbeat(TRUE).env # Heartbeat(FALSE).env
    BY DEF Heartbeat
  <2> QED
    BY <2>1
<1>5. Heartbeat(TRUE) \in Messages
  BY DEF Messages
<1> QED
  BY <1>1, <1>3, <1>4, <1>5

\* Two ways to say that a result is on a connection.
LEMMA OnWireIs ==
  /\ \A r, k : OnWire(r, k) <=> \E i : Written(Result(r), k, i)
  /\ \A r, k : OnWire(r, k)' <=> \E i : Written(Result(r), k, i)'
BY DEF OnWire, Written

\* Every step is quiet or moves one message.
LEMMA QuietOrMoves ==
  ASSUME TypeOK, [Next]_vars
  PROVE  \/ Quiet
         \/ \E r \in Results : Submit(r)
         \/ \E g \in Runs : HbPush(g) \/ SlTake(g) \/ SlWritten(g)
<1> USE DEF Quiet, Alive, Exits, chanVars
<1>1. CASE Top \/ BackoffCancelled \/ ReadCheck \/ ReadMessage \/ ReadError
           \/ ReadClosed \/ ReturnClosed
  BY <1>1 DEF Top, BackoffCancelled, ReadCheck, ReadMessage, ReadError, ReadClosed,
              ReturnClosed, Goto
<1>2. CASE DialOk \/ DialFail \/ BackoffElapsed \/ Welcomed
  BY <1>2 DEF DialOk, DialFail, BackoffElapsed, Welcomed
<1>3. CASE StartRun
  <2>1. \A g \in Runs : sl'[g].msg = sl[g].msg /\ sl'[g].send = sl[g].send
                        /\ (sl'[g].pc = "wait" => sl[g].pc = "wait")
    BY <1>3 DEF StartRun, TypeOK, SlStates
  <2> QED
    BY <1>3, <2>1 DEF StartRun
<1>4. CASE CloseDone \/ ResetEnvInfo \/ NewDoneCh \/ NewSendCh
  BY <1>4 DEF CloseDone, ResetEnvInfo, NewDoneCh, NewSendCh
<1>5. ASSUME NEW g \in Runs, HbLock(g) \/ HbEval(g) \/ HbStop(g) \/ HbTick(g) PROVE Quiet
  BY <1>5 DEF HbLock, HbEval, HbStop, HbTick
<1>6. ASSUME NEW g \in Runs,
             SlEvalDone(g) \/ SlEvalSend(g) \/ SlStop(g) \/ SlConn(g) \/ SlWriteError(g)
      PROVE Quiet
  <2>1. /\ UNCHANGED <<queue, wire, submitted, rc, sendCh>>
        /\ \A h \in Runs \ {g} : sl'[h] = sl[h]
    BY <1>6 DEF SlEvalDone, SlEvalSend, SlStop, SlConn, SlWriteError, SlStep, TypeOK
  <2>2. /\ sl'[g].msg \in {sl[g].msg, NoMessage}
        /\ sl'[g].pc = "wait" => sl'[g].send = sendCh
    <3>1. CASE SlEvalDone(g)
      BY <3>1 DEF SlEvalDone, SlStep, TypeOK, SlStates
    <3>2. CASE SlEvalSend(g)
      BY <3>2 DEF SlEvalSend, SlStep, TypeOK, SlStates
    <3>3. CASE SlConn(g)
      BY <3>3 DEF SlConn, SlStep, TypeOK, SlStates
    <3>4. CASE SlStop(g) \/ SlWriteError(g)
      BY <3>4 DEF SlStop, SlWriteError, SlStep, TypeOK, Idle
    <3> QED
      BY <1>6, <3>1, <3>2, <3>3, <3>4
  <2> QED
    BY <2>1, <2>2
<1>7. CASE CancelCtx \/ Close \/ (\E k \in Runs : LinkFails(k)) \/ UNCHANGED vars
  BY <1>7 DEF CancelCtx, Close, LinkFails, vars
<1> QED
  BY <1>1, <1>2, <1>3, <1>4, <1>5, <1>6, <1>7
     DEF Next, Reconnector, HeartbeatLoop, SendLoop, Ended

LEMMA InitDInv == Init => DInv
<1> SUFFICES ASSUME Init PROVE DInv
  OBVIOUS
<1>1. \A r, c, i : c \in Chans => ~Buffered(Result(r), c, i)
  BY DEF Init, Buffered
<1>2. \A r, g : g \in Runs => ~InHand(r, g) /\ ~OnWire(r, g) /\ \A i : ~Written(Result(r), g, i)
  BY MessageKinds DEF Init, InHand, OnWire, Idle, Written
<1>3. Fresh
  BY DEF Fresh, Init
<1> QED
  BY <1>1, <1>2, <1>3 DEF DInv, Known, OnePlace

\* Where a message given to Send is found: at most at the end of the buffer.
\* Nothing else in the buffers changes its place.
LEMMA SendPlaces ==
  ASSUME TypeOK, NEW m \in Messages, Send(m)
  PROVE  /\ \A x \in Messages, c \in Chans, i \in Nat : Buffered(x, c, i)' =>
              \/ Buffered(x, c, i)
              \/ m = x /\ c = sendCh /\ i = Len(queue[sendCh]) + 1
         /\ \A x \in Messages, c \in Chans, i \in Nat : Buffered(x, c, i) => Buffered(x, c, i)'
         /\ \A c \in Chans \ {sendCh} : queue'[c] = queue[c]
<1> DEFINE q == queue[sendCh]
<1>1. sendCh \in Chans /\ q \in Seq(Messages) /\ queue \in [Chans -> Seq(Messages)]
  BY DEF TypeOK
<1>2. CASE ~(Len(q) < SendCap)
  BY <1>2 DEF Send, Buffered
<1>3. CASE Len(q) < SendCap
  <2>1. queue' = [queue EXCEPT ![sendCh] = Append(q, m)]
    BY <1>3 DEF Send
  <2>2. /\ DOMAIN q = 1..Len(q) /\ Len(q) \in Nat
        /\ DOMAIN Append(q, m) = 1..(Len(q) + 1)
        /\ \A i \in 1..Len(q) : Append(q, m)[i] = q[i]
        /\ Append(q, m)[Len(q) + 1] = m
    BY <1>1, AppendProperties, LenProperties
  <2>3. \A c \in Chans : queue'[c] = IF c = sendCh THEN Append(q, m) ELSE queue[c]
    BY <1>1, <2>1
  <2>4. ASSUME NEW x \in Messages, NEW c \in Chans, NEW i \in Nat, c = sendCh, Buffered(x, c, i)'
        PROVE  Buffered(x, c, i) \/ (m = x /\ i = Len(q) + 1)
    <3>1. queue[c] = q /\ queue'[c] = Append(q, m)
      BY <2>3, <2>4
    <3>2. i \in DOMAIN Append(q, m) /\ Append(q, m)[i] = x
      BY <2>4, <3>1 DEF Buffered
    <3>3. CASE i = Len(q) + 1
      BY <2>2, <3>2, <3>3
    <3>4. CASE i \in 1..Len(q)
      BY <2>2, <3>1, <3>2, <3>4 DEF Buffered
    <3> QED
      BY <2>2, <3>2, <3>3, <3>4
  <2>5. ASSUME NEW x \in Messages, NEW c \in Chans, NEW i \in Nat, c # sendCh, Buffered(x, c, i)'
        PROVE  Buffered(x, c, i)
    BY <2>3, <2>5 DEF Buffered
  <2>6. ASSUME NEW x \in Messages, NEW c \in Chans, NEW i \in Nat, Buffered(x, c, i)
        PROVE  Buffered(x, c, i)'
    <3>1. CASE c = sendCh
      <4>1. queue[c] = q /\ queue'[c] = Append(q, m) /\ i \in 1..Len(q)
        BY <2>2, <2>3, <2>6, <3>1 DEF Buffered
      <4> QED
        BY <2>2, <2>6, <4>1 DEF Buffered
    <3>2. CASE c # sendCh
      BY <2>3, <2>6, <3>2 DEF Buffered
    <3> QED
      BY <3>1, <3>2
  <2> QED
    BY <2>3, <2>4, <2>5, <2>6
<1> QED
  BY <1>2, <1>3

\* Where the messages are when a send loop has taken a message from buffer b.
LEMMA TakePlaces ==
  ASSUME IInv, NEW g \in Runs, SlTake(g), NEW b \in Chans, b = sl[g].send
  PROVE  /\ \A x \in Messages, i \in Nat :
              /\ Buffered(x, b, i)' => Buffered(x, b, i + 1) /\ i # 0
              /\ \A c \in Chans \ {b} : Buffered(x, c, i)' => Buffered(x, c, i)
         /\ \A x \in Messages, h \in Runs :
              Carries(x, h)' => IF h = g THEN Buffered(x, b, 1) ELSE Carries(x, h)
<1> DEFINE q == queue[b]
<1>0. TypeOK /\ queue \in [Chans -> Seq(Messages)]
  BY DEF IInv, TypeOK
<1>1. q \in Seq(Messages) /\ q # <<>>
  BY <1>0 DEF SlTake
<1>2. /\ DOMAIN q = 1..Len(q) /\ Len(q) \in Nat \ {0} /\ Head(q) = q[1]
      /\ DOMAIN Tail(q) = 1..(Len(q) - 1) /\ Tail(q) \in Seq(Messages)
      /\ \A i \in 1..(Len(q) - 1) : Tail(q)[i] = q[i + 1]
  BY <1>1, HeadTailProperties, LenProperties, EmptySeq
<1>3. \A c \in Chans : queue'[c] = IF c = b THEN Tail(q) ELSE queue[c]
  BY <1>0 DEF SlTake
<1>4. \A h \in Runs : sl'[h].msg = IF h = g THEN q[1] ELSE sl[h].msg
  BY <1>0, <1>2 DEF SlTake, TypeOK, Idle
<1>5. ASSUME NEW x \in Messages, NEW i \in Nat, Buffered(x, b, i)'
      PROVE  Buffered(x, b, i + 1) /\ i # 0
  <2>1. queue'[b] = Tail(q)
    BY <1>3
  <2>2. i \in DOMAIN Tail(q) /\ Tail(q)[i] = x
    BY <1>5, <2>1 DEF Buffered
  <2>3. i \in 1..(Len(q) - 1) /\ q[i + 1] = x
    BY <1>2, <2>2
  <2>4. i + 1 \in 1..Len(q)
    BY <1>2, <2>3
  <2> QED
    BY <1>2, <2>3, <2>4 DEF Buffered
<1>6. ASSUME NEW x \in Messages, NEW i \in Nat, NEW c \in Chans \ {b}, Buffered(x, c, i)'
      PROVE  Buffered(x, c, i)
  BY <1>3, <1>6 DEF Buffered
<1>7. \A x \in Messages, h \in Runs :
        Carries(x, h)' => IF h = g THEN Buffered(x, b, 1) ELSE Carries(x, h)
  BY <1>2, <1>4 DEF SlTake, Carries, Buffered
<1> QED
  BY <1>5, <1>6, <1>7

\* Where the messages are when a send loop has written its message: at most
\* one has come to the end of a connection.
LEMMA WritePlaces ==
  ASSUME IInv, NEW g \in Runs, SlWritten(g)
  PROVE  \A x \in Messages \ {Heartbeat(FALSE)}, h \in Runs :
           /\ Carries(x, h)' <=> h # g /\ Carries(x, h)
           /\ \A i : Written(x, h, i)' =>
                Written(x, h, i) \/ (Carries(x, g) /\ h = sl[g].conn /\ i = Len(wire[h]) + 1)
           /\ (\E i : Written(x, h, i)') <=>
                (\E i : Written(x, h, i)) \/ (Carries(x, g) /\ h = sl[g].conn)
<1>0. TypeOK /\ sl[g].msg \in Messages
  BY DEF SlWritten, IInv, TypeOK, Held, SlStates
<1>1. \A h \in Runs : sl'[h].msg = IF h = g THEN NoMessage ELSE sl[h].msg
  BY <1>0 DEF SlWritten, TypeOK, Idle
<1>2. ASSUME NEW x \in Messages \ {Heartbeat(FALSE)}, NEW h \in Runs
      PROVE  /\ \A i : Written(x, h, i)' =>
                  Written(x, h, i) \/ (Carries(x, g) /\ h = sl[g].conn /\ i = Len(wire[h]) + 1)
             /\ (\E i : Written(x, h, i)') <=>
                  (\E i : Written(x, h, i)) \/ (Carries(x, g) /\ h = sl[g].conn)
  <2> DEFINE w == wire[h]
  <2>1. CASE wire'[h] = w /\ ~(Carries(x, g) /\ h = sl[g].conn)
    BY <2>1 DEF Written
  <2>2. CASE h = sl[g].conn /\ wire'[h] = Append(w, sl[g].msg) /\ w \in Seq(Messages)
             /\ sl[g].msg \in Messages
    <3>1. /\ DOMAIN w = 1..Len(w) /\ Len(w) \in Nat
          /\ DOMAIN Append(w, sl[g].msg) = 1..(Len(w) + 1)
          /\ \A i \in 1..Len(w) : Append(w, sl[g].msg)[i] = w[i]
          /\ Append(w, sl[g].msg)[Len(w) + 1] = sl[g].msg
      BY <2>2, AppendProperties, LenProperties
    <3>2. \A i : i \in 1..(Len(w) + 1) <=> i \in 1..Len(w) \/ i = Len(w) + 1
      BY <3>1
    <3> HIDE DEF w
    <3>3. \A i : Written(x, h, i)' <=>
            (i \in 1..Len(w) /\ w[i] = x) \/ (i = Len(w) + 1 /\ sl[g].msg = x)
      BY <2>2, <3>1, <3>2 DEF Written
    <3>4. \A i : Written(x, h, i) <=> i \in 1..Len(w) /\ w[i] = x
      BY <3>1 DEF Written, w
    <3> QED
      BY <2>2, <3>3, <3>4 DEF Carries, w
  <2>3. h # sl[g].conn => wire'[h] = w
    BY <1>0 DEF SlWritten, TypeOK
  <2>4. h = sl[g].conn => wire'[h] = IF sl[g].msg = Heartbeat(FALSE) THEN w ELSE Append(w, sl[g].msg)
    BY <1>0 DEF SlWritten, TypeOK
  <2>5. w \in Seq(Messages) /\ x # Heartbeat(FALSE)
    BY <1>0, <1>2 DEF TypeOK
  <2> QED
    BY <1>0, <2>1, <2>2, <2>3, <2>4, <2>5 DEF Carries
<1> QED
  BY <1>1, <1>2, MessageKinds DEF Carries

LEMMA NextDInv ==
  ASSUME IInv, DInv, [Next]_vars PROVE DInv'
<1> USE MessageKinds
<1>0. /\ TypeOK /\ TypeOK' /\ queue \in [Chans -> Seq(Messages)]
      /\ sendCh \in Nat /\ sendCh' \in Nat
  <2>1. TypeOK /\ TypeOK'
    BY NextIInv DEF IInv
  <2>2. queue \in [Chans -> Seq(Messages)] /\ sendCh \in Nat
    BY <2>1 DEF TypeOK, Chans
  <2>3. sendCh' \in Nat
    BY <2>1 DEF TypeOK, Chans
  <2> QED
    BY <2>1, <2>2, <2>3
<1>1. CASE Quiet
  <2>1. \A r, c, i : Buffered(Result(r), c, i)' <=> Buffered(Result(r), c, i)
    BY <1>1 DEF Quiet, Buffered
  <2>2. \A r \in Results, g \in Runs : /\ InHand(r, g)' => InHand(r, g)
                                       /\ OnWire(r, g)' <=> OnWire(r, g)
                                       /\ \A i : Written(Result(r), g, i)' <=> Written(Result(r), g, i)
    BY <1>1 DEF Quiet, InHand, OnWire, Written
  <2>3. Fresh'
    BY <1>0, <1>1 DEF Quiet, DInv, Fresh, Chans
  <2> QED
    BY <1>1, <2>1, <2>2, <2>3 DEF DInv, Known, OnePlace, Quiet
<1>2. ASSUME NEW m \in Messages, Send(m), UNCHANGED <<sl, wire, sendCh>>,
             submitted \subseteq submitted',
             \A r \in Results : m = Result(r) => r \notin submitted /\ r \in submitted'
      PROVE DInv'
  <2>1. \A r \in Results, c \in Chans, i \in Nat : Buffered(Result(r), c, i)' =>
              \/ Buffered(Result(r), c, i)
              \/ m = Result(r) /\ c = sendCh /\ i = Len(queue[sendCh]) + 1
    BY <1>0, <1>2, SendPlaces
  <2>2. \A r, g : /\ InHand(r, g)' <=> InHand(r, g)
                  /\ OnWire(r, g)' <=> OnWire(r, g)
                  /\ \A i : Written(Result(r), g, i)' <=> Written(Result(r), g, i)
    BY <1>2 DEF InHand, OnWire, Written
  <2>3. Fresh'
    BY <1>0, <1>2, SendPlaces DEF DInv, Fresh, Chans
  <2>4. Known'
    BY <1>2, <2>1, <2>2 DEF DInv, Known
  <2>5. OnePlace'
    BY <1>2, <2>1, <2>2 DEF DInv, Known, OnePlace
  <2> QED
    BY <2>3, <2>4, <2>5 DEF DInv
<1>3. ASSUME NEW r \in Results, Submit(r) PROVE DInv'
  BY <1>2, <1>3 DEF Submit, chanVars
<1>4. ASSUME NEW g \in Runs, HbPush(g) PROVE DInv'
  <2>1. Heartbeat(hb[g].env) \in Messages
    BY <1>0 DEF TypeOK, HbStates, Messages
  <2> QED
    BY <1>2, <1>4, <2>1 DEF HbPush, chanVars
<1>5. ASSUME NEW g \in Runs, SlTake(g) PROVE DInv'
  <2>1. PICK b \in Chans : b = sl[g].send
    BY <1>5 DEF SlTake, IInv, Held
  <2>2. \A r \in Results, i \in Nat :
          /\ Buffered(Result(r), b, i)' => Buffered(Result(r), b, i + 1) /\ i # 0
          /\ \A c \in Chans \ {b} : Buffered(Result(r), c, i)' => Buffered(Result(r), c, i)
    BY <1>5, <2>1, TakePlaces
  <2>3. \A r \in Results, h \in Runs :
          /\ InHand(r, h)' => IF h = g THEN Buffered(Result(r), b, 1) ELSE InHand(r, h)
          /\ OnWire(r, h)' <=> OnWire(r, h)
          /\ \A i : Written(Result(r), h, i)' <=> Written(Result(r), h, i)
    <3>1. \A r \in Results, h \in Runs :
            InHand(r, h)' => IF h = g THEN Buffered(Result(r), b, 1) ELSE InHand(r, h)
      BY <1>5, <2>1, TakePlaces DEF InHand, Carries
    <3> QED
      BY <1>5, <3>1 DEF SlTake, OnWire, Written
  <2>4. Known'
    BY <1>5, <2>1, <2>2, <2>3 DEF SlTake, DInv, Known
  <2>5. ASSUME NEW r \in Results PROVE
          /\ \A c, d \in Chans, i, j \in Nat :
               Buffered(Result(r), c, i)' /\ Buffered(Result(r), d, j)' => c = d /\ i = j
          /\ \A h, k \in Runs : /\ InHand(r, h)' /\ InHand(r, k)' => h = k
                                /\ ~(InHand(r, h)' /\ OnWire(r, k)')
          /\ \A k, l \in Runs, i, j \in Nat :
               Written(Result(r), k, i)' /\ Written(Result(r), l, j)' => k = l /\ i = j
          /\ \A c \in Chans, i \in Nat, h \in Runs :
               Buffered(Result(r), c, i)' => ~InHand(r, h)' /\ ~OnWire(r, h)'
    <3> USE <2>1, <2>2, <2>3 DEF DInv, OnePlace
    <3>1. \A c, d \in Chans, i, j \in Nat :
               Buffered(Result(r), c, i)' /\ Buffered(Result(r), d, j)' => c = d /\ i = j
      OBVIOUS
    <3>2. \A h, k \in Runs : /\ InHand(r, h)' /\ InHand(r, k)' => h = k
                             /\ ~(InHand(r, h)' /\ OnWire(r, k)')
      OBVIOUS
    <3>4. \A k, l \in Runs, i, j \in Nat :
            Written(Result(r), k, i)' /\ Written(Result(r), l, j)' => k = l /\ i = j
      OBVIOUS
    <3>3. \A c \in Chans, i \in Nat, h \in Runs :
               Buffered(Result(r), c, i)' => ~InHand(r, h)' /\ ~OnWire(r, h)'
      OBVIOUS
    <3> QED
      BY <3>1, <3>2, <3>3, <3>4
  <2>6. OnePlace'
    BY <1>5, <2>5 DEF OnePlace
  <2>7. Fresh'
    <3>1. b <= sendCh
      BY <1>0, <1>5, <2>1 DEF SlTake, DInv, Fresh, Chans
    <3>2. sendCh' = sendCh /\ \A c \in Chans \ {b} : queue'[c] = queue[c]
      BY <1>0, <1>5, <2>1 DEF SlTake, chanVars
    <3> QED
      BY <1>0, <3>1, <3>2 DEF DInv, Fresh, Chans
  <2> QED
    BY <2>4, <2>6, <2>7 DEF DInv
<1>6. ASSUME NEW g \in Runs, SlWritten(g) PROVE DInv'
  <2> DEFINE k == sl[g].conn
  <2>1. \A r \in Results : Result(r) \in Messages \ {Heartbeat(FALSE)}
    OBVIOUS
  <2>2. \A r \in Results, h \in Runs :
          /\ InHand(r, h)' <=> h # g /\ InHand(r, h)
          /\ OnWire(r, h)' <=> OnWire(r, h) \/ (InHand(r, g) /\ h = k)
    <3>1. \A x \in Messages \ {Heartbeat(FALSE)}, h \in Runs :
            /\ Carries(x, h)' <=> h # g /\ Carries(x, h)
            /\ (\E i : Written(x, h, i)') <=> (\E i : Written(x, h, i)) \/ (Carries(x, g) /\ h = k)
      BY <1>6, WritePlaces
    <3> HIDE DEF k
    <3> QED
      BY <2>1, <3>1, OnWireIs DEF InHand, Carries
  <2>7. \A r \in Results, h \in Runs, i \in Nat :
          Written(Result(r), h, i)' =>
            Written(Result(r), h, i) \/ (InHand(r, g) /\ h = k /\ i = Len(wire[k]) + 1)
    <3>1. \A x \in Messages \ {Heartbeat(FALSE)}, h \in Runs : \A i :
            Written(x, h, i)' => Written(x, h, i) \/ (Carries(x, g) /\ h = k /\ i = Len(wire[h]) + 1)
      BY <1>6, WritePlaces
    <3> HIDE DEF k
    <3> QED
      BY <2>1, <3>1 DEF InHand, Carries
  <2>3. \A r, c, i : Buffered(Result(r), c, i)' <=> Buffered(Result(r), c, i)
    BY <1>6 DEF SlWritten, Buffered
  <2>4. Fresh'
    BY <1>6 DEF SlWritten, DInv, Fresh, chanVars
  <2>5. Known'
    BY <1>6, <2>2, <2>3 DEF SlWritten, DInv, Known
  <2>8. \A r, h, i : Written(Result(r), h, i) => OnWire(r, h)
    BY OnWireIs
  <2>6. OnePlace'
    <3> USE DEF DInv, OnePlace
    <3>1. \A r \in Results, h, l \in Runs, i, j \in Nat :
            Written(Result(r), h, i)' /\ Written(Result(r), l, j)' => h = l /\ i = j
      BY <2>7, <2>8
    <3>2. \A r \in Results :
            /\ \A c, d \in Chans, i, j \in Nat :
                 Buffered(Result(r), c, i)' /\ Buffered(Result(r), d, j)' => c = d /\ i = j
            /\ \A h, l \in Runs : /\ InHand(r, h)' /\ InHand(r, l)' => h = l
                                  /\ ~(InHand(r, h)' /\ OnWire(r, l)')
            /\ \A c \in Chans, i \in Nat, h \in Runs :
                 Buffered(Result(r), c, i)' => ~InHand(r, h)' /\ ~OnWire(r, h)'
      BY <2>2, <2>3
    <3> QED
      BY <3>1, <3>2
  <2> QED
    BY <2>4, <2>5, <2>6 DEF DInv
<1> QED
  BY <1>0, <1>1, <1>3, <1>4, <1>5, <1>6, QuietOrMoves

LEMMA InvDInv == Spec => [](IInv /\ DInv)
<1>1. Init => IInv /\ DInv
  BY InitIInv, InitDInv
<1>2. IInv /\ DInv /\ [Next]_vars => (IInv /\ DInv)'
  BY NextIInv, NextDInv
<1> QED
  BY <1>1, <1>2, PTL DEF Spec

\* Where message m is, place by place.
PlacesAre == \A m, x :
  x \in Places(m) <=>
    \/ \E c \in Chans, i \in Nat : x = <<"queue", c, i>> /\ Buffered(m, c, i)
    \/ \E g \in Runs : x = <<"loop", g, 0>> /\ Carries(m, g)
    \/ \E k \in Runs, i \in Nat : x = <<"wire", k, i>> /\ Written(m, k, i)

LEMMA PlacesByKind == TypeOK => PlacesAre
<1> SUFFICES ASSUME TypeOK, NEW m, NEW x
             PROVE  x \in Places(m) <=>
                      \/ \E c \in Chans, i \in Nat : x = <<"queue", c, i>> /\ Buffered(m, c, i)
                      \/ \E g \in Runs : x = <<"loop", g, 0>> /\ Carries(m, g)
                      \/ \E k \in Runs, i \in Nat : x = <<"wire", k, i>> /\ Written(m, k, i)
  BY DEF PlacesAre
<1> DEFINE InBuffer(c) == {<<"queue", c, i>> : i \in {j \in DOMAIN queue[c] : queue[c][j] = m}}
           OnConn(k)   == {<<"wire", k, i>> : i \in {j \in DOMAIN wire[k] : wire[k][j] = m}}
           Carried     == {<<"loop", g, 0>> : g \in {h \in Runs : sl[h].msg = m}}
           Queued      == UNION {InBuffer(c) : c \in Chans}
           Wired       == UNION {OnConn(k) : k \in Runs}
<1>1. Places(m) = Queued \cup Carried \cup Wired
  BY DEF Places
<1>2. /\ \A c \in Chans : DOMAIN queue[c] \subseteq Nat
      /\ \A k \in Runs : DOMAIN wire[k] \subseteq Nat
  <2>1. /\ \A c \in Chans : DOMAIN queue[c] = 1..Len(queue[c]) /\ Len(queue[c]) \in Nat
        /\ \A k \in Runs : DOMAIN wire[k] = 1..Len(wire[k]) /\ Len(wire[k]) \in Nat
    BY LenProperties DEF TypeOK
  <2> QED
    BY <2>1
<1>3. ASSUME NEW c \in Chans
      PROVE  x \in InBuffer(c) <=> \E i \in Nat : x = <<"queue", c, i>> /\ Buffered(m, c, i)
  BY <1>2 DEF Buffered
<1>4. ASSUME NEW k \in Runs
      PROVE  x \in OnConn(k) <=> \E i \in Nat : x = <<"wire", k, i>> /\ Written(m, k, i)
  BY <1>2 DEF Written
<1>5. x \in Queued <=> \E c \in Chans : x \in InBuffer(c)
  <2> HIDE DEF InBuffer
  <2> QED
    OBVIOUS
<1>6. x \in Wired <=> \E k \in Runs : x \in OnConn(k)
  <2> HIDE DEF OnConn
  <2> QED
    OBVIOUS
<1>7. x \in Carried <=> \E g \in Runs : x = <<"loop", g, 0>> /\ Carries(m, g)
  BY DEF Carries
<1> HIDE DEF Carried, Queued, Wired, InBuffer, OnConn
<1> QED
  BY <1>1, <1>3, <1>4, <1>5, <1>6, <1>7

\* A result is in one buffer, with one send loop or on one connection, however
\* many stale loops there are (AtMostOnce of module WsClient).
THEOREM ResultsAreSingle == Spec => []AtMostOnce
<1>1. ASSUME IInv, DInv PROVE AtMostOnce
  <2>1. PlacesAre
    BY <1>1, PlacesByKind DEF IInv
  <2> SUFFICES ASSUME NEW r \in Results, NEW p \in Places(Result(r)), NEW q \in Places(Result(r))
               PROVE  p = q
    BY DEF AtMostOnce
  <2>2. ASSUME NEW x \in Places(Result(r))
        PROVE  \/ \E c \in Chans, i \in Nat : x = <<"queue", c, i>> /\ Buffered(Result(r), c, i)
               \/ \E g \in Runs : x = <<"loop", g, 0>> /\ InHand(r, g)
               \/ \E k \in Runs, i \in Nat : /\ x = <<"wire", k, i>> /\ OnWire(r, k)
                                             /\ Written(Result(r), k, i)
    BY <2>1, OnWireIs DEF PlacesAre, InHand, Carries
  <2> QED
    BY <1>1, <2>2 DEF DInv, OnePlace
<1> QED
  BY <1>1, InvDInv, PTL
-----------------------------------------------------------------------------
(* The refinement.                                                         *)

\* Some goroutine can still send result r.
Sendable(r) ==
  Alive /\ \/ \E c \in Chans : Reachable(c) /\ InQueue(r, c)
           \/ \E g \in Runs : InHand(r, g)

Sent(r) == \E k \in Runs : OnWire(r, k)

\* The fate of a result, case by case.
FateIs ==
  \A r \in Results :
    /\ r \notin submitted => Fate(r) = "new"
    /\ Sent(r) => Fate(r) = "sent"
    /\ r \in submitted /\ ~Sent(r) => Fate(r) = IF Sendable(r) THEN "pending" ELSE "lost"

LEMMA Fates == Known => FateIs
BY DEF Known, FateIs, Sent, Sendable, Fate

\* Two ways to say that a result is in a buffer.
QueuedIs ==
  \A r \in Results, c \in Chans : InQueue(r, c) <=> \E i \in Nat : Buffered(Result(r), c, i)

LEMMA QueuePlaces == TypeOK => QueuedIs
<1> SUFFICES ASSUME TypeOK, NEW c \in Chans
             PROVE  \A r \in Results : InQueue(r, c) <=> \E i \in Nat : Buffered(Result(r), c, i)
  BY DEF QueuedIs
<1>1. DOMAIN queue[c] \subseteq Nat
  <2>1. DOMAIN queue[c] = 1..Len(queue[c]) /\ Len(queue[c]) \in Nat
    BY LenProperties DEF TypeOK
  <2> QED
    BY <2>1
<1> QED
  BY <1>1 DEF InQueue, Buffered

\* A step that submits and transmits nothing drops results, or none.
LEMMA Drops ==
  ASSUME FateIs, FateIs', Known, UNCHANGED submitted,
         \A r \in Results : (Sent(r)' <=> Sent(r)) /\ (Sendable(r)' => Sendable(r))
  PROVE  Abstract!Next
<1> DEFINE S == {r \in Results : Fate(r) = "pending" /\ Fate(r)' = "lost"}
<1>1. \A r \in Results : Sent(r) => r \in submitted
  BY DEF Known, Sent
<1>2. \A r \in Results : Fate(r)' = IF r \in S THEN "lost" ELSE Fate(r)
  BY <1>1 DEF FateIs
<1>3. S \subseteq Abstract!Pending
  BY DEF Abstract!Pending
<1>4. Abstract!Lose(S)
  BY <1>2 DEF Abstract!Lose
<1> QED
  BY <1>3, <1>4 DEF Abstract!Next

\* Every step of the client is a step of Delivery, or changes no fate.
LEMMA DeliveryStep ==
  ASSUME IInv, DInv, [Next]_vars
  PROVE  [Abstract!Next]_[r \in Results |-> Fate(r)]
<1> USE MessageKinds
<1>0. /\ TypeOK /\ TypeOK' /\ Known /\ FateIs /\ FateIs' /\ QueuedIs /\ QueuedIs'
      /\ sendCh \in Chans /\ sendCh' \in Chans
  <2>1. TypeOK /\ TypeOK' /\ Known /\ Known'
    BY NextIInv, NextDInv DEF IInv, DInv
  <2>2. FateIs /\ FateIs' /\ QueuedIs /\ QueuedIs'
    BY <2>1, Fates, QueuePlaces, PTL
  <2> QED
    BY <2>1, <2>2 DEF TypeOK
<1>1. CASE Quiet
  <2>1. ASSUME NEW r \in Results PROVE (Sent(r)' <=> Sent(r)) /\ (Sendable(r)' => Sendable(r))
    <3>1. \A k : OnWire(r, k)' <=> OnWire(r, k)
      BY <1>1 DEF Quiet, OnWire
    <3>2. \A g \in Runs : InHand(r, g)' => InHand(r, g)
      BY <1>1 DEF Quiet, InHand
    <3>3. ASSUME NEW c \in Chans, Reachable(c)', InQueue(r, c)'
          PROVE  Reachable(c) /\ InQueue(r, c)
      <4>1. InQueue(r, c) /\ queue[c] # <<>>
        BY <1>1, <3>3 DEF Quiet, InQueue
      <4>2. c <= sendCh
        BY <1>0, <4>1 DEF DInv, Fresh, Chans
      <4>3. Reachable(c)
        BY <1>0, <1>1, <3>3, <4>2 DEF Quiet, Reachable, Chans
      <4> QED
        BY <4>1, <4>3
    <3> QED
      BY <1>1, <3>1, <3>2, <3>3 DEF Quiet, Sent, Sendable
  <2> QED
    BY <1>0, <1>1, <2>1, Drops DEF Quiet
<1>2. ASSUME NEW s \in Results, Submit(s) PROVE Abstract!Next
  <2>1. Send(Result(s)) /\ s \notin submitted /\ submitted' = submitted \cup {s}
    BY <1>2 DEF Submit
  <2>2. \A r \in Results \ {s}, c \in Chans, i \in Nat : Buffered(Result(r), c, i)' <=> Buffered(Result(r), c, i)
    BY <1>0, <2>1, SendPlaces
  <2>3. \A r \in Results \ {s}, c \in Chans : InQueue(r, c)' <=> InQueue(r, c)
    BY <1>0, <2>2 DEF QueuedIs
  <2>4. \A c \in Chans : Reachable(c)' <=> Reachable(c)
    BY <1>2 DEF Submit, Reachable, chanVars
  <2>5. \A r, g : (InHand(r, g)' <=> InHand(r, g)) /\ (OnWire(r, g)' <=> OnWire(r, g))
    BY <1>2 DEF Submit, InHand, OnWire
  <2>6. \A r \in Results \ {s} : (Sent(r)' <=> Sent(r)) /\ (Sendable(r)' <=> Sendable(r))
    BY <1>2, <2>3, <2>4, <2>5 DEF Submit, Sent, Sendable, Alive
  <2>7. \A r \in Results \ {s} : Fate(r)' = Fate(r)
    BY <1>0, <2>1, <2>6 DEF FateIs, Known, Sent
  <2>8. ~Sent(s)'
    BY <1>0, <2>1, <2>5 DEF Known, Sent
  <2>9. Fate(s) = "new" /\ Fate(s)' \in {"pending", "lost"}
    BY <1>0, <2>1, <2>8 DEF FateIs
  <2>10. Abstract!Submit(s)
    BY <2>7, <2>9 DEF Abstract!Submit
  <2> QED
    BY <2>10 DEF Abstract!Next
<1>3. ASSUME NEW g \in Runs, HbPush(g) PROVE Abstract!Next
  <2> DEFINE m == Heartbeat(hb[g].env)
  <2>1. Send(m) /\ m \in Messages /\ UNCHANGED <<rc, sendCh, sl, submitted, wire>>
    BY <1>0, <1>3 DEF HbPush, TypeOK, HbStates, Messages, chanVars
  <2>2. \A r \in Results, c \in Chans, i \in Nat : Buffered(Result(r), c, i)' => Buffered(Result(r), c, i)
    BY <1>0, <2>1, SendPlaces
  <2>3. \A r \in Results, c \in Chans : InQueue(r, c)' => InQueue(r, c)
    BY <1>0, <2>2 DEF QueuedIs
  <2>4. \A r \in Results : (Sent(r)' <=> Sent(r)) /\ (Sendable(r)' => Sendable(r))
    BY <2>1, <2>3 DEF Sent, Sendable, Alive, Reachable, InHand, OnWire
  <2> QED
    BY <1>0, <2>1, <2>4, Drops
<1>4. ASSUME NEW g \in Runs, SlTake(g) PROVE Abstract!Next
  <2>1. PICK b \in Chans : b = sl[g].send
    BY <1>4 DEF SlTake, IInv, Held
  <2>2. \A r \in Results, i \in Nat :
          /\ Buffered(Result(r), b, i)' => Buffered(Result(r), b, i + 1) /\ i # 0
          /\ \A c \in Chans \ {b} : Buffered(Result(r), c, i)' => Buffered(Result(r), c, i)
    BY <1>4, <2>1, TakePlaces
  <2>3. \A r \in Results, h \in Runs :
          /\ InHand(r, h)' => IF h = g THEN Buffered(Result(r), b, 1) ELSE InHand(r, h)
          /\ OnWire(r, h)' <=> OnWire(r, h)
    <3>1. \A r \in Results, h \in Runs :
            InHand(r, h)' => IF h = g THEN Buffered(Result(r), b, 1) ELSE InHand(r, h)
      BY <1>4, <2>1, TakePlaces DEF InHand, Carries
    <3> QED
      BY <1>4, <3>1 DEF SlTake, OnWire
  <2>4. Reachable(b) /\ \A c \in Chans : Reachable(c)' => Reachable(c)
    BY <1>0, <1>4, <2>1 DEF SlTake, Reachable, TypeOK, Idle, chanVars
  <2>5. \A r \in Results, c \in Chans : InQueue(r, c)' => InQueue(r, c)
    BY <1>0, <2>2 DEF QueuedIs
  <2>6. \A r \in Results, h \in Runs : InHand(r, h)' => InHand(r, h) \/ InQueue(r, b)
    BY <1>0, <2>3 DEF QueuedIs
  <2>7. \A r \in Results : (Sent(r)' <=> Sent(r)) /\ (Sendable(r)' => Sendable(r))
    BY <1>4, <2>3, <2>4, <2>5, <2>6 DEF SlTake, Sent, Sendable, Alive
  <2> QED
    BY <1>0, <1>4, <2>7, Drops DEF SlTake
<1>5. ASSUME NEW g \in Runs, SlWritten(g)
      PROVE  Abstract!Next
  <2>1. PICK k : k = sl[g].conn
    OBVIOUS
  <2>2. \A r \in Results, h \in Runs :
          /\ InHand(r, h)' <=> h # g /\ InHand(r, h)
          /\ OnWire(r, h)' <=> OnWire(r, h) \/ (InHand(r, g) /\ h = k)
    <3>1. \A r \in Results : Result(r) \in Messages \ {Heartbeat(FALSE)}
      OBVIOUS
    <3>2. \A x \in Messages \ {Heartbeat(FALSE)}, h \in Runs :
            /\ Carries(x, h)' <=> h # g /\ Carries(x, h)
            /\ (\E i : Written(x, h, i)') <=> (\E i : Written(x, h, i)) \/ (Carries(x, g) /\ h = k)
      BY <1>5, <2>1, WritePlaces
    <3> QED
      BY <3>1, <3>2, OnWireIs DEF InHand, Carries
  <2>3. UNCHANGED <<rc, submitted, queue, sendCh>>
    BY <1>5 DEF SlWritten, chanVars
  <2>4. \A c \in Chans : Reachable(c)' <=> Reachable(c)
    BY <1>0, <1>5 DEF SlWritten, Reachable, TypeOK, Idle, chanVars
  <2>5. \A r \in Results, c \in Chans : InQueue(r, c)' <=> InQueue(r, c)
    BY <2>3 DEF InQueue
  <2>6. CASE \A r \in Results : ~InHand(r, g)
    <3>1. \A r \in Results : (Sent(r)' <=> Sent(r)) /\ (Sendable(r)' => Sendable(r))
      BY <2>2, <2>3, <2>4, <2>5, <2>6 DEF Sent, Sendable, Alive
    <3> QED
      BY <1>0, <2>3, <3>1, Drops
  <2>7. ASSUME NEW s \in Results, InHand(s, g) PROVE Abstract!Next
    <3>1. \A r \in Results \ {s} : ~InHand(r, g)
      BY <2>7 DEF InHand
    <3>2. \A r \in Results \ {s} : (Sent(r)' <=> Sent(r)) /\ (Sendable(r)' <=> Sendable(r))
      BY <2>2, <2>3, <2>4, <2>5, <3>1 DEF Sent, Sendable, Alive
    <3>3. \A r \in Results \ {s} : Fate(r)' = Fate(r)
      BY <1>0, <2>3, <3>2 DEF FateIs, Known, Sent
    <3>4. s \in submitted /\ ~Sent(s) /\ Sendable(s)
      BY <1>0, <1>5, <2>7 DEF Known, DInv, OnePlace, Sent, Sendable, SlWritten
    <3>5. k \in Runs
      BY <1>0, <1>5, <2>1 DEF SlWritten, IInv, TypeOK, SlStates, Runs
    <3>6. Sent(s)'
      BY <2>2, <2>7, <3>5 DEF Sent
    <3>7. Fate(s) = "pending" /\ Fate(s)' = "sent"
      BY <1>0, <3>4, <3>6 DEF FateIs
    <3>8. Abstract!Transmit(s)
      BY <3>3, <3>7 DEF Abstract!Transmit
    <3> QED
      BY <3>8 DEF Abstract!Next
  <2> QED
    BY <2>6, <2>7
<1> QED
  BY <1>0, <1>1, <1>2, <1>3, <1>4, <1>5, QuietOrMoves

\* Whatever the interleaving of reconnections with stale and current loops, the
\* client is a delivery (DeliverySpec of module WsClient): a result goes out at
\* most once, and one that has been dropped never comes back.
THEOREM ImplementsDelivery == Spec => DeliverySpec
<1>1. Init => Abstract!Init
  <2> SUFFICES ASSUME Init PROVE Abstract!Init
    OBVIOUS
  <2>1. \A r \in Results : Fate(r) = "new"
    BY InitDInv, Fates DEF FateIs, DInv, Init
  <2> QED
    BY <2>1 DEF Abstract!Init
<1>2. IInv /\ DInv /\ [Next]_vars => [Abstract!Next]_[r \in Results |-> Fate(r)]
  BY DeliveryStep
<1> QED
  BY <1>1, <1>2, InvDInv, PTL DEF Spec, DeliverySpec, Abstract!Spec
-----------------------------------------------------------------------------
(* How many messages with environment information there are, for any       *)
(* number of connections, heartbeats and results.                          *)
(*                                                                         *)
(* The environment information that exists and the one that a false        *)
(* envInfoSent still asks for are together at most one for each connection *)
(* that has been made or is being made.  A heartbeat moves what it asks    *)
(* for into existence; from then on a message changes its place and is     *)
(* perhaps lost, but never doubled.                                        *)

Info == Heartbeat(TRUE)

\* The environment information that heartbeats may still make.
Due == IF envInfoSent THEN 0 ELSE 1

\* One for each connection, and one for the next once this one is given up.
Allowance ==
  IF rc \in {"welcome", "start", "check", "read", "return", "checkClosed"} THEN conn ELSE conn + 1

Count == IsFiniteSet(EnvInfos) /\ Cardinality(EnvInfos) + Due <= Allowance

\* Where environment information is, place by place.
EnvInfosIs == \A x :
  x \in EnvInfos <=>
    \/ \E g \in Runs : x = <<"hand", g, 0>> /\ hb[g].env
    \/ \E c \in Chans, i \in Nat : x = <<"queue", c, i>> /\ Buffered(Info, c, i)
    \/ \E g \in Runs : x = <<"loop", g, 0>> /\ Carries(Info, g)
    \/ \E k \in Runs, i \in Nat : x = <<"wire", k, i>> /\ Written(Info, k, i)
-----------------------------------------------------------------------------
LEMMA InfoPlaces == TypeOK => EnvInfosIs
<1> SUFFICES ASSUME TypeOK PROVE EnvInfosIs
  OBVIOUS
<1>1. PlacesAre
  BY PlacesByKind
<1> DEFINE Handed == {<<"hand", g, 0>> : g \in {h \in Runs : hb[h].env}}
<1>2. EnvInfos = Handed \cup Places(Info)
  BY DEF EnvInfos, Info
<1>3. \A x : x \in Handed <=> \E g \in Runs : x = <<"hand", g, 0>> /\ hb[g].env
  OBVIOUS
<1> HIDE DEF Handed
<1> QED
  BY <1>1, <1>2, <1>3 DEF PlacesAre, EnvInfosIs

\* A set that a one-to-one function takes into T is no larger than T.
LEMMA Injected ==
  ASSUME NEW S, NEW T, IsFiniteSet(T), NEW f \in [S -> T],
         \A x, y \in S : f[x] = f[y] => x = y
  PROVE  IsFiniteSet(S) /\ Cardinality(S) <= Cardinality(T)
<1>1. f \in Injection(S, T)
  BY DEF Injection, IsInjective
<1> QED
  BY <1>1, FS_Injection

\* The account is kept: nothing more is due than is allowed for.
Balanced == Due' + Allowance <= Due + Allowance'

\* What the account is made of.
Amounts == Due \in 0..1 /\ Allowance \in Nat /\ conn \in Nat

LEMMA AmountsType == TypeOK => Amounts
<1> SUFFICES ASSUME TypeOK PROVE Amounts
  OBVIOUS
<1>1. conn \in Nat
  BY BoundAssumption DEF TypeOK
<1> QED
  BY <1>1 DEF Amounts, Due, Allowance

\* A step that makes no environment information and keeps the account.
LEMMA Settled ==
  ASSUME TypeOK, TypeOK', Count, Balanced,
         IsFiniteSet(EnvInfos'), Cardinality(EnvInfos') <= Cardinality(EnvInfos)
  PROVE  Count'
<1>1. Cardinality(EnvInfos) \in Nat /\ Cardinality(EnvInfos') \in Nat
  BY FS_CardinalityType DEF Count
<1>2. Amounts /\ Amounts'
  BY AmountsType, PTL
<1>3. PICK d, e \in 0..1, a, b \in Nat : d = Due /\ e = Due' /\ a = Allowance /\ b = Allowance'
  BY <1>2 DEF Amounts
<1>4. Cardinality(EnvInfos) + Due <= Allowance
  BY DEF Count
<1>5. Cardinality(EnvInfos') + Due' <= Allowance'
  <2>1. PICK n, m \in Nat : n = Cardinality(EnvInfos) /\ m = Cardinality(EnvInfos') /\ m <= n
    BY <1>1
  <2>2. n + d <= a
    BY <1>3, <1>4, <2>1
  <2>3. e + a <= d + b
    BY <1>3 DEF Balanced
  <2>4. m + e <= b
    <3>1. /\ d \in Int /\ e \in Int /\ a \in Int /\ b \in Int /\ n \in Int /\ m \in Int
          /\ m <= n
      BY <1>3, <2>1
    <3> QED
      BY <3>1, <2>2, <2>3
  <2> QED
    BY <1>3, <2>1, <2>4
<1> QED
  BY <1>5 DEF Count

\* What the steps other than sendHeartbeat's critical section do to the account
\* and to what the heartbeat loops hold.
LEMMA Accounts ==
  ASSUME TypeOK, TypeOK', [Next]_vars
  PROVE  \/ \E g \in Runs : HbLock(g)
         \/ Balanced /\ \A g \in Runs : hb'[g].env => hb[g].env
<1>0. Due \in 0..1 /\ Allowance \in Nat /\ conn \in Nat
  BY AmountsType DEF Amounts
<1>1. UNCHANGED <<rc, conn, envInfoSent>> => Balanced
  <2> SUFFICES ASSUME UNCHANGED <<rc, conn, envInfoSent>> PROVE Balanced
    OBVIOUS
  <2>1. Due' = Due /\ Allowance' = Allowance
    BY DEF Due, Allowance
  <2> QED
    BY <1>0, <2>1 DEF Balanced
<1>2. CASE Top \/ BackoffCancelled \/ ReadCheck \/ ReadMessage \/ ReadError
           \/ ReadClosed \/ ReturnClosed
  BY <1>0, <1>2 DEF Top, BackoffCancelled, ReadCheck, ReadMessage, ReadError, ReadClosed,
              ReturnClosed, Goto, Balanced, Due, Allowance
<1>3. CASE DialOk \/ DialFail \/ BackoffElapsed \/ Welcomed
  BY <1>0, <1>3 DEF DialOk, DialFail, BackoffElapsed, Welcomed, Balanced, Due, Allowance
<1>4. CASE StartRun
  <2>1. \A g \in Runs : hb'[g].env = hb[g].env
    BY <1>4 DEF StartRun, TypeOK, HbStates
  <2>2. Balanced
    BY <1>0, <1>4 DEF StartRun, Balanced, Due, Allowance
  <2> QED
    BY <2>1, <2>2
<1>5. CASE CloseDone \/ ResetEnvInfo \/ NewDoneCh \/ NewSendCh
  BY <1>0, <1>5 DEF CloseDone, ResetEnvInfo, NewDoneCh, NewSendCh, Balanced, Due, Allowance
<1>6. ASSUME NEW g \in Runs, HbPush(g) \/ HbEval(g) \/ HbStop(g) \/ HbTick(g)
      PROVE  Balanced /\ \A h \in Runs : hb'[h].env => hb[h].env
  <2>1. /\ UNCHANGED <<rc, conn, envInfoSent>>
        /\ \A h \in Runs \ {g} : hb'[h] = hb[h]
        /\ hb'[g].env => hb[g].env
    <3>1. CASE HbPush(g)
      BY <3>1 DEF HbPush, TypeOK, HbStates
    <3>2. CASE HbEval(g)
      BY <3>2 DEF HbEval, TypeOK, HbStates
    <3>3. CASE HbStop(g) \/ HbTick(g)
      BY <3>3 DEF HbStop, HbTick, TypeOK, HbStates
    <3> QED
      BY <1>6, <3>1, <3>2, <3>3
  <2> QED
    BY <1>1, <2>1
<1>7. ASSUME NEW g \in Runs, SendLoop(g) PROVE UNCHANGED <<rc, conn, envInfoSent, hb>>
  BY <1>7 DEF SendLoop, SlEvalDone, SlEvalSend, SlStop, SlTake, SlConn, SlWritten,
              SlWriteError, SlStep
<1>8. CASE \E r \in Results : Submit(r)
  BY <1>1, <1>8 DEF Submit
<1>9. CASE CancelCtx \/ Close \/ (\E k \in Runs : LinkFails(k)) \/ UNCHANGED vars
  BY <1>1, <1>9 DEF CancelCtx, Close, LinkFails, vars
<1> QED
  BY <1>1, <1>2, <1>3, <1>4, <1>5, <1>6, <1>7, <1>8, <1>9
     DEF Next, Reconnector, HeartbeatLoop, Ended
-----------------------------------------------------------------------------
LEMMA InitCount == Init => Count
<1> SUFFICES ASSUME Init PROVE Count
  OBVIOUS
<1>1. EnvInfosIs
  BY InitIInv, InfoPlaces DEF IInv
<1>2. \A x : x \notin EnvInfos
  <2>1. \A c \in Chans, i \in Nat : ~Buffered(Info, c, i)
    BY DEF Init, Buffered
  <2>2. \A g \in Runs : ~hb[g].env /\ ~Carries(Info, g)
    BY MessageKinds DEF Init, Carries, Idle, Info
  <2>3. \A g \in Runs, i \in Nat : ~Written(Info, g, i)
    BY DEF Init, Written
  <2> QED
    BY <1>1, <2>1, <2>2, <2>3 DEF EnvInfosIs
<1>3. EnvInfos = {}
  BY <1>2
<1>4. IsFiniteSet(EnvInfos) /\ Cardinality(EnvInfos) = 0
  BY <1>3, FS_EmptySet
<1>5. Due = 1 /\ Allowance = 1
  BY DEF Init, Due, Allowance
<1> QED
  BY <1>4, <1>5 DEF Count

\* sendHeartbeat decides: what is due is made, or nothing is made.
LEMMA LockCount ==
  ASSUME TypeOK, EnvInfosIs, EnvInfosIs', Count, NEW g \in Runs, HbLock(g)
  PROVE  Count'
<1>1. \A h \in Runs : hb'[h].env => hb[h].env \/ (h = g /\ ~envInfoSent)
  BY DEF HbLock, TypeOK, HbStates
<1>2. UNCHANGED <<queue, sl, wire, rc, conn>> /\ envInfoSent'
  BY DEF HbLock
<1>3. \A c, i : Buffered(Info, c, i)' <=> Buffered(Info, c, i)
  BY <1>2 DEF Buffered
<1>4. \A h, i : (Carries(Info, h)' <=> Carries(Info, h)) /\ (Written(Info, h, i)' <=> Written(Info, h, i))
  BY <1>2 DEF Carries, Written
<1>5. \A x : x \in EnvInfos' => x \in EnvInfos \/ (x = <<"hand", g, 0>> /\ ~envInfoSent)
  BY <1>1, <1>2, <1>3, <1>4 DEF EnvInfosIs
<1>6. Due' = 0 /\ Allowance' = Allowance
  BY <1>2 DEF Due, Allowance
<1>7. Amounts
  BY AmountsType
<1>8. PICK n \in Nat : n = Cardinality(EnvInfos)
  BY FS_CardinalityType DEF Count
<1>9. CASE envInfoSent
  <2>1. EnvInfos' \in SUBSET EnvInfos
    BY <1>5, <1>9
  <2>2. IsFiniteSet(EnvInfos') /\ Cardinality(EnvInfos') <= Cardinality(EnvInfos)
    BY <2>1, FS_Subset DEF Count
  <2>3. Due = 0
    BY <1>9 DEF Due
  <2>4. Cardinality(EnvInfos') \in Nat
    BY <2>2, FS_CardinalityType
  <2> QED
    BY <1>6, <1>7, <1>8, <2>2, <2>3, <2>4 DEF Count, Amounts
<1>10. CASE ~envInfoSent
  <2> DEFINE E == EnvInfos \cup {<<"hand", g, 0>>}
  <2>1. IsFiniteSet(E) /\ Cardinality(E) <= n + 1
    <3>1. IsFiniteSet(EnvInfos)
      BY DEF Count
    <3>2. /\ IsFiniteSet(E)
          /\ Cardinality(E) = IF <<"hand", g, 0>> \in EnvInfos THEN n ELSE n + 1
      BY <1>8, <3>1, FS_AddElement
    <3> QED
      BY <3>2
  <2>2. EnvInfos' \in SUBSET E
    BY <1>5
  <2>3. IsFiniteSet(EnvInfos') /\ Cardinality(EnvInfos') <= Cardinality(E)
    BY <2>1, <2>2, FS_Subset
  <2>4. Cardinality(EnvInfos') \in Nat /\ Cardinality(E) \in Nat
    BY <2>1, <2>3, FS_CardinalityType
  <2>5. Due = 1
    BY <1>10 DEF Due
  <2>6. Cardinality(EnvInfos') <= n + 1
    BY <1>8, <2>1, <2>3, <2>4
  <2> QED
    BY <1>6, <1>7, <1>8, <2>3, <2>4, <2>5, <2>6 DEF Count, Amounts
<1> QED
  BY <1>9, <1>10

\* A step that moves environment information from place p to place q, and
\* changes no other place but by losing what is there.
LEMMA Moved ==
  ASSUME Count, NEW p, NEW q, p \in EnvInfos,
         \A x : x \in EnvInfos' => x \in EnvInfos \/ x = q,
         p \notin EnvInfos'
  PROVE  IsFiniteSet(EnvInfos') /\ Cardinality(EnvInfos') <= Cardinality(EnvInfos)
<1> DEFINE S == EnvInfos'
           f == [x \in S |-> IF x \in EnvInfos THEN x ELSE p]
<1>1. f \in [S -> EnvInfos]
  OBVIOUS
<1>2. \A x, y \in S : f[x] = f[y] => x = y
  OBVIOUS
<1> HIDE DEF f, S
<1>3. IsFiniteSet(EnvInfos)
  BY DEF Count
<1>4. IsFiniteSet(S) /\ Cardinality(S) <= Cardinality(EnvInfos)
  BY <1>1, <1>2, <1>3, Injected
<1> QED
  BY <1>4 DEF S

\* Send puts the message of a heartbeat at the end of a buffer, or drops it.
LEMMA PushKeeps ==
  ASSUME TypeOK, EnvInfosIs, EnvInfosIs', Count, NEW g \in Runs, HbPush(g)
  PROVE  IsFiniteSet(EnvInfos') /\ Cardinality(EnvInfos') <= Cardinality(EnvInfos)
<1> DEFINE m == Heartbeat(hb[g].env)
           q == <<"queue", sendCh, Len(queue[sendCh]) + 1>>
           p == <<"hand", g, 0>>
<1>1. m \in Messages /\ Info \in Messages /\ (m = Info => hb[g].env)
  <2>1. hb[g].env \in BOOLEAN
    BY DEF TypeOK, HbStates
  <2> QED
    BY <2>1, MessageKinds DEF Messages, Info
<1>2. Send(m) /\ UNCHANGED <<sl, wire>>
  BY DEF HbPush
<1>3. ~hb'[g].env /\ \A h \in Runs : hb'[h].env => hb[h].env
  BY DEF HbPush, TypeOK, HbStates
<1>4. \A c \in Chans, i \in Nat : Buffered(Info, c, i)' =>
        Buffered(Info, c, i) \/ (m = Info /\ <<"queue", c, i>> = q)
  BY <1>1, <1>2, SendPlaces
<1>5. \A h, i : (Carries(Info, h)' <=> Carries(Info, h)) /\ (Written(Info, h, i)' <=> Written(Info, h, i))
  BY <1>2 DEF Carries, Written
<1>6. p \notin EnvInfos'
  BY <1>3 DEF EnvInfosIs
<1>7. CASE m = Info
  <2>1. p \in EnvInfos
    BY <1>1, <1>7 DEF EnvInfosIs
  <2>2. \A x : x \in EnvInfos' => x \in EnvInfos \/ x = q
    BY <1>2, <1>3, <1>4, <1>5 DEF EnvInfosIs
  <2> HIDE DEF p, q
  <2> QED
    BY <1>6, <2>1, <2>2, Moved
<1>8. CASE m # Info
  <2>1. \A x : x \in EnvInfos' => x \in EnvInfos
    BY <1>2, <1>3, <1>4, <1>5, <1>8 DEF EnvInfosIs
  <2> QED
    BY <2>1, FS_Subset DEF Count
<1> QED
  BY <1>7, <1>8

\* A send loop takes the first message of a buffer, and the others move up.
LEMMA TakeKeeps ==
  ASSUME IInv, EnvInfosIs, EnvInfosIs', Count, NEW g \in Runs, SlTake(g)
  PROVE  IsFiniteSet(EnvInfos') /\ Cardinality(EnvInfos') <= Cardinality(EnvInfos)
<1>1. PICK b \in Chans : b = sl[g].send
  BY DEF SlTake, IInv, Held
<1>2. Info \in Messages
  BY MessageKinds DEF Info
<1>3. /\ \A i \in Nat : Buffered(Info, b, i)' => Buffered(Info, b, i + 1) /\ i # 0
      /\ \A c \in Chans \ {b}, i \in Nat : Buffered(Info, c, i)' => Buffered(Info, c, i)
  BY <1>1, <1>2, TakePlaces
<1>4. /\ \A h \in Runs : Carries(Info, h)' => IF h = g THEN Buffered(Info, b, 1) ELSE Carries(Info, h)
      /\ \A h \in Runs, i \in Nat : Written(Info, h, i)' <=> Written(Info, h, i)
  BY <1>1, <1>2, TakePlaces DEF SlTake, Written
<1>5. UNCHANGED hb
  BY DEF SlTake
<1> DEFINE S == EnvInfos'
           From(x) == IF x = <<"loop", g, 0>> THEN <<"queue", b, 1>>
                      ELSE IF x[1] = "queue" /\ x[2] = b THEN <<"queue", b, x[3] + 1>> ELSE x
           f == [x \in S |-> From(x)]
<1>6. ASSUME NEW x \in S
      PROVE  \/ x = <<"loop", g, 0>> /\ From(x) = <<"queue", b, 1>>
             \/ \E i \in Nat \ {0} : x = <<"queue", b, i>> /\ From(x) = <<"queue", b, i + 1>>
             \/ From(x) = x /\ x # <<"loop", g, 0>> /\ \A i : x # <<"queue", b, i>>
  <2>1. CASE x = <<"loop", g, 0>>
    BY <2>1
  <2>2. CASE \E i \in Nat : x = <<"queue", b, i>> /\ Buffered(Info, b, i)'
    BY <1>3, <2>2
  <2>3. CASE \E c \in Chans \ {b}, i \in Nat : x = <<"queue", c, i>>
    BY <2>3
  <2>4. CASE \E h \in Runs : x = <<"hand", h, 0>> \/ \E i \in Nat : x = <<"wire", h, i>>
    BY <2>4
  <2>5. CASE \E h \in Runs \ {g} : x = <<"loop", h, 0>>
    BY <2>5
  <2> HIDE DEF From
  <2> QED
    BY <2>1, <2>2, <2>3, <2>4, <2>5 DEF EnvInfosIs
<1>7. ASSUME NEW x \in S PROVE From(x) \in EnvInfos
  <2> HIDE DEF From
  <2>1. CASE x = <<"loop", g, 0>> /\ From(x) = <<"queue", b, 1>>
    <3>1. Buffered(Info, b, 1)
      BY <1>4, <2>1 DEF EnvInfosIs
    <3> QED
      BY <2>1, <3>1 DEF EnvInfosIs
  <2>2. ASSUME NEW i \in Nat \ {0}, x = <<"queue", b, i>>, From(x) = <<"queue", b, i + 1>>
        PROVE  From(x) \in EnvInfos
    <3>1. Buffered(Info, b, i)'
      BY <2>2 DEF EnvInfosIs
    <3>2. Buffered(Info, b, i + 1) /\ i + 1 \in Nat
      BY <1>3, <3>1
    <3> QED
      BY <2>2, <3>2 DEF EnvInfosIs
  <2>3. CASE From(x) = x /\ x # <<"loop", g, 0>> /\ \A i : x # <<"queue", b, i>>
    <3>1. x \in EnvInfos
      BY <1>3, <1>4, <1>5, <2>3 DEF EnvInfosIs
    <3> QED
      BY <2>3, <3>1
  <2> QED
    BY <1>6, <2>1, <2>2, <2>3
<1>8. ASSUME NEW x \in S, NEW y \in S, From(x) = From(y) PROVE x = y
  <2> HIDE DEF From, S
  <2> QED
    BY <1>6, <1>8
<1> HIDE DEF From
<1>9. f \in [S -> EnvInfos] /\ \A x, y \in S : f[x] = f[y] => x = y
  BY <1>7, <1>8
<1>10. IsFiniteSet(EnvInfos)
  BY DEF Count
<1> HIDE DEF f, S
<1>11. IsFiniteSet(S) /\ Cardinality(S) <= Cardinality(EnvInfos)
  BY <1>9, <1>10, Injected
<1> QED
  BY <1>11 DEF S

\* WriteMessage puts the message of a send loop at the end of a connection.
LEMMA WriteKeeps ==
  ASSUME IInv, EnvInfosIs, EnvInfosIs', Count, NEW g \in Runs, SlWritten(g)
  PROVE  IsFiniteSet(EnvInfos') /\ Cardinality(EnvInfos') <= Cardinality(EnvInfos)
<1> DEFINE q == <<"wire", sl[g].conn, Len(wire[sl[g].conn]) + 1>>
           p == <<"loop", g, 0>>
<1>1. Info \in Messages \ {Heartbeat(FALSE)}
  BY MessageKinds DEF Info
<1>2. UNCHANGED <<hb, queue>>
  BY DEF SlWritten
<1>3. \A h \in Runs :
        /\ Carries(Info, h)' <=> h # g /\ Carries(Info, h)
        /\ \A i \in Nat : Written(Info, h, i)' =>
             Written(Info, h, i) \/ (Carries(Info, g) /\ <<"wire", h, i>> = q)
  BY <1>1, WritePlaces
<1>4. \A c, i : Buffered(Info, c, i)' <=> Buffered(Info, c, i)
  BY <1>2 DEF Buffered
<1>5. p \notin EnvInfos'
  BY <1>3 DEF EnvInfosIs
<1>6. CASE Carries(Info, g)
  <2>1. p \in EnvInfos
    BY <1>6 DEF EnvInfosIs
  <2>2. \A x : x \in EnvInfos' => x \in EnvInfos \/ x = q
    BY <1>2, <1>3, <1>4 DEF EnvInfosIs
  <2> HIDE DEF p, q
  <2> QED
    BY <1>5, <2>1, <2>2, Moved
<1>7. CASE ~Carries(Info, g)
  <2>1. \A x : x \in EnvInfos' => x \in EnvInfos
    BY <1>2, <1>3, <1>4, <1>7 DEF EnvInfosIs
  <2> QED
    BY <2>1, FS_Subset DEF Count
<1> QED
  BY <1>6, <1>7

LEMMA NextCount ==
  ASSUME IInv, Count, [Next]_vars PROVE Count'
<1>1. TypeOK /\ TypeOK' /\ EnvInfosIs /\ EnvInfosIs'
  <2>1. TypeOK /\ TypeOK'
    BY NextIInv DEF IInv
  <2> QED
    BY <2>1, InfoPlaces, PTL
<1>2. ASSUME NEW g \in Runs, HbLock(g) PROVE Count'
  BY <1>1, <1>2, LockCount
<1>3. ASSUME Balanced, \A g \in Runs : hb'[g].env => hb[g].env PROVE Count'
  <2>1. CASE Quiet
    <3>1. UNCHANGED <<queue, wire>> /\ \A g \in Runs : Carries(Info, g)' => Carries(Info, g)
      BY <2>1, MessageKinds DEF Quiet, Carries, Info
    <3>2. \A c, i : /\ Buffered(Info, c, i)' <=> Buffered(Info, c, i)
                    /\ Written(Info, c, i)' <=> Written(Info, c, i)
      BY <3>1 DEF Buffered, Written
    <3>3. EnvInfos' \in SUBSET EnvInfos
      BY <1>1, <1>3, <3>1, <3>2 DEF EnvInfosIs
    <3>4. IsFiniteSet(EnvInfos') /\ Cardinality(EnvInfos') <= Cardinality(EnvInfos)
      BY <3>3, FS_Subset DEF Count
    <3> QED
      BY <1>1, <1>3, <3>4, Settled
  <2>2. ASSUME NEW r \in Results, Submit(r) PROVE Count'
    <3>1. Send(Result(r)) /\ UNCHANGED <<hb, sl, wire>>
      BY <2>2 DEF Submit
    <3>2. \A c \in Chans, i \in Nat : Buffered(Info, c, i)' => Buffered(Info, c, i)
      <4>1. Result(r) \in Messages /\ Info \in Messages /\ Result(r) # Info
        BY MessageKinds DEF Info
      <4> QED
        BY <1>1, <3>1, <4>1, SendPlaces
    <3>3. EnvInfos' \in SUBSET EnvInfos
      BY <1>1, <3>1, <3>2 DEF EnvInfosIs, Carries, Written
    <3>4. IsFiniteSet(EnvInfos') /\ Cardinality(EnvInfos') <= Cardinality(EnvInfos)
      BY <3>3, FS_Subset DEF Count
    <3> QED
      BY <1>1, <1>3, <3>4, Settled
  <2>3. ASSUME NEW g \in Runs, HbPush(g) \/ SlTake(g) \/ SlWritten(g) PROVE Count'
    <3>1. IsFiniteSet(EnvInfos') /\ Cardinality(EnvInfos') <= Cardinality(EnvInfos)
      BY <1>1, <2>3, PushKeeps, TakeKeeps, WriteKeeps
    <3> QED
      BY <1>1, <1>3, <3>1, Settled
  <2> QED
    BY <1>1, <2>1, <2>2, <2>3, QuietOrMoves
<1> QED
  BY <1>1, <1>2, <1>3, Accounts

\* There is at most one message with environment information for each connection
\* made so far, and one more once the flag has been reset for the next, however
\* the loops of earlier runs tick around the reset (EnvInfosBounded of module
\* WsClient; a connection of its own may get two of them).
THEOREM InfosAreBounded == Spec => []EnvInfosBounded
<1>1. Init => IInv /\ Count
  BY InitIInv, InitCount
<1>2. IInv /\ Count /\ [Next]_vars => (IInv /\ Count)'
  BY NextIInv, NextCount
<1>3. IInv /\ Count => EnvInfosBounded
  <2> SUFFICES ASSUME IInv, Count PROVE EnvInfosBounded
    OBVIOUS
  <2>1. Amounts /\ Cardinality(EnvInfos) \in Nat
    BY AmountsType, FS_CardinalityType DEF IInv, Count
  <2>2. Cardinality(EnvInfos) <= Allowance
    BY <2>1 DEF Count, Amounts
  <2> QED
    BY <2>2, Zenon DEF EnvInfosBounded, Allowance, Exits, IInv, TypeOK, RcStates
<1> QED
  BY <1>1, <1>2, <1>3, PTL DEF Spec

=============================================================================
