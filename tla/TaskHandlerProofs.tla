------------------------- MODULE TaskHandlerProofs -------------------------
(***************************************************************************)
(* Proofs about TaskHandler, for any messages, task ids and waiters.       *)
(***************************************************************************)
EXTENDS TaskHandler, FiniteSetTheorems, TLAPS

\* A cancel message that has looked its task up has found one.
Found == \A c \in Cancels : pc[c] = "looked" => target[c] \in Requests

\* OneResult, without counting: the results that answer request r.
ResultsOf(r) == {x \in results : x.of = r}
Results == \A r \in Requests :
  /\ pc[r] \notin Answered => ResultsOf(r) = {}
  /\ pc[r] \in Answered => \E b \in BOOLEAN : ResultsOf(r) = {TaskResult(r, b)}

InCount == {r \in Requests : pc[r] \in Counted}

IInv == TypeOK /\ Found /\ EntryIsLive /\ Tracked /\ Results /\ WgCounts
-----------------------------------------------------------------------------
LEMMA InitIInv == Init => IInv
<1> SUFFICES ASSUME Init PROVE IInv
  OBVIOUS
<1> USE DEF Init
<1>1. TypeOK
  <2>1. /\ pc \in [Messages -> PcStates]
        /\ wait \in [Waiters -> {"none", "waiting", "true", "false"}]
        /\ waitWg \in [Waiters -> {"none", "waiting", "released", "closed", "panic"}]
    BY DEF PcStates
  <2>2. /\ runningTask \in [TaskIds -> Requests \cup {NoRequest}]
        /\ target \in [Cancels -> Requests \cup {NoRequest}]
    OBVIOUS
  <2>3. results \subseteq [of : Messages, success : BOOLEAN]
    OBVIOUS
  <2>4. wg \in Int
    OBVIOUS
  <2>5. cancelled \subseteq Requests /\ ctxDone \in BOOLEAN
    OBVIOUS
  <2> HIDE DEF Init
  <2> QED
    BY <2>1, <2>2, <2>3, <2>4, <2>5 DEF TypeOK
<1>2. Found /\ EntryIsLive /\ Tracked
  BY DEF Found, EntryIsLive, Tracked, Registered, Messages
<1>3. Results
  BY DEF Results, ResultsOf, Answered, Messages
<1>4. WgCounts
  <2>1. {r \in Requests : pc[r] \in Counted} = {}
    BY DEF Counted, Messages
  <2> QED
    BY <2>1, FS_EmptySet DEF WgCounts
<1> QED
  BY <1>1, <1>2, <1>3, <1>4 DEF IInv

\* What a step of the goroutines of message m does to pc.
LEMMA GotoType ==
  ASSUME TypeOK, NEW m \in Messages, NEW from, NEW to \in PcStates,
         Goto(m, from, to)
  PROVE  /\ pc' \in [Messages -> PcStates]
         /\ pc[m] = from /\ pc'[m] = to
         /\ \A n \in Messages : n # m => pc'[n] = pc[n]
BY DEF TypeOK, Goto

\* A step that moves message m and touches neither a table nor a result.
LEMMA QuietStep ==
  ASSUME IInv, NEW m \in Messages, NEW from, NEW to \in PcStates,
         Goto(m, from, to),
         UNCHANGED <<runningTask, results, wg, target>>,
         to # "looked",
         m \in Requests => /\ from \in Registered <=> to \in Registered
                           /\ from \in Answered <=> to \in Answered
                           /\ from \in Counted <=> to \in Counted
                           /\ to \in NotRegistered => from \in NotRegistered
  PROVE  Found' /\ EntryIsLive' /\ Tracked' /\ Results' /\ WgCounts'
<1> USE DEF IInv
<1>0. /\ pc[m] = from /\ pc'[m] = to
      /\ \A n \in Messages : n # m => pc'[n] = pc[n]
      /\ Requests \subseteq Messages /\ Cancels \subseteq Messages
  BY GotoType DEF Messages
<1>1. \A r \in Requests : /\ pc'[r] \in Registered <=> pc[r] \in Registered
                          /\ pc'[r] \in Answered <=> pc[r] \in Answered
                          /\ pc'[r] \in Counted <=> pc[r] \in Counted
                          /\ pc'[r] \in NotRegistered => pc[r] \in NotRegistered
  BY <1>0
<1>2. Found'
  BY <1>0 DEF Found
<1>3. EntryIsLive'
  <2> SUFFICES ASSUME NEW t \in TaskIds, runningTask[t] # NoRequest
               PROVE  pc'[runningTask[t]] \in Registered /\ TaskOf[runningTask[t]] = t
    BY DEF EntryIsLive
  <2>1. runningTask[t] \in Requests
    BY DEF TypeOK
  <2> QED
    BY <1>1, <2>1 DEF EntryIsLive
<1>4. Tracked'
  BY <1>1 DEF Tracked
<1>5. Results'
  BY <1>1 DEF Results, ResultsOf
<1>6. WgCounts'
  <2>1. {r \in Requests : pc'[r] \in Counted} = {r \in Requests : pc[r] \in Counted}
    BY <1>1
  <2> QED
    BY <2>1 DEF WgCounts
<1> QED
  BY <1>2, <1>3, <1>4, <1>5, <1>6

\* A step that moves no message and touches no table.
LEMMA IdleStep ==
  ASSUME IInv, UNCHANGED <<pc, runningTask, results, wg, target>>
  PROVE  Found' /\ EntryIsLive' /\ Tracked' /\ Results' /\ WgCounts'
BY DEF IInv, Found, EntryIsLive, Tracked, Results, ResultsOf, WgCounts
-----------------------------------------------------------------------------
(* Type correctness.                                                       *)

LEMMA ResultType ==
  \A m \in Messages : \A b \in BOOLEAN : TaskResult(m, b) \in [of : Messages, success : BOOLEAN]
BY DEF TaskResult

LEMMA TypeNext ==
  ASSUME TypeOK, Found, [Next]_vars
  PROVE  TypeOK'
<1> USE TaskAssumption, MessagesAssumption
<1>0. Requests \subseteq Messages /\ Cancels \subseteq Messages /\ Calls \subseteq Messages
  BY DEF Messages
<1>1. ASSUME NEW m \in Messages, Receive(m) PROVE TypeOK'
  <2>1. pc' \in [Messages -> PcStates]
    BY <1>1, GotoType DEF Receive, PcStates
  <2> QED
    BY <1>1, <2>1 DEF Receive, TypeOK
<1>2. ASSUME NEW r \in Requests, Task(r) \/ Finish(r) PROVE TypeOK'
  <2>1. pc' \in [Messages -> PcStates]
    BY <1>0, <1>2 DEF Task, Finish, Register, Reject, StartTask, SendResult,
                      Unregister, TaskDone, Goto, PcStates, TypeOK
  <2>2. runningTask' \in [TaskIds -> Requests \cup {NoRequest}]
    BY <1>2 DEF Task, Finish, Register, Reject, StartTask, SendResult,
                Unregister, TaskDone, TypeOK
  <2>3. wg' \in Int
    <3>1. wg \in Int /\ (wg' = wg \/ wg' = wg + 1 \/ wg' = wg - 1)
      BY <1>2 DEF Task, Finish, Register, Reject, StartTask, SendResult,
                  Unregister, TaskDone, TypeOK
    <3> QED
      BY <3>1
  <2>4. results' \subseteq [of : Messages, success : BOOLEAN]
    <3>1. results' = results \/ \E b \in BOOLEAN : results' = results \cup {TaskResult(r, b)}
      BY <1>2 DEF Task, Finish, Register, Reject, StartTask, SendResult,
                  Unregister, TaskDone
    <3> QED
      BY <1>0, <3>1, ResultType DEF TypeOK
  <2>5. waitWg' \in [Waiters -> {"none", "waiting", "released", "closed", "panic"}]
    BY <1>2 DEF Task, Finish, Register, Reject, StartTask, SendResult,
                Unregister, TaskDone, TypeOK
  <2>6. UNCHANGED <<cancelled, ctxDone, target, wait>>
    BY <1>2 DEF Task, Finish, Register, Reject, StartTask, SendResult,
                Unregister, TaskDone
  <2> QED
    BY <2>1, <2>2, <2>3, <2>4, <2>5, <2>6 DEF TypeOK
<1>3. ASSUME NEW c \in Cancels, Cancel(c) PROVE TypeOK'
  <2>1. pc' \in [Messages -> PcStates]
    BY <1>0, <1>3 DEF Cancel, LookUp, CallCancel, Reject, Goto, PcStates, TypeOK
  <2>2. target' \in [Cancels -> Requests \cup {NoRequest}]
    BY <1>3 DEF Cancel, LookUp, CallCancel, Reject, TypeOK
  <2>3. cancelled' \subseteq Requests
    BY <1>3 DEF Cancel, LookUp, CallCancel, Reject, TypeOK, Found, Goto
  <2> QED
    BY <1>3, <2>1, <2>2, <2>3 DEF Cancel, LookUp, CallCancel, Reject, TypeOK
<1>4. ASSUME NEW m \in Calls, Call(m) \/ Finish(m) PROVE TypeOK'
  <2>1. pc' \in [Messages -> PcStates]
    BY <1>0, <1>4 DEF Call, Finish, StartCall, SendCallResult, Reject, Goto, PcStates, TypeOK
  <2>2. results' \subseteq [of : Messages, success : BOOLEAN]
    <3>1. results' = results \/ \E b \in BOOLEAN : results' = results \cup {TaskResult(m, b)}
      BY <1>4 DEF Call, Finish, StartCall, SendCallResult, Reject
    <3> QED
      BY <1>0, <3>1, ResultType DEF TypeOK
  <2> QED
    BY <1>4, <2>1, <2>2 DEF Call, Finish, StartCall, SendCallResult, Reject, TypeOK
<1>5. ASSUME NEW w \in Waiters, WaitForTasks(w) \/ Waiter(w) PROVE TypeOK'
  <2> USE DEF Waiter
  <2>1. wait' \in [Waiters -> {"none", "waiting", "true", "false"}]
    BY <1>5 DEF WaitForTasks, WaitBegins, WaitReturns, AllCompleted, TimedOut, TypeOK
  <2>2. waitWg' \in [Waiters -> {"none", "waiting", "released", "closed", "panic"}]
    BY <1>5 DEF WaitForTasks, WaitBegins, WaitReturns, AllCompleted, TimedOut, TypeOK
  <2>3. UNCHANGED <<pc, runningTask, cancelled, ctxDone, target, wg, results>>
    BY <1>5 DEF WaitForTasks, WaitBegins, WaitReturns, AllCompleted, TimedOut
  <2> QED
    BY <2>1, <2>2, <2>3 DEF TypeOK
<1>6. CASE CancelCtx \/ CancelAllTasks \/ UNCHANGED vars
  <2>1. cancelled' \subseteq Requests
    BY <1>6 DEF CancelCtx, CancelAllTasks, vars, TypeOK
  <2>2. ctxDone' \in BOOLEAN
    BY <1>6 DEF CancelCtx, CancelAllTasks, vars, TypeOK
  <2> QED
    BY <1>6, <2>1, <2>2 DEF CancelCtx, CancelAllTasks, vars, TypeOK
<1> QED
  BY <1>1, <1>2, <1>3, <1>4, <1>5, <1>6 DEF Next, Ended
-----------------------------------------------------------------------------
(* The counter of taskWg.                                                  *)

\* Counting one request more, or one less.
LEMMA CountChange ==
  ASSUME IInv, NEW r \in Requests,
         \A n \in Requests : n # r => pc'[n] = pc[n]
  PROVE  /\ pc[r] \notin Counted /\ pc'[r] \in Counted /\ wg' = wg + 1 => WgCounts'
         /\ pc[r] \in Counted /\ pc'[r] \notin Counted /\ wg' = wg - 1 => WgCounts'
<1> DEFINE S == {n \in Requests : pc[n] \in Counted}
           T == {n \in Requests : pc'[n] \in Counted}
<1>1. IsFiniteSet(S)
  BY FS_Subset, MessagesAssumption
<1>2. wg = Cardinality(S)
  BY DEF IInv, WgCounts
<1>3. ASSUME pc[r] \notin Counted, pc'[r] \in Counted, wg' = wg + 1
      PROVE  WgCounts'
  <2>1. T = S \cup {r} /\ r \notin S
    BY <1>3
  <2>2. Cardinality(T) = Cardinality(S) + 1
    BY <1>1, <2>1, FS_AddElement
  <2> QED
    BY <1>2, <1>3, <2>2 DEF WgCounts
<1>4. ASSUME pc[r] \in Counted, pc'[r] \notin Counted, wg' = wg - 1
      PROVE  WgCounts'
  <2>1. T = S \ {r} /\ r \in S
    BY <1>4
  <2>2. Cardinality(T) = Cardinality(S) - 1
    BY <1>1, <2>1, FS_RemoveElement
  <2> QED
    BY <1>2, <1>4, <2>2 DEF WgCounts
<1> QED
  BY <1>3, <1>4
-----------------------------------------------------------------------------
(* Every step preserves the invariant.                                     *)

LEMMA RequestNext ==
  ASSUME IInv, NEW r \in Requests, Task(r) \/ Finish(r)
  PROVE  Found' /\ EntryIsLive' /\ Tracked' /\ Results' /\ WgCounts'
<1> USE MessagesAssumption, TaskAssumption
<1>0. r \in Messages /\ r \notin Cancels /\ Requests \subseteq Messages /\ r # NoRequest
      /\ Cancels \subseteq Messages
  BY DEF Messages
<1>1. CASE Reject(r) \/ Finish(r)
  <2>1. \E from \in {"arrived", "running"} : \E to \in {"rejected", "ok", "error"} :
          /\ Goto(r, from, to)
          /\ from = "arrived" <=> to = "rejected"
    BY <1>1 DEF Reject, Finish
  <2> QED
    BY <1>0, <1>1, <2>1, QuietStep
       DEF Reject, Finish, PcStates, Registered, Answered, Counted, NotRegistered
<1>2. CASE Register(r)
  <2>0. /\ pc[r] = "arrived" /\ pc'[r] = "registered"
        /\ \A n \in Messages : n # r => pc'[n] = pc[n]
    BY <1>0, <1>2, GotoType DEF Register, IInv, PcStates
  <2>1. Found'
    BY <1>0, <1>2, <2>0 DEF Register, IInv, Found
  <2>2. EntryIsLive'
    <3>1. \A t \in TaskIds : t # TaskOf[r] => runningTask'[t] = runningTask[t]
      BY <1>2 DEF Register, IInv, TypeOK
    <3>2. runningTask'[TaskOf[r]] = r
      BY <1>2 DEF Register, IInv, TypeOK
    <3>3. \A t \in TaskIds : runningTask[t] \in Requests \cup {NoRequest}
      BY DEF IInv, TypeOK
    <3> QED
      BY <1>0, <2>0, <3>1, <3>2, <3>3 DEF IInv, EntryIsLive, Registered
  <2>3. Tracked'
    BY <1>0, <1>2, <2>0 DEF Register, IInv, TypeOK, Tracked, NotRegistered
  <2>4. Results'
    BY <1>0, <1>2, <2>0 DEF Register, IInv, Results, ResultsOf, Answered
  <2>5. WgCounts'
    <3>1. InCount' = InCount
      BY <1>0, <2>0 DEF InCount, Counted
    <3> QED
      BY <1>2, <3>1 DEF Register, IInv, WgCounts, InCount
  <2> QED
    BY <2>1, <2>2, <2>3, <2>4, <2>5
<1>3. CASE StartTask(r)
  <2>0. /\ pc[r] = "registered" /\ pc'[r] = "running"
        /\ \A n \in Messages : n # r => pc'[n] = pc[n]
    BY <1>0, <1>3, GotoType DEF StartTask, IInv, PcStates
  <2>1. Found' /\ Results'
    BY <1>0, <1>3, <2>0 DEF StartTask, IInv, Found, Results, ResultsOf, Answered
  <2>2. EntryIsLive'
    BY <1>0, <1>3, <2>0 DEF StartTask, IInv, EntryIsLive, TypeOK, Registered
  <2>3. Tracked'
    BY <1>0, <1>3, <2>0 DEF StartTask, IInv, Tracked, Registered, NotRegistered
  <2>4. WgCounts'
    BY <1>0, <1>3, <2>0, CountChange DEF StartTask, Counted
  <2> QED
    BY <2>1, <2>2, <2>3, <2>4
<1>4. CASE SendResult(r)
  <2>0. /\ pc[r] \in {"ok", "error"} /\ pc'[r] = "sent"
        /\ \A n \in Messages : n # r => pc'[n] = pc[n]
    BY <1>0, <1>4, GotoType DEF SendResult, IInv, PcStates
  <2>1. PICK b \in BOOLEAN : results' = results \cup {TaskResult(r, b)}
    BY <1>4 DEF SendResult
  <2>2. Found'
    BY <1>0, <1>4, <2>0 DEF SendResult, IInv, Found
  <2>3. EntryIsLive'
    BY <1>0, <1>4, <2>0 DEF SendResult, IInv, EntryIsLive, TypeOK, Registered
  <2>4. Tracked'
    BY <1>0, <1>4, <2>0 DEF SendResult, IInv, Tracked, Registered, NotRegistered
  <2>5. Results'
    <3>1. ResultsOf(r) = {}
      BY <2>0 DEF IInv, Results, Answered
    <3>2. ResultsOf(r)' = {TaskResult(r, b)}
      BY <2>1, <3>1 DEF ResultsOf, TaskResult
    <3>3. \A q \in Requests : q # r => ResultsOf(q)' = ResultsOf(q)
      BY <2>1 DEF ResultsOf, TaskResult
    <3> QED
      BY <1>0, <2>0, <3>2, <3>3 DEF IInv, Results, Answered
  <2>6. WgCounts'
    <3>1. InCount' = InCount
      BY <1>0, <2>0 DEF InCount, Counted
    <3> QED
      BY <1>4, <3>1 DEF SendResult, IInv, WgCounts, InCount
  <2> QED
    BY <2>2, <2>3, <2>4, <2>5, <2>6
<1>5. CASE Unregister(r)
  <2>0. /\ pc[r] = "sent" /\ pc'[r] = "unregistered"
        /\ \A n \in Messages : n # r => pc'[n] = pc[n]
    BY <1>0, <1>5, GotoType DEF Unregister, IInv, PcStates
  <2>1. Found' /\ Results'
    BY <1>0, <1>5, <2>0 DEF Unregister, IInv, Found, Results, ResultsOf, Answered
  <2>2. /\ \A t \in TaskIds : t # TaskOf[r] => runningTask'[t] = runningTask[t]
        /\ runningTask'[TaskOf[r]] = NoRequest
    BY <1>5 DEF Unregister, IInv, TypeOK
  <2>3. EntryIsLive'
    \* An entry that is left is under another task id, hence not that of r.
    <3>1. \A t \in TaskIds : runningTask[t] \in Requests \cup {NoRequest}
      BY DEF IInv, TypeOK
    <3>2. \A t \in TaskIds : t # TaskOf[r] => runningTask[t] # r
      BY <1>0 DEF IInv, EntryIsLive
    <3> QED
      BY <1>0, <2>0, <2>2, <3>1, <3>2 DEF IInv, EntryIsLive
  <2>4. Tracked'
    BY <1>0, <2>0, <2>2 DEF IInv, Tracked, Registered, NotRegistered
  <2>5. WgCounts'
    <3>1. InCount' = InCount
      BY <1>0, <2>0 DEF InCount, Counted
    <3> QED
      BY <1>5, <3>1 DEF Unregister, IInv, WgCounts, InCount
  <2> QED
    BY <2>1, <2>3, <2>4, <2>5
<1>6. CASE TaskDone(r)
  <2>0. /\ pc[r] = "unregistered" /\ pc'[r] = "done"
        /\ \A n \in Messages : n # r => pc'[n] = pc[n]
    BY <1>0, <1>6, GotoType DEF TaskDone, IInv, PcStates
  <2>1. Found' /\ Results'
    BY <1>0, <1>6, <2>0 DEF TaskDone, IInv, Found, Results, ResultsOf, Answered
  <2>2. EntryIsLive'
    BY <1>0, <1>6, <2>0 DEF TaskDone, IInv, EntryIsLive, TypeOK, Registered
  <2>3. Tracked'
    BY <1>0, <1>6, <2>0 DEF TaskDone, IInv, Tracked, Registered, NotRegistered
  <2>4. WgCounts'
    BY <1>0, <1>6, <2>0, CountChange DEF TaskDone, Counted
  <2> QED
    BY <2>1, <2>2, <2>3, <2>4
<1> QED
  BY <1>1, <1>2, <1>3, <1>4, <1>5, <1>6 DEF Task

LEMMA OtherNext ==
  ASSUME IInv,
         \/ \E m \in Messages : Receive(m)
         \/ \E c \in Cancels : Cancel(c)
         \/ \E m \in Calls : Call(m) \/ Finish(m)
         \/ \E w \in Waiters : WaitForTasks(w) \/ Waiter(w)
         \/ CancelCtx \/ CancelAllTasks \/ UNCHANGED vars
  PROVE  Found' /\ EntryIsLive' /\ Tracked' /\ Results' /\ WgCounts'
<1> USE MessagesAssumption
<1>0. Requests \subseteq Messages /\ Cancels \subseteq Messages /\ Calls \subseteq Messages
  BY DEF Messages
<1>1. ASSUME NEW m \in Messages, Receive(m)
      PROVE  Found' /\ EntryIsLive' /\ Tracked' /\ Results' /\ WgCounts'
  BY <1>1, QuietStep DEF Receive, PcStates, Registered, Answered, Counted, NotRegistered
<1>2. ASSUME NEW c \in Cancels, Cancel(c)
      PROVE  Found' /\ EntryIsLive' /\ Tracked' /\ Results' /\ WgCounts'
  <2>1. CASE CallCancel(c) \/ Reject(c)
    <3>1. \E from \in {"arrived", "looked"} : \E to \in {"rejected", "done"} : Goto(c, from, to)
      BY <2>1 DEF CallCancel, Reject
    <3>2. UNCHANGED <<runningTask, results, wg, target>>
      BY <2>1 DEF CallCancel, Reject
    <3> QED
      BY <1>0, <3>1, <3>2, QuietStep DEF PcStates
  <2>2. CASE LookUp(c)
    <3> DEFINE found == runningTask[TaskOf[c]]
    <3>0. found \in Requests \cup {NoRequest}
      BY TaskAssumption DEF IInv, TypeOK
    <3>1. /\ pc'[c] = IF found = NoRequest THEN "done" ELSE "looked"
          /\ \A n \in Messages : n # c => pc'[n] = pc[n]
      BY <1>0, <2>2, GotoType DEF LookUp, IInv, PcStates
    <3>2. target'[c] = found /\ \A d \in Cancels : d # c => target'[d] = target[d]
      BY <2>2 DEF LookUp, IInv, TypeOK
    <3>3. Found'
      BY <1>0, <3>0, <3>1, <3>2 DEF IInv, Found
    <3>4. \A r \in Requests : pc'[r] = pc[r]
      BY <1>0, <3>1
    <3>5. EntryIsLive' /\ Tracked' /\ Results'
      BY <2>2, <3>4 DEF LookUp, IInv, TypeOK, EntryIsLive, Tracked, Results, ResultsOf
    <3>6. InCount' = InCount
      BY <3>4 DEF InCount
    <3>7. WgCounts'
      BY <2>2, <3>6 DEF LookUp, IInv, WgCounts, InCount
    <3> QED
      BY <3>3, <3>5, <3>7
  <2> QED
    BY <1>2, <2>1, <2>2 DEF Cancel
<1>3. ASSUME NEW m \in Calls, Call(m) \/ Finish(m)
      PROVE  Found' /\ EntryIsLive' /\ Tracked' /\ Results' /\ WgCounts'
  <2>1. CASE StartCall(m) \/ Reject(m) \/ Finish(m)
    <3>1. \E from \in {"arrived", "running"} :
            \E to \in {"running", "rejected", "ok", "error"} : Goto(m, from, to)
      BY <2>1 DEF StartCall, Reject, Finish
    <3>2. UNCHANGED <<runningTask, results, wg, target>>
      BY <2>1 DEF StartCall, Reject, Finish
    <3> QED
      BY <1>0, <3>1, <3>2, QuietStep DEF PcStates
  <2>2. CASE SendCallResult(m)
    <3>1. PICK b \in BOOLEAN : results' = results \cup {TaskResult(m, b)}
      BY <2>2 DEF SendCallResult
    <3>2. pc'[m] = "done" /\ \A n \in Messages : n # m => pc'[n] = pc[n]
      BY <1>0, <2>2, GotoType DEF SendCallResult, IInv, PcStates
    <3>3. \A r \in Requests : pc'[r] = pc[r] /\ ResultsOf(r)' = ResultsOf(r)
      BY <1>0, <3>1, <3>2 DEF ResultsOf, TaskResult
    <3>4. Found' /\ EntryIsLive' /\ Tracked' /\ Results'
      BY <1>0, <2>2, <3>2, <3>3
         DEF SendCallResult, IInv, TypeOK, Found, EntryIsLive, Tracked, Results
    <3>5. InCount' = InCount
      BY <3>3 DEF InCount
    <3>6. WgCounts'
      BY <2>2, <3>5 DEF SendCallResult, IInv, WgCounts, InCount
    <3> QED
      BY <3>4, <3>6
  <2> QED
    BY <1>3, <2>1, <2>2 DEF Call
<1>4. CASE \/ \E w \in Waiters : WaitForTasks(w) \/ Waiter(w)
           \/ CancelCtx \/ CancelAllTasks \/ UNCHANGED vars
  <2>1. UNCHANGED <<pc, runningTask, results, wg, target>>
    BY <1>4 DEF WaitForTasks, Waiter, WaitBegins, WaitReturns, AllCompleted,
                TimedOut, CancelCtx, CancelAllTasks, vars
  <2> QED
    BY <2>1, IdleStep
<1> QED
  BY <1>1, <1>2, <1>3, <1>4

LEMMA NextIInv == IInv /\ [Next]_vars => IInv'
<1> SUFFICES ASSUME IInv, [Next]_vars PROVE IInv'
  OBVIOUS
<1>1. TypeOK'
  BY TypeNext DEF IInv
<1>2. Found' /\ EntryIsLive' /\ Tracked' /\ Results' /\ WgCounts'
  BY RequestNext, OtherNext DEF Next, Ended
<1> QED
  BY <1>1, <1>2 DEF IInv

LEMMA InvIInv == Spec => []IInv
<1>1. Init => IInv
  BY InitIInv
<1>2. IInv /\ [Next]_vars => IInv'
  BY NextIInv
<1> QED
  BY <1>1, <1>2, PTL DEF Spec
-----------------------------------------------------------------------------
(* The theorems.                                                           *)

\* The variables keep their types: a cancel message only ever calls a cancel
\* function that a request has stored.
THEOREM TypeCorrect == Spec => []TypeOK
<1>1. IInv => TypeOK
  BY DEF IInv
<1> QED
  BY <1>1, InvIInv, PTL

\* No entry of runningTask outlives its task, also when requests share ids.
THEOREM EntriesAreLive == Spec => []EntryIsLive
<1>1. IInv => EntryIsLive
  BY DEF IInv
<1> QED
  BY <1>1, InvIInv, PTL

\* A task with an id of its own can be cancelled until its result is sent.
THEOREM TasksAreTracked == Spec => []Tracked
<1>1. IInv => Tracked
  BY DEF IInv
<1> QED
  BY <1>1, InvIInv, PTL

\* Every request that is executed is answered once, and no other one is.
THEOREM AnsweredOnce == Spec => []OneResult
<1>1. ASSUME IInv PROVE OneResult
  <2> SUFFICES ASSUME NEW r \in Requests
               PROVE  Cardinality(ResultsOf(r)) = IF pc[r] \in Answered THEN 1 ELSE 0
    BY DEF OneResult, ResultsOf
  <2>1. CASE pc[r] \in Answered
    <3>1. PICK b \in BOOLEAN : ResultsOf(r) = {TaskResult(r, b)}
      BY <1>1, <2>1 DEF IInv, Results
    <3> QED
      BY <2>1, <3>1, FS_Singleton
  <2>2. CASE pc[r] \notin Answered
    BY <1>1, <2>2, FS_EmptySet DEF IInv, Results
  <2> QED
    BY <2>1, <2>2
<1> QED
  BY <1>1, InvIInv, PTL

\* taskWg.Wait returns only when no task is between Add and Done.
THEOREM WaitIsExact == Spec => WaitSeesIdle
<1> DEFINE A == \A w \in Waiters : waitWg[w] # "closed" /\ waitWg'[w] = "closed"
                  => \A r \in Requests : pc[r] \notin Counted
<1>1. ASSUME IInv, [Next]_vars PROVE [A]_vars
  <2> SUFFICES ASSUME NEW w \in Waiters, waitWg[w] # "closed", waitWg'[w] = "closed"
               PROVE  \A r \in Requests : pc[r] \notin Counted
    OBVIOUS
  <2>1. wg = 0
    <3>1. ASSUME NEW x \in Waiters, WaitForTasks(x) \/ Waiter(x) PROVE wg = 0
      <4>1. /\ waitWg \in [Waiters -> {"none", "waiting", "released", "closed", "panic"}]
            /\ waitWg' # waitWg
        BY <1>1 DEF IInv, TypeOK
      <4>2. WaitBegins(x) \/ WaitReturns(x)
        BY <3>1, <4>1 DEF WaitForTasks, Waiter, AllCompleted, TimedOut
      <4> QED
        BY <4>1, <4>2 DEF WaitBegins, WaitReturns
    <3>2. CASE \E r \in Requests : TaskDone(r)
      BY <3>2 DEF TaskDone
    <3>3. CASE waitWg' = waitWg
      BY <3>3
    <3>4. \/ \E x \in Waiters : WaitForTasks(x) \/ Waiter(x)
          \/ \E r \in Requests : TaskDone(r)
          \/ waitWg' = waitWg
      BY <1>1 DEF Next, Receive, Task, Finish, Register, Reject, StartTask, SendResult,
                  Unregister, Cancel, LookUp, CallCancel, Call, StartCall,
                  SendCallResult, CancelCtx, CancelAllTasks, Ended, vars
    <3> QED
      BY <3>1, <3>2, <3>3, <3>4
  <2>2. IsFiniteSet(InCount) /\ Cardinality(InCount) = 0
    BY <1>1, <2>1, FS_Subset, MessagesAssumption DEF InCount, IInv, WgCounts
  <2> QED
    BY <2>2, FS_EmptySet DEF InCount
<1> QED
  BY <1>1, InvIInv, PTL DEF Spec, WaitSeesIdle

=============================================================================
