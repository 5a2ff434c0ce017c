-------------------------- MODULE McpManagerProofs --------------------------
(***************************************************************************)
(* Proofs about McpManager, for any calls and servers.                     *)
(*                                                                         *)
(* The argument is about the session being connected: the mutex is held    *)
(* for it from the lookup to the insertion, so nobody knows it, and the    *)
(* place it will take in the cache stays free.                             *)
(***************************************************************************)
EXTENDS McpManager, TLAPS

\* The session that call c is connecting, under the mutex.
Connecting == \A c \in Calls : pc[c] = "connect" =>
  /\ mu = c /\ sess[c] \in Ids /\ sess[c] \notin dropped
  /\ sessions[ServerOf[c]] = 0
  /\ \A n \in Servers : sessions[n] # sess[c]

\* Session numbers are given out once, and a session is cached under one name.
Numbered ==
  /\ \A n \in Servers : sessions[n] <= made
  /\ \A c \in Calls : sess[c] <= made
  /\ dropped \subseteq 1..made
  /\ \A n, o \in Servers : sessions[n] = sessions[o] /\ sessions[n] # 0 => n = o

IInv == /\ TypeOK /\ Connecting /\ Numbered
        /\ LeakedOnlyByInvalidation /\ DroppedStaysOut

-----------------------------------------------------------------------------
LEMMA CacheMissStep ==
  ASSUME IInv, NEW c \in Calls, CacheMiss(c)
  PROVE  IInv'
<1> USE BoundAssumption, CallsAssumption DEF IInv
<1>0. /\ made \in Nat /\ made' = made + 1 /\ made + 1 \in Ids /\ MaxSessions \in Nat
      /\ mu = NoCall /\ mu' = c /\ c # NoCall
      /\ UNCHANGED <<sessions, dropped, cancelled>>
  BY DEF CacheMiss, TypeOK, Ids
<1>1. /\ pc[c] = "get" /\ pc'[c] = "connect"
      /\ \A d \in Calls : d # c => pc'[d] = pc[d] /\ sess'[d] = sess[d]
      /\ sess'[c] = made + 1
  BY DEF CacheMiss, Goto, TypeOK
<1>2. \A d \in Calls : d # c => pc[d] # "connect"
  BY <1>0 DEF Connecting
<1>3. \A n \in Servers : sessions[n] \in Nat /\ sessions[n] # made + 1
  BY <1>0 DEF Numbered, TypeOK
<1>4. TypeOK'
  <2>1. pc' \in [Calls -> PcStates]
    BY DEF CacheMiss, Goto, TypeOK, PcStates
  <2>2. sess' \in [Calls -> 0..MaxSessions]
    BY <1>0 DEF CacheMiss, TypeOK, Ids
  <2>3. state' \in [Ids -> {"none", "connecting", "live", "broken", "closed"}]
    BY DEF CacheMiss, TypeOK
  <2>4. made' \in 0..MaxSessions
    BY <1>0 DEF Ids
  <2> QED
    BY <1>0, <1>1, <2>1, <2>2, <2>3, <2>4 DEF TypeOK
<1>5. Connecting'
  <2>1. sessions[ServerOf[c]] = 0 /\ made + 1 \notin dropped
    BY <1>0 DEF CacheMiss, Numbered
  <2> QED
    BY <1>0, <1>1, <1>2, <1>3, <2>1 DEF Connecting
<1>6. Numbered'
  <2>1. \A n \in Servers : sessions[n] \in Nat /\ sessions[n] <= made
    BY <1>3 DEF Numbered
  <2>2. \A n \in Servers : sessions[n] <= made + 1
    BY <1>0, <2>1
  <2>3. 1..made \subseteq 1..(made + 1)
    BY <1>0
  <2>4. \A d \in Calls : sess'[d] <= made + 1
    <3>1. \A d \in Calls : sess[d] \in Nat /\ sess[d] <= made
      BY <1>0 DEF Numbered, TypeOK
    <3> QED
      BY <1>0, <1>1, <3>1
  <2> QED
    BY <1>0, <2>2, <2>3, <2>4 DEF Numbered
<1>7. LeakedOnlyByInvalidation'
  <2>1. \A s \in Ids : state'[s] = "live" => state[s] = "live"
    BY DEF CacheMiss, TypeOK
  <2> QED
    BY <1>0, <2>1 DEF LeakedOnlyByInvalidation
<1>8. DroppedStaysOut'
  BY <1>0 DEF DroppedStaysOut
<1> QED
  BY <1>4, <1>5, <1>6, <1>7, <1>8

LEMMA ConnectStep ==
  ASSUME IInv, NEW c \in Calls, Connect(c)
  PROVE  IInv'
<1> USE BoundAssumption, CallsAssumption DEF IInv
<1>0. /\ pc[c] = "connect" /\ mu = c /\ mu' = NoCall
      /\ sess[c] \in Ids /\ sess[c] \notin dropped /\ sessions[ServerOf[c]] = 0
      /\ UNCHANGED <<made, dropped, cancelled>>
  BY DEF Connect, ConnectOk, ConnectFail, Goto, Connecting
<1>1. /\ pc'[c] \in {"call", "error"}
      /\ \A d \in Calls : d # c => pc'[d] = pc[d]
  BY DEF Connect, ConnectOk, ConnectFail, Goto, TypeOK
<1>2. Connecting'
  BY <1>0, <1>1 DEF Connecting
<1>3. CASE ConnectOk(c)
  <2>0. /\ sessions'[ServerOf[c]] = sess[c]
        /\ \A n \in Servers : n # ServerOf[c] => sessions'[n] = sessions[n]
        /\ \A s \in Ids : s # sess[c] => state'[s] = state[s]
    BY <1>3 DEF ConnectOk, TypeOK
  <2>1. TypeOK'
    <3>1. pc' \in [Calls -> PcStates]
      BY <1>3 DEF ConnectOk, Goto, TypeOK, PcStates
    <3>2. sessions' \in [Servers -> 0..MaxSessions]
      BY <1>3 DEF ConnectOk, TypeOK
    <3>3. state' \in [Ids -> {"none", "connecting", "live", "broken", "closed"}]
      BY <1>3 DEF ConnectOk, TypeOK
    <3>4. sess' = sess
      BY <1>3 DEF ConnectOk
    <3> QED
      BY <1>0, <3>1, <3>2, <3>3, <3>4 DEF TypeOK
  <2>2. DroppedStaysOut'
    BY <1>0, <2>0 DEF DroppedStaysOut
  <2>3. LeakedOnlyByInvalidation'
    \* The entry that is overwritten was empty, so no session is pushed out.
    <3>1. \A s \in Ids : s # 0
      BY DEF Ids
    <3> QED
      BY <1>0, <2>0, <3>1 DEF LeakedOnlyByInvalidation
  <2>4. Numbered'
    <3>1. sess' = sess /\ sess[c] <= made /\ \A n \in Servers : sessions[n] # sess[c]
      BY <1>0, <1>3 DEF ConnectOk, Numbered, Connecting
    <3>2. \A n \in Servers : sessions'[n] <= made
      BY <2>0, <3>1 DEF Numbered
    <3>3. \A n, o \in Servers : sessions'[n] = sessions'[o] /\ sessions'[n] # 0 => n = o
      BY <2>0, <3>1 DEF Numbered
    <3> QED
      BY <1>0, <3>1, <3>2, <3>3 DEF Numbered
  <2> QED
    BY <1>2, <2>1, <2>2, <2>3, <2>4
<1>4. CASE ConnectFail(c)
  <2>0. sessions' = sessions
    BY <1>4 DEF ConnectFail
  <2>1. TypeOK'
    <3>1. pc' \in [Calls -> PcStates]
      BY <1>4 DEF ConnectFail, Goto, TypeOK, PcStates
    <3>2. sess' \in [Calls -> 0..MaxSessions]
      BY <1>4 DEF ConnectFail, TypeOK
    <3>3. state' \in [Ids -> {"none", "connecting", "live", "broken", "closed"}]
      BY <1>4 DEF ConnectFail, TypeOK
    <3> QED
      BY <1>0, <2>0, <3>1, <3>2, <3>3 DEF TypeOK
  <2>2. Numbered' /\ DroppedStaysOut'
    <3>1. made \in Nat /\ \A d \in Calls : sess'[d] = 0 \/ sess'[d] = sess[d]
      BY <1>4 DEF ConnectFail, TypeOK
    <3> QED
      BY <1>0, <2>0, <3>1 DEF Numbered, DroppedStaysOut
  <2>3. LeakedOnlyByInvalidation'
    BY <1>0, <1>4, <2>0 DEF ConnectFail, LeakedOnlyByInvalidation, TypeOK
  <2> QED
    BY <1>2, <2>1, <2>2, <2>3
<1> QED
  BY <1>3, <1>4 DEF Connect

LEMMA InvalidateStep ==
  ASSUME IInv, NEW c \in Calls, Invalidate(c)
  PROVE  IInv'
<1> USE BoundAssumption, CallsAssumption DEF IInv
<1> DEFINE n == ServerOf[c]
<1>0. /\ mu = NoCall /\ n \in Servers
      /\ sessions'[n] = 0
      /\ \A o \in Servers : o # n => sessions'[o] = sessions[o]
      /\ dropped' = IF sessions[n] = 0 THEN dropped ELSE dropped \cup {sessions[n]}
      /\ UNCHANGED <<mu, sess, made, state, cancelled>>
  BY DEF Invalidate, TypeOK
<1>1. \A d \in Calls : pc[d] # "connect" /\ pc'[d] # "connect"
  BY <1>0 DEF Connecting, Invalidate, Goto, TypeOK
<1>2. \A o \in Servers : sessions[o] \in 0..MaxSessions
  BY DEF TypeOK
<1>3. TypeOK'
  <2>1. pc' \in [Calls -> PcStates]
    BY DEF Invalidate, Goto, TypeOK, PcStates
  <2>2. sessions' \in [Servers -> 0..MaxSessions]
    BY DEF Invalidate, TypeOK
  <2>3. dropped' \subseteq Ids
    <3>1. sessions[n] # 0 => sessions[n] \in Ids
      BY <1>0, <1>2 DEF Ids
    <3> QED
      BY <1>0, <3>1 DEF TypeOK
  <2> QED
    BY <1>0, <2>1, <2>2, <2>3 DEF TypeOK
<1>4. Connecting'
  BY <1>1 DEF Connecting
<1>5. Numbered'
  <2>1. made \in Nat /\ \A o \in Servers : sessions'[o] <= made
    BY <1>0 DEF Numbered, TypeOK
  <2>2. dropped' \subseteq 1..made
    <3>1. sessions[n] # 0 => sessions[n] \in 1..made
      BY <1>0, <1>2, <2>1 DEF Numbered
    <3> HIDE DEF n
    <3> QED
      BY <1>0, <3>1 DEF Numbered
  <2> QED
    BY <1>0, <2>1, <2>2 DEF Numbered
<1>6. LeakedOnlyByInvalidation'
  <2>1. \A s \in Ids : s # 0
    BY DEF Ids
  <2> QED
    BY <1>0, <2>1 DEF LeakedOnlyByInvalidation
<1>7. DroppedStaysOut'
  <2>1. 0 \notin dropped'
    BY <1>0, <1>2 DEF TypeOK, Ids
  <2>2. \A o \in Servers : o # n => sessions[o] \notin dropped'
    BY <1>0, <2>1 DEF DroppedStaysOut, Numbered
  <2> QED
    BY <1>0, <2>1, <2>2 DEF DroppedStaysOut
<1> QED
  BY <1>3, <1>4, <1>5, <1>6, <1>7

LEMMA CloseStep ==
  ASSUME IInv, CloseAll
  PROVE  IInv'
<1> USE BoundAssumption, CallsAssumption DEF IInv
<1>0. /\ \A n \in Servers : sessions'[n] = 0
      /\ UNCHANGED <<pc, mu, sess, made, dropped, cancelled>>
  BY DEF CloseAll
<1>1. TypeOK'
  <2>1. sessions' \in [Servers -> 0..MaxSessions]
    BY DEF CloseAll
  <2>2. state' \in [Ids -> {"none", "connecting", "live", "broken", "closed"}]
    BY DEF CloseAll, TypeOK
  <2> QED
    BY <1>0, <2>1, <2>2 DEF TypeOK
<1>2. Connecting'
  BY DEF CloseAll, Connecting
<1>3. Numbered' /\ DroppedStaysOut'
  BY <1>0 DEF Numbered, DroppedStaysOut, TypeOK, Ids
<1>4. LeakedOnlyByInvalidation'
  BY <1>0 DEF CloseAll, LeakedOnlyByInvalidation, TypeOK
<1> QED
  BY <1>1, <1>2, <1>3, <1>4

\* The steps that leave the mutex, the cache and what was dropped alone.
LEMMA QuietStep ==
  ASSUME IInv,
         \/ \E c \in Calls : Start(c) \/ CacheHit(c) \/ CallOk(c) \/ CallFails(c) \/ CancelCall(c)
         \/ \E s \in Ids : Break(s)
         \/ UNCHANGED vars
  PROVE  IInv'
<1> USE CallsAssumption DEF IInv
<1>0. UNCHANGED <<mu, sessions, made, dropped>>
  BY DEF Start, CacheHit, CallOk, CallFails, CancelCall, Break, vars
<1>1. pc' \in [Calls -> PcStates] /\ \A c \in Calls : pc'[c] = "connect" <=> pc[c] = "connect"
  BY DEF Start, CacheHit, CallOk, CallFails, CancelCall, Break, vars, Goto, TypeOK, PcStates
<1>2. \A c \in Calls : pc[c] = "connect" => sess'[c] = sess[c]
  BY DEF Start, CacheHit, CallOk, CallFails, CancelCall, Break, vars, Goto, TypeOK
<1>3. sess' \in [Calls -> 0..MaxSessions] /\ cancelled' \subseteq Calls
  BY DEF Start, CacheHit, CallOk, CallFails, CancelCall, Break, vars, TypeOK
<1>4. /\ state' \in [Ids -> {"none", "connecting", "live", "broken", "closed"}]
      /\ \A s \in Ids : state'[s] = "live" => state[s] = "live"
  BY DEF Start, CacheHit, CallOk, CallFails, CancelCall, Break, vars, TypeOK
<1>5. TypeOK'
  BY <1>0, <1>1, <1>3, <1>4 DEF TypeOK
<1>6. Connecting' /\ Numbered'
  <2>1. \A c \in Calls : sess'[c] <= made
    BY DEF Start, CacheHit, CallOk, CallFails, CancelCall, Break, vars, TypeOK, Numbered
  <2> QED
    BY <1>0, <1>1, <1>2, <2>1 DEF Connecting, Numbered
<1>7. LeakedOnlyByInvalidation' /\ DroppedStaysOut'
  BY <1>0, <1>4 DEF LeakedOnlyByInvalidation, DroppedStaysOut
<1> QED
  BY <1>5, <1>6, <1>7

LEMMA InvIInv == Spec => []IInv
<1>1. Init => IInv
  <2> SUFFICES ASSUME Init PROVE IInv
    OBVIOUS
  <2> USE BoundAssumption, CallsAssumption DEF Init
  <2>1. /\ pc \in [Calls -> PcStates]
        /\ sessions \in [Servers -> 0..MaxSessions] /\ sess \in [Calls -> 0..MaxSessions]
    BY DEF PcStates
  <2>2. state \in [Ids -> {"none", "connecting", "live", "broken", "closed"}]
    OBVIOUS
  <2>3. made \in 0..MaxSessions /\ dropped \subseteq Ids /\ cancelled \subseteq Calls
    OBVIOUS
  <2>4. TypeOK
    BY <2>1, <2>2, <2>3 DEF TypeOK
  <2>5. Connecting /\ Numbered /\ LeakedOnlyByInvalidation /\ DroppedStaysOut
    BY DEF Connecting, Numbered, LeakedOnlyByInvalidation, DroppedStaysOut
  <2> QED
    BY <2>4, <2>5 DEF IInv
<1>2. IInv /\ [Next]_vars => IInv'
  BY CacheMissStep, ConnectStep, InvalidateStep, CloseStep, QuietStep DEF Next, Lock, Ended, Calls
<1> QED
  BY <1>1, <1>2, PTL DEF Spec
-----------------------------------------------------------------------------
(* The theorems.                                                           *)

\* The variables keep their types, and the holder of the mutex is connecting.
THEOREM TypeCorrect == Spec => []TypeOK
<1>1. IInv => TypeOK
  BY DEF IInv
<1> QED
  BY <1>1, InvIInv, PTL

\* However many tasks call a server for the first time at once, no session that
\* works becomes unreachable without a failed call having removed it.
THEOREM NoSessionLost == Spec => []LeakedOnlyByInvalidation
<1>1. IInv => LeakedOnlyByInvalidation
  BY DEF IInv
<1> QED
  BY <1>1, InvIInv, PTL

\* A session that has been invalidated never comes back into the cache.
THEOREM InvalidationLasts == Spec => []DroppedStaysOut
<1>1. IInv => DroppedStaysOut
  BY DEF IInv
<1> QED
  BY <1>1, InvIInv, PTL

=============================================================================
