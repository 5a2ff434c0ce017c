----------------------------- MODULE McpManager -----------------------------
(***************************************************************************)
(* The cache of MCP sessions (mcp/client.go), shared by all tasks.         *)
(*                                                                         *)
(* GetSession holds the mutex of the manager while it connects, so only    *)
(* one connection is set up at a time, whatever the server.  The call on   *)
(* the session runs without the mutex; when it fails, for whatever reason, *)
(* the cache entry under the NAME of the server is removed, which may be   *)
(* another session by then.  A removed session is not closed.              *)
(*                                                                         *)
(* Sessions are numbered in the order in which Connect was called.  The    *)
(* configuration that comes with a name plays no part after the first call *)
(* for that name, and is left out.                                         *)
(***************************************************************************)
EXTENDS Naturals, FiniteSets

CONSTANTS
  ToolCalls,    \* the executions of CallTool
  ListCalls,    \* the executions of ListTools
  Servers,      \* the server names
  ServerOf,     \* the server name a call is given
  NoCall,       \* the mutex is free
  MaxSessions,  \* bound: calls of Connect
  Closing       \* bound: whether Close is called (the program never does)

Calls == ToolCalls \cup ListCalls

ASSUME CallsAssumption ==
  /\ ToolCalls \cap ListCalls = {} /\ NoCall \notin Calls
  /\ ServerOf \in [Calls -> Servers]
ASSUME BoundAssumption == MaxSessions \in Nat /\ Closing \in BOOLEAN

VARIABLES
  pc,         \* pc[c]: how far call c is
  mu,         \* the call that holds m.mu, or NoCall
  sessions,   \* m.sessions: the session cached under a name, 0 for none
  sess,       \* sess[c]: the session GetSession has returned to call c
  made,       \* calls of Connect so far
  state,      \* state[s]: what session s is, "closed" also when Connect failed
  dropped,    \* the sessions invalidateSession has removed
  cancelled   \* the ListTools whose context is done

vars == <<pc, mu, sessions, sess, made, state, dropped, cancelled>>

Ids == 1..MaxSessions
PcStates == {"none", "get", "connect", "call", "invalidate", "ok", "error"}
Over == {"ok", "error"}

TypeOK ==
  /\ pc \in [Calls -> PcStates]
  /\ mu \in Calls \cup {NoCall} /\ (mu # NoCall => pc[mu] = "connect")
  /\ sessions \in [Servers -> 0..MaxSessions]
  /\ sess \in [Calls -> 0..MaxSessions]
  /\ made \in 0..MaxSessions
  /\ state \in [Ids -> {"none", "connecting", "live", "broken", "closed"}]
  /\ dropped \subseteq Ids /\ cancelled \subseteq Calls

Init ==
  /\ pc = [c \in Calls |-> "none"]
  /\ mu = NoCall
  /\ sessions = [n \in Servers |-> 0]
  /\ sess = [c \in Calls |-> 0]
  /\ made = 0
  /\ state = [s \in Ids |-> "none"]
  /\ dropped = {} /\ cancelled = {}

Goto(c, from, to) == pc[c] = from /\ pc' = [pc EXCEPT ![c] = to]
-----------------------------------------------------------------------------
(* GetSession.                                                             *)

\* A task calls CallTool or ListTools.
Start(c) ==
  /\ Goto(c, "none", "get")
  /\ UNCHANGED <<mu, sessions, sess, made, state, dropped, cancelled>>

\* There is a session under this name: it is returned, whatever its state.
CacheHit(c) ==
  /\ mu = NoCall /\ sessions[ServerOf[c]] # 0
  /\ Goto(c, "get", "call")
  /\ sess' = [sess EXCEPT ![c] = sessions[ServerOf[c]]]
  /\ UNCHANGED <<mu, sessions, made, state, dropped, cancelled>>

\* Mutant: the mutex is released while Connect runs.
CacheMiss_Unlocked(c) ==
  /\ mu = NoCall /\ sessions[ServerOf[c]] = 0 /\ made < MaxSessions
  /\ Goto(c, "get", "connect")
  /\ made' = made + 1
  /\ sess' = [sess EXCEPT ![c] = made + 1]
  /\ state' = [state EXCEPT ![made + 1] = "connecting"]
  /\ UNCHANGED <<mu, sessions, dropped, cancelled>>

\* There is none: Connect is called with the mutex held.
CacheMiss(c) ==
  /\ mu = NoCall /\ sessions[ServerOf[c]] = 0 /\ made < MaxSessions
  /\ Goto(c, "get", "connect")
  /\ mu' = c
  /\ made' = made + 1
  /\ sess' = [sess EXCEPT ![c] = made + 1]
  /\ state' = [state EXCEPT ![made + 1] = "connecting"]
  /\ UNCHANGED <<sessions, dropped, cancelled>>

\* Connect returns a session, which is cached.
ConnectOk(c) ==
  /\ Goto(c, "connect", "call")
  /\ sessions' = [sessions EXCEPT ![ServerOf[c]] = sess[c]]
  /\ state' = [state EXCEPT ![sess[c]] = "live"]
  /\ mu' = NoCall
  /\ UNCHANGED <<sess, made, dropped, cancelled>>

\* Mutant: the error path returns without releasing the mutex.
ConnectFail_KeepsLock(c) ==
  /\ Goto(c, "connect", "error")
  /\ state' = [state EXCEPT ![sess[c]] = "closed"]
  /\ sess' = [sess EXCEPT ![c] = 0]
  /\ UNCHANGED <<mu, sessions, made, dropped, cancelled>>

\* Connect fails, or the transport is unknown, or 30 seconds have passed.
ConnectFail(c) ==
  /\ Goto(c, "connect", "error")
  /\ state' = [state EXCEPT ![sess[c]] = "closed"]
  /\ sess' = [sess EXCEPT ![c] = 0]
  /\ mu' = NoCall
  /\ UNCHANGED <<sessions, made, dropped, cancelled>>
-----------------------------------------------------------------------------
(* The call on the session.                                                *)

\* Mutant: a call that succeeds puts its session into the cache again.
CallOk_Recaches(c) ==
  /\ Goto(c, "call", "ok")
  /\ state[sess[c]] = "live"
  /\ sessions' = [sessions EXCEPT ![ServerOf[c]] = sess[c]]
  /\ UNCHANGED <<mu, sess, made, state, dropped, cancelled>>

\* The call, or the last page of the tools, returns.
CallOk(c) ==
  /\ Goto(c, "call", "ok")
  /\ state[sess[c]] = "live"
  /\ UNCHANGED <<mu, sessions, sess, made, state, dropped, cancelled>>

\* Mutant: ListTools returns its error without invalidating the session.
CallFails_ListKeeps(c) ==
  /\ Goto(c, "call", IF c \in ListCalls THEN "error" ELSE "invalidate")
  /\ UNCHANGED <<mu, sessions, sess, made, state, dropped, cancelled>>

\* The call on the session fails: the session is broken or was closed, the
\* context is done, 60 seconds have passed (CallTool), or the server answers
\* with a protocol error.
CallFails(c) ==
  /\ Goto(c, "call", "invalidate")
  /\ UNCHANGED <<mu, sessions, sess, made, state, dropped, cancelled>>

\* invalidateSession: the entry under this name is removed.
Invalidate(c) ==
  LET n == ServerOf[c] IN
  /\ mu = NoCall
  /\ Goto(c, "invalidate", "error")
  /\ sessions' = [sessions EXCEPT ![n] = 0]
  /\ dropped' = IF sessions[n] = 0 THEN dropped ELSE dropped \cup {sessions[n]}
  /\ UNCHANGED <<mu, sess, made, state, cancelled>>
-----------------------------------------------------------------------------
(* Close and the environment.                                              *)

\* Close: what is cached is closed and removed.
CloseAll ==
  /\ Closing /\ mu = NoCall
  /\ \E n \in Servers : sessions[n] # 0
  /\ state' = [s \in Ids |-> IF \E n \in Servers : sessions[n] = s
                               THEN "closed" ELSE state[s]]
  /\ sessions' = [n \in Servers |-> 0]
  /\ UNCHANGED <<pc, mu, sess, made, dropped, cancelled>>

\* The server or the connection to it goes away.
Break(s) ==
  /\ state[s] = "live"
  /\ state' = [state EXCEPT ![s] = "broken"]
  /\ UNCHANGED <<pc, mu, sessions, sess, made, dropped, cancelled>>

\* The context of the task is cancelled, which ends a ListTools.  For CallTool,
\* which has a time-out, it is one more reason to fail (CallFails).
CancelCall(c) ==
  /\ c \notin cancelled /\ pc[c] \notin Over
  /\ cancelled' = cancelled \cup {c}
  /\ UNCHANGED <<pc, mu, sessions, sess, made, state, dropped>>

\* Nothing is left to do.
Ended == /\ \A c \in Calls : pc[c] \in Over \/ (pc[c] = "get" /\ made = MaxSessions)
         /\ UNCHANGED vars

Connect(c) == ConnectOk(c) \/ ConnectFail(c)
Lock(c)    == CacheHit(c) \/ CacheMiss(c) \/ Invalidate(c)

Next ==
  \/ \E c \in Calls : Start(c) \/ Lock(c) \/ Connect(c) \/ CallOk(c) \/ CallFails(c)
  \/ \E c \in ListCalls : CancelCall(c)
  \/ \E s \in Ids : Break(s)
  \/ CloseAll \/ Ended

Spec == Init /\ [][Next]_vars

\* The mutex is granted to every call that waits for it (sync.Mutex hands it
\* over in its starvation mode), Connect and CallTool are bounded by their
\* timeouts; ListTools is not, it ends when its context or its session does.
FairSpec ==
  /\ Spec
  /\ \A c \in Calls : SF_vars(Lock(c)) /\ WF_vars(Connect(c))
  /\ \A c \in ToolCalls : WF_vars(CallOk(c) \/ CallFails(c))
  /\ \A c \in ListCalls : WF_vars(/\ CallFails(c)
                                  /\ c \in cancelled \/ state[sess[c]] # "live")
-----------------------------------------------------------------------------
(* Safety.                                                                 *)

\* A session that works is in the cache, or a failed call has removed it:
\* concurrent first calls for a server never make a session nobody can find
\* (GetSession holds the mutex from the lookup to the insertion).
LeakedOnlyByInvalidation == \A s \in Ids :
  state[s] = "live" => s \in dropped \/ \E n \in Servers : sessions[n] = s

\* A session that has been invalidated is never handed to a later call.
DroppedStaysOut == \A n \in Servers : sessions[n] \notin dropped
-----------------------------------------------------------------------------
(* Liveness, under FairSpec.                                               *)

\* CallTool returns, although it may have to wait for the connections to other
\* servers, which are set up under the same mutex.
ToolCallReturns == \A c \in ToolCalls : pc[c] = "get" ~> pc[c] \in Over

\* A broken session that a call has run into leaves the cache, so that the
\* next call connects again.
BrokenIsDropped == \A c \in Calls : \A s \in Ids :
  (pc[c] = "call" /\ sess[c] = s /\ state[s] = "broken")
    ~> \A n \in Servers : sessions[n] # s

=============================================================================
