------------------------------ MODULE WebFetch ------------------------------
(***************************************************************************)
(* The webfetch operation (workspace/webfetch.go, and net/http as it uses  *)
(* it).                                                                    *)
(*                                                                         *)
(* fetchURL makes a context with the time-out of the fetch, sends the      *)
(* request and returns when the headers are there; its deferred cancel     *)
(* ends the context then.  The body is read after that, from a connection  *)
(* whose goroutine drops it as soon as it sees that the context is done.   *)
(***************************************************************************)
EXTENDS LargeOutput

CONSTANTS
  MaxResponseSize, \* maxResponseSize (5 MB)
  MaxPage          \* bound: the size of a page, and of a converted one

ASSUME FetchAssumption == MaxResponseSize \in Nat /\ MaxPage \in Nat

VARIABLES
  fetch,     \* program counter of the operation
  httpCtx,   \* "live", "deadline", "cancelled", or "released" by fetchURL
  timeUp,    \* the time-out of the fetch has passed
  stopped,   \* the task has been cancelled
  page,      \* the response: its size, and whether it declares it
  arrived,   \* how much of it is buffered; the end of it counts as well
  body,      \* how much of it has been read
  link,      \* the connection: "open", "aborted" by its goroutine, or "failed"
  cause,     \* why the operation has failed
  fetched    \* the result

bodyVars  == <<page, arrived, body>>
fetchVars == <<fetch, httpCtx, timeUp, stopped, bodyVars, link, cause, fetched>>

FetchTypeOK ==
  /\ fetch \in {"check", "do", "body", "convert", "process", "done"}
  /\ httpCtx \in {"live", "deadline", "cancelled", "released"}
  /\ timeUp \in BOOLEAN /\ stopped \in BOOLEAN
  /\ page \in [size : 0..MaxPage, declared : BOOLEAN]
  /\ arrived \in 0..(page.size + 1) /\ body \in 0..MaxPage
  /\ link \in {"open", "aborted", "failed"}
  /\ cause \in {"none", "url", "timeout", "request", "large", "read"}
  /\ fetched \in Replies

FetchInit ==
  /\ fetch = "check" /\ httpCtx = "live" /\ timeUp = FALSE /\ stopped = FALSE
  /\ page = [size |-> 0, declared |-> FALSE] /\ arrived = 0 /\ body = 0
  /\ link = "open" /\ cause = "none" /\ fetched = NoReply

FetchFails(c) == fetch' = "done" /\ cause' = c /\ fetched' = ErrorReply
-----------------------------------------------------------------------------
(* The environment.                                                        *)

\* The time-out; a timer that was stopped has no effect on the context.
TimeUp ==
  /\ fetch \in {"do", "body"} /\ ~timeUp /\ timeUp' = TRUE
  /\ httpCtx' = IF httpCtx = "live" THEN "deadline" ELSE httpCtx
  /\ UNCHANGED <<fetch, stopped, bodyVars, link, cause, fetched, filesVars>>

StopFetch ==
  /\ fetch # "done" /\ ~stopped /\ stopped' = TRUE
  /\ httpCtx' = IF httpCtx = "live" THEN "cancelled" ELSE httpCtx
  /\ UNCHANGED <<fetch, timeUp, bodyVars, link, cause, fetched, filesVars>>

\* More of the response, or the end of it, has been received.
Arrive ==
  /\ fetch = "body" /\ link = "open"
  /\ \E n \in (arrived + 1)..(page.size + 1) : arrived' = n
  /\ UNCHANGED <<fetch, httpCtx, timeUp, stopped, page, body, link, cause, fetched, filesVars>>

NetFails ==
  /\ fetch = "body" /\ link = "open" /\ link' = "failed"
  /\ UNCHANGED <<fetch, httpCtx, timeUp, stopped, bodyVars, cause, fetched, filesVars>>

FetchEnvironment == TimeUp \/ StopFetch \/ Arrive \/ NetFails
-----------------------------------------------------------------------------
(* The operation.                                                          *)

BadURL ==
  /\ fetch = "check" /\ FetchFails("url")
  /\ UNCHANGED <<httpCtx, timeUp, stopped, bodyVars, link, filesVars>>

Request ==
  /\ fetch = "check" /\ fetch' = "do"
  /\ UNCHANGED <<httpCtx, timeUp, stopped, bodyVars, link, cause, fetched, filesVars>>

\* Do fails: by itself, or because the context is done.
DoFails ==
  /\ fetch = "do" /\ FetchFails(IF httpCtx = "deadline" THEN "timeout" ELSE "request")
  /\ UNCHANGED <<httpCtx, timeUp, stopped, bodyVars, link, filesVars>>

\* Do returns the headers, perhaps some of the body is there already; fetchURL
\* returns, and cancels its context.
DoOk ==
  /\ fetch = "do" /\ fetch' = "body"
  /\ httpCtx' = IF httpCtx = "live" THEN "released" ELSE httpCtx
  /\ page' \in [size : 0..MaxPage, declared : BOOLEAN] /\ arrived' \in 0..(page'.size + 1)
  /\ UNCHANGED <<timeUp, stopped, body, link, cause, fetched, filesVars>>

\* Mutant: the request is made with the context of the task.
Abort_TaskContext ==
  /\ fetch = "body" /\ link = "open" /\ stopped /\ link' = "aborted"
  /\ arrived' \in body..arrived
  /\ UNCHANGED <<fetch, httpCtx, timeUp, stopped, page, body, cause, fetched, filesVars>>

\* The goroutine of the connection sees that the context is done, and drops the
\* connection with what it has not taken from it yet.
Abort ==
  /\ fetch = "body" /\ link = "open" /\ httpCtx # "live" /\ link' = "aborted"
  /\ arrived' \in body..arrived
  /\ UNCHANGED <<fetch, httpCtx, timeUp, stopped, page, body, cause, fetched, filesVars>>

\* The size that is declared exceeds the limit.
TooLarge == page.declared /\ page.size > MaxResponseSize

DeclaredTooLarge ==
  /\ fetch = "body" /\ body = 0 /\ TooLarge /\ FetchFails("large")
  /\ UNCHANGED <<httpCtx, timeUp, stopped, bodyVars, link, filesVars>>

\* Mutant: the reader stops at the limit.
ReadLimit_Exact == MaxResponseSize

\* The LimitReader passes one more byte than the limit.
ReadLimit == MaxResponseSize + 1

\* ReadAll takes what is buffered, up to the limit.
ReadBody ==
  LET n == Lesser(Lesser(arrived, page.size), ReadLimit)
  IN /\ fetch = "body" /\ ~TooLarge /\ body < n /\ body' = n
     /\ UNCHANGED <<fetch, httpCtx, timeUp, stopped, page, arrived, link, cause, fetched, filesVars>>

\* The end of the body, or of what the LimitReader passes.
AtEnd == \/ body = ReadLimit
         \/ body = page.size /\ (page.declared \/ arrived = page.size + 1)

ReadEnds ==
  /\ fetch = "body" /\ ~TooLarge /\ AtEnd
  /\ IF body > MaxResponseSize THEN FetchFails("large")
     ELSE fetch' = "convert" /\ UNCHANGED <<cause, fetched>>
  /\ UNCHANGED <<httpCtx, timeUp, stopped, bodyVars, link, filesVars>>

\* Nothing is buffered, and the connection is gone.
ReadBodyFails ==
  /\ fetch = "body" /\ ~TooLarge /\ ~AtEnd /\ link # "open" /\ body >= Lesser(arrived, page.size)
  /\ FetchFails("read")
  /\ UNCHANGED <<httpCtx, timeUp, stopped, bodyVars, link, filesVars>>

\* convertContent, which changes the size of an HTML page, and Process.
ConvertAndReturn ==
  /\ fetch = "convert" /\ fetch' = "done"
  /\ \E n \in 0..MaxPage :
       \/ FitsReply(n) /\ fetched' = Unchanged(n) /\ UNCHANGED filesVars
       \/ ~FitsReply(n) /\ Save(n, fetched')
  /\ UNCHANGED <<httpCtx, timeUp, stopped, bodyVars, link, cause>>

FetchOperation ==
  \/ BadURL \/ Request \/ DoFails \/ DoOk \/ Abort \/ DeclaredTooLarge \/ ReadBody
  \/ ReadEnds \/ ReadBodyFails \/ ConvertAndReturn

\* What happens without the help of the server.
FetchProceeds ==
  \/ BadURL \/ Request \/ TimeUp \/ (httpCtx # "live" /\ DoFails) \/ Abort \/ DeclaredTooLarge
  \/ ReadBody \/ ReadEnds \/ ReadBodyFails \/ ConvertAndReturn
-----------------------------------------------------------------------------
(* Properties.                                                             *)

\* A result is made from all of the page, and a page is refused as too large
\* only if it is, although the size is often not known before it is read.
WholePage ==
  /\ fetched.status = "ok" => body = page.size /\ page.size <= MaxResponseSize
  /\ cause = "large" => page.size > MaxResponseSize

\* Every fetch ends, also that of a page whose server stops sending.
FetchEnds == fetch = "do" ~> fetch = "done"

\* A page is fetched (webfetch.go:24) when it arrives within the time-out
\* (messages.go:233): reading it fails only when the time is up, the task has
\* been cancelled, or the network has failed.
PageInTimeIsReturned == cause = "read" => timeUp \/ stopped \/ link = "failed"

=============================================================================
