# A verification of flashduty-runner

The runner connects to the Flashduty service over one WebSocket, receives task
requests, executes them on the local machine and sends the results back. This
directory holds TLA+ models of its concurrent and stateful parts, TLC
configurations that check them on small instances, and TLAPS proofs of theorems
about them for all instances. Line numbers refer to the sources as they are in
this repository (`src/...`).

## The system

| Part | State | Operations | Talks to |
|---|---|---|---|
| WebSocket client, `ws/client.go` | `conn`, `doneCh`, `sendCh`, `stopCh`, `closed`, `envInfoSent`; the loops' local state | `RunWithReconnect`, `Connect`, `Run`, the read, send and heartbeat loops, `Send`, `Close` | hands every message to the handler in a goroutine of its own |
| Message handler, `ws/handler.go` | `runningTask`, `taskWg` | `Handle`, task request, cancel, MCP call, `WaitForTasks`, `CancelAllTasks` | sends results through the client; runs workspace operations |
| Program, `cmd/main.go` | the root context, the signal goroutine | `runRunner` | builds client and handler, ends them on a signal |
| MCP client manager, `mcp/client.go` | `sessions`, under `mu` | `GetSession`, `CallTool`, `ListTools`, `invalidateSession`, `Close` | called by tasks; calls MCP servers |
| MCP transports, `mcp/transport.go` | none | builds commands, headers, HTTP clients | used by the manager |
| Permission checker, `permission/permission.go` | `rules`, fixed when made | `NewChecker`, `Check` | asked before a bash command runs |
| Skill synchronisation, `workspace/workspace.go:541-640` | a directory and its `.checksum` file | `SyncSkill` | called by tasks, concurrently |
| File operations, `workspace/workspace.go` | the file system | read, write, list, glob, grep | called by tasks, concurrently |
| Bash, `workspace/workspace.go` | a child process, two pipes and two limited buffers | `Bash` | asks the permission checker; `os/exec` |
| Large output, `workspace/large_output.go` | saved files | `Process`: truncate, save | used by Bash, grep, web fetch, MCP; read back by read tasks |
| Web fetch, `workspace/webfetch.go` | a context, a connection | one HTTP request | called by tasks; `net/http` |
| Protocol, `protocol/messages.go` | none | types | used by all |

What is hard about it:

* **Reconnection.** `RunWithReconnect` replaces `c.doneCh` and `c.sendCh` with
  no lock while loops of the previous run may still be executing. A loop reads
  these fields again in every iteration, so a loop that was busy at that moment
  goes on with the channels of the next run.
* **Order of messages.** A goroutine per message means that messages are handled
  in any order; a cancel may come before its request.
* **Shutdown.** The signal goroutine, the reconnector, the loops and the tasks all
  run at once, and the process ends when the reconnector returns, wherever the
  others are.
* **Shared sessions.** Concurrent calls share one session per server name and each
  of them may invalidate it.
* **Failures half way.** A skill directory is removed, refilled and signed with a
  checksum in separate steps that may fail or be interleaved.
* **Races inside one operation.** A command, its children, the goroutines that copy
  its output, the time-out and a cancellation all end a bash task; a fetch races its
  body against its own context; a read asks for a size and opens the file later.
* **Limits.** An output of 10 MB, a page of 5 MB, a line of 64 KB, an offset near
  2^63: the code truncates, refuses or panics there.
* **Order of rules.** The permission rules come from a Go map, whose iteration
  order is arbitrary, and the last match decides.

What makes each part correct is stated as the properties below.

## Modules

`Delivery` is the abstract specification of what the client promises about a
result. `WsClient` implements it. `Runner` instantiates `WsClient` and
`TaskHandler`, identifies their contexts and joins the read loop to `Receive` and
the handler's sends to `Submit`. `Workspace` joins the operations a task may
execute: `Files`, `LargeOutput` (which saves into a file of `Files`), `Bash`,
`WebFetch` and `Grep` (which use `LargeOutput`), `Listing` and `SkillSync`. `McpManager`
and `Permission` touch none of these states and stand alone. `MC...` modules only give
values to constants; `...Proofs` modules hold the proofs.

### Delivery

A result is *new*, *pending*, *sent* or *lost*. It is sent at most once; a lost
result never comes back. Which results are lost is left to the implementation:
the code drops results when the buffer is full, when a write fails, when it
reconnects and when the process ends.

### WsClient (`ws/client.go`)

| In the model | In the code |
|---|---|
| `rc`, actions `Top` ... `NewSendCh` | `RunWithReconnect`, `Connect`, `Run`, `readLoop`: one goroutine |
| `hb[g]`, `HbLock` ... `HbTick` | the heartbeat loop started by run `g`, `sendHeartbeat` |
| `sl[g]`, `SlEvalDone` ... `SlWriteError` | the send loop started by run `g` |
| `queue[c]`, `doneClosed` | the channel objects; object `n` was made for run `n` |
| `conn`, `link[k]`, `wire[k]` | `c.conn`, connection `k` and the sequence of what was written to it |
| `delay`, `attempt` | back-off |
| `Submit`, `CancelCtx`, `Close` | the handler, and the signal goroutine |
| `LinkFails`, `DialFail`, `ReadError` | the network |

A select first evaluates its channel operands and then blocks. The model keeps
these apart in the loops (`HbEval`, `SlEvalDone`, `SlEvalSend`), so a field replaced in
between is seen, or not, exactly as an interleaving of the code allows. In `Send` they
are one step: its select does not block, and a message put into an object that has just
been replaced would only be lost with that object, as one put there a moment earlier is. The data race on
the fields shows as this choice of the old or the new object; torn pointers do not
occur on the platforms Go supports. A timer fires whenever it is armed, so delays
are values to compare and not times. A result that cannot be marshalled
(`NewMessage`) does not exist here.

### TaskHandler (`ws/handler.go`)

`pc[m]` is how far the goroutines are that handle message `m`. For a request:
`Register` (insert the cancel function), `StartTask` (`taskWg.Add`, the goroutine),
`Finish` (all of `executeTask`: it ends with a result or an error, if it ends; the
requests in `Deaf` have an operation that need not end when it is cancelled),
`SendResult`, `Unregister`, `TaskDone`, with the deferred calls in the order in
which Go runs them. A cancel is `LookUp` under the lock and `CallCancel` after it.
MCP calls are outside `runningTask` and `taskWg`, as they are in the code.
`sync.WaitGroup` is modelled with its rule that a released `Wait` panics when the
counter is positive again (`WaitReturns`); a panic ends the process.

### Runner (`cmd/main.go`)

The product of the two with one `ctxDone`. `Signal` is `cancel()`; `CountNone` ...
`CloseClient` are the rest of the signal goroutine. `Alive` ends with
`RunWithReconnect`. `late` counts messages that the read loop takes after the
signal.

### McpManager (`mcp/client.go`)

A call gets the mutex, finds a session (`CacheHit`) or connects while it keeps the
mutex (`CacheMiss`, `ConnectOk`, `ConnectFail`), uses the session without it
(`CallOk`, `CallFails`) and takes it again to invalidate (`Invalidate`). Sessions
break at any time (`Break`). The pages of `ListTools` are one step that may never
come. The map `clients` never influences the sessions and is left out, as is the
configuration that comes with a server name, which plays no part once there is a
session. `Close` of the manager is never called by the program; it is modelled
because it is part of the component (`Closing`).

### Permission (`permission/permission.go`)

`Collect` ranges over the map in any order, `NewChecker` sorts and fixes the
rules, `Check` starts the walk over the parsed command, `Visit` handles one call
expression, `Return` gives the verdict. A command without any call is passed. Patterns and calls are names; which matches
which is the constant `Matches`. Parsing of shell syntax and glob matching are the
library's and `matchPattern`'s business and are not modelled.

### SkillSync (`workspace/workspace.go:541-640`)

One skill directory, several `SyncSkill` tasks (`SyncStep`). The directory is removed
file by file, made, filled entry by entry (`Open`, `Copy`) and signed
(`TruncateChecksum`, `WriteChecksum`). `Fail` may happen at every step and `Crash` ends
all syncs. A file has an identity (its inode) apart from its name, so that two syncs
may hold one file open, or write to a file that has been removed. `mixed` is a history
variable: syncs have overlapped since a sync alone emptied the directory.

### Files (`workspace/workspace.go:100-170, 470-483`)

One path, with clients that read it page after page (`rd`), write tasks (`wr`) and a
command that removes it (`Unlink`). A read is `Stat`, `OpenRead`, `ReadAt`: three steps
between which the content may change, as nothing locks the file. A write is
`WriteOpen`, which truncates, `WriteData`, or a failure half way. An open inode
outlives its name. A byte is named by its writer and position, so a page shows from
which content each byte came. A writer is a task or a command, and what it brings may be
larger than memory (`MaxAlloc`). `offset + limit` has the width of an `int64` (`Wrap`),
and making a slice longer than memory ends the process. `disturbed` is a history
variable: whose file was changed by another while they were at it.

### LargeOutput (`workspace/large_output.go`)

`FitsReply` decides by size and lines; `Save` makes a file, or fails, perhaps after part
of the output was written. An output is its size; a line has the constant length
`LineLength`. Truncation, preview and message wording are sizes only.

### Bash (`workspace/workspace.go:350-467`)

| In the model | In the code |
|---|---|
| `bash`, `Refuse`, `Accept`, `StartOk`, `StartFails`, `RunReturns`, `SaveOutput`, `ReturnOutput` | `Bash`, `executeBashCommand` |
| `Conclude` | what becomes of the error of `cmd.Run` (`:406-421`) |
| `Kill` | the goroutine of `os/exec` that kills the process when the context is done |
| `Reap`, `Copied`, `CopyEnds` | `cmd.Wait`, and its goroutines that copy the pipes |
| `LimitedWrite` | `LimitedWriter.Write` |
| `Produce`, `Fork`, `ChildEnds`, `BashExits`, `Deadline`, `CancelTask` | the command, its children, the time-out, the task |

The process and the knowledge of it are kept apart (`proc` and `watch`): a process that
has ended and was not waited for still takes a signal, and the context of a command
that has ended well may be done. This decides between the exit codes -1, 0 and 124.
A pipe ends when nobody holds it (`holders`).

### WebFetch (`workspace/webfetch.go`)

`Request`, `DoOk` or `DoFails`, the body (`ReadBody`, `ReadEnds`, `ReadBodyFails`), the
conversion, which changes the size. `httpCtx` becomes "released" when `fetchURL` returns,
by its deferred `cancel`; `Abort` is the goroutine of the connection that sees it. The
server (`Arrive`) and the network (`NetFails`) are the environment.

### Grep (`workspace/workspace.go:238-347`)

With rg, the matches of files are printed in any order, until rg ends, is killed or
fails; the error is ignored. Which files it looks at is up to its own rules for globs,
ignored, hidden and binary files: `RgSelected`. It gives up a file that it cannot read or
finds to be binary, after printing some of its matches (`RgGivesUp`); what it says about
that has not the form of a match and is dropped. Without rg, the files of each include
pattern are scanned in turn (`Globbed`: a file is there once for each pattern that names
it): files that do not open are skipped, and the scanner stops at a line that is too
long. The two backends match differently, an expression and a substring, so `LinesIn`
says of a line which of them it is a hit for. File names without a colon are assumed.

### Listing (`workspace/workspace.go:173-223`)

`filepath.Walk` over a tree in which paths come and go (`Change`): the names of a
directory are read before the callback sees it (`VisitDir`), and each is looked up when
its turn comes (`LstatNext`). A list may begin at a plain file, and ends with it; the
theorem covers this, the instance for TLC lists a directory. The tree is given by
`ParentOf` and `Above`, all directories above a path, and the order in which Walk sorts
the names by `Rank`.

### Workspace

Operations share nothing but files: each saved output has a file of its own and a
skill a directory of its own. So `op` fixes the operation a behaviour is about, and the
states of the operations add up instead of multiplying; concurrency that matters is
inside: readers and writers of one path, syncs of one directory, and the client that
pages through a saved output once it knows the path (`ReadSaved`).

## Runs

All times are for two workers on a small machine. Unless a run says so, deadlock
is checked: in every module a behaviour ends only in states where the real program
has ended or has nothing left to do (`Ended`).

| Run | Properties | States |
|---|---|---|
| `wsclient_results` | `AtMostOnce`, `BackoffShape`, `DeliverySpec`, `QueuedIsSent`, `ShutdownTerminates` | 152 thousand, 50 s |
| `wsclient_loops` | `TypeOK`, `DoneClosedOnce`, `RunHasLoops`, `NoOrphanWait`, `EnvInfosBounded` | 3 million, 80 to 200 s |
| `taskhandler_tasks` | `EntryIsLive`, `Tracked`, `OneResult`, `WaitSeesIdle`, `CancelIsAnswered`, `ShutdownDrains` | 231 thousand, 40 to 150 s |
| `mcpmanager_calls` | `LeakedOnlyByInvalidation`, `DroppedStaysOut`, `ToolCallReturns`, `BrokenIsDropped` | 19 thousand, 20 s |
| `runner_shutdown` | `SubmitNeverBlocked`, `AtMostOneLate`, `SignalEnds` | 240 thousand, 100 s |
| `runner_messages` | `FinishedIsSent` | 196 thousand, 105 s |
| `permission_rules` | `DenialNamesFirst`, `VerdictFollowsPolicy` | 22 thousand, 3 s |
| `workspace_ops` | `WorkspaceTypeOK`, `ReadIsInBounds`, `PagesReassemble`, `WriteIsExact`, `OutcomeIsTrue`, `OutputIsComplete`, `StopReturns`, `SavedIsWhole`, `WholePage`, `FetchEnds`, `GrepIsComplete`, `ListIsComplete`, `ChecksumMatchesFiles`, `SuccessIsExact` | 190 thousand, 50 s |
| `wsclient_writer` | `OneWriter` | violated |
| `wsclient_envinfo` | `EnvInfoOncePerConnection` | violated |
| `runner_exit` | `ExitWaitsForTasks` | violated |
| `workspace_fetch` | `PageInTimeIsReturned` | violated |

What they show, with the bounds and why they are enough:

* **`wsclient_results`** One result, two connections, at most three failed dials in
  a row (delays 1, 2, 4 and 5 s under a maximum of 5 s, in the place of ten and
  300 s: the same doubling, capping, resetting and giving up), one signal. Two
  connections are the fewest with a stale send loop, and a loop that stays busy for
  longer picks up a later pair of channels in the same way. The result is in one place
  at a time, whatever loop it goes through; the client is a `Delivery`; a buffered
  result goes out if the connection lasts; after a signal `RunWithReconnect` returns.
* **`wsclient_loops`** Two heartbeats and a buffer of one, so that the buffer fills
  and a stale heartbeat loop can tick into the next run. Bounding `MaxBeats` stops
  a loop before its next heartbeat and disables nothing else. All five properties are
  also proved for every bound. `EnvInfosBounded` is a bound on the environment
  information as a whole; that a connection gets it once is not so (`wsclient_envinfo`,
  the same instance).
* **`taskhandler_tasks`** Three messages (`MaxReceived`) out of two requests that share
  one task id, which is the case in which the table can go wrong, a cancel of that id
  and an MCP call, with a waiter, `CancelAllTasks` and a cancelled context. Every
  interference in the handler is between at most two requests and a cancel. One of the
  two requests is deaf to its cancellation. Both liveness properties name their two
  exceptions: a deaf operation, which may run for ever and holds up no other task, and
  a panic of `sync.WaitGroup` (see below).
* **`mcpmanager_calls`** Two calls for one server (a race for its session) and one
  for another (which has to wait for the mutex), each connecting at most once, hence
  three sessions.
* **`runner_shutdown`** One task, a signal at any moment, one connection.
  `SubmitNeverBlocked` is the assumption under which `WsClient` is checked by itself,
  that each result is submitted once and only after a connection.
  **`runner_messages`** A request, its cancellation and an MCP call over one
  connection without a signal. The buffer has one place, so that one result fills it
  for the other, as heartbeats and many tasks fill the 100 places of the code; a result
  that `Send` refuses then (`Refused`) is the exception of `FinishedIsSent`.
  Reconnections are left to the `WsClient` runs, since the handler
  has no state that depends on the connection.
* **`permission_rules`** All maps over four patterns, of which two overlap on a call
  and one is `*`, in every iteration order and with actions that are neither allow
  nor deny; commands of none, one and two calls. `VerdictFollowsPolicy` compares the
  walk with a policy that speaks of sets only: a command is refused if one of its
  calls is not allowed by the pattern that sorts last among those that match. Of a
  command without any call it says nothing: the code lets it pass (see below).
* **`workspace_ops`** Each operation with what disturbs it.
  * *Files*: one reader, two writers, a removal. The first writer brings two bytes, the
    second, a command, one more than fits into memory. Pages of two
    bytes, the whole file, an offset before the file and a limit whose sum with the
    offset wraps. `IntBound` 8 stands for 2^63 and `MaxAlloc` 4 for the longest
    slice; files may be longer than that.
  * *Bash*: two streams of up to four characters (`MaxWritten`), of which three are kept
    (`Limit`, 10 MB in the code) and two fit into a reply (`MaxOutputSize`): the stream
    fits, is saved, and overflows its buffer. One child is enough to hold the pipes.
  * *WebFetch*: pages of up to four bytes around a limit of two (`MaxResponseSize`): at
    the limit, one beyond it and further; size declared or not.
  * *Grep*: three files and two patterns that overlap on the first, with a line that is
    too long between two hits of the second and a line that only an expression matches;
    rg ignores the first file and selects the third. *Listing*: a directory with a file
    and a directory in it, up to two changes (`MaxChanged`; a path that goes and comes back), one ignored
    and one unreadable entry (`MaxSpecial`), recursive or not.
  * *SkillSync*: three syncs of two versions, two at a time (`MaxActive`): enough for
    two to spoil the directory and a third to have to repair it.
* **`workspace_fetch`** The same instance; it shows that a fetch fails though its time
  is not up.

A symmetry set is used nowhere: the instances distinguish their few members. The type
invariants of `TaskHandler` and `McpManager` are proved and not run; `Runner` is typed by
its two parts, and `Permission` by what its invariant says.

### Fairness

The liveness runs use `FairSpec`.

* Every goroutine that can take a step takes one in the end: the Go scheduler is
  preemptive, and each loop and each handler goroutine is a weak fairness of its own.
* A `WaitForTasks` ends, and so does a `Connect` or a `CallTool`: by their time-outs.
* The signal goroutine reaches `Close`: weak fairness of `Close` in `WsClient`; in
  `Runner` it comes from the fairness of that goroutine's own steps and its time-outs.
* A mutex is granted to each of its waiters in the end (strong fairness in
  `McpManager`): `sync.Mutex` hands itself over after 1 ms of waiting.
* A cancelled operation ends (`TaskHandler`) if it is not in `Deaf`: a fetch, or a
  command whose children let go of its output heeds its context. It is not assumed of
  any other: `cmd.Run` waits for whoever holds the pipes (`workspace.go:392`), and List,
  Write and the Go backend of grep do not look at the context. In `Runner` all requests are
  deaf. An operation nobody cancels may run for ever.
* In `Workspace`, `os/exec` reaps, kills and copies (`OnBash /\ BashOperation`), and a fetch
  proceeds, its timer included (`OnFetch /\ FetchProceeds`). Nothing is assumed of the
  command, its children, the server or the client: `StopReturns` excepts, in its
  premise, a child that keeps the output open for ever.
* Nothing is assumed of the network, the peer, the tickers, or the MCP servers.

## Where the code does not do what it says

Four disagreements are kept as runs that must fail:

1. **`wsclient_writer`**, `ws/client.go:373`. "Run starts the client's read/write
   loops" for a connection, but a send loop that is writing while `doneCh` and
   `sendCh` are replaced picks up the new ones and goes on. Two goroutines then
   write to one connection, which the library does not allow.
2. **`runner_exit`**, `cmd/main.go:234`. "Wait for running tasks to complete (with
   timeout)": `cancel()` makes `RunWithReconnect` return, `main` with it, while the
   signal goroutine is still in `WaitForTasks`.
3. **`wsclient_envinfo`**, `ws/client.go:437`. "Only send environment info on first
   heartbeat after connection": a heartbeat loop of the previous run that has attached it
   before the flag is reset hands its message to the new channel, and the loop of the new
   run attaches it again. The new connection carries it twice.
4. **`workspace_fetch`**, `workspace/webfetch.go:75`. `fetchURL` defers the `cancel` of the
   context of its request, which then ends before the body is read. `net/http` drops the
   connection, and what was not buffered is lost: a larger or slower page fails with
   "context canceled" however early it is.

Others were met while modelling and have no run. The models contain the behaviour
(unless said otherwise), and the properties above are worded so that they hold:

* `main.go:212` cancels the context, and by it every task, before it waits for tasks
  "with timeout" and then logs "cancelling remaining tasks".
* Results of tasks that end during the shutdown stay in `sendCh` and are dropped by
  `Close`; so are buffered results when `sendCh` is replaced (`client.go:252`).
* A stale heartbeat loop may consume the reset of `envInfoSent` (`client.go:249`) and
  put the environment information into the buffer that is about to be replaced; the new
  connection then never gets it. That it may also get it twice is `wsclient_envinfo`; what
  holds is the bound on the whole, `EnvInfosBounded`.
* `handler.go:104-109` inserts a task into `runningTask` before it is counted in
  `taskWg`; a `WaitForTasks` between the two returns true though the task will run. For
  the same reason a task may start between the last `Done` and the return of `Wait`,
  and `sync.WaitGroup` panics.
* A `task.cancel` handled before its request finds nothing; the task runs on.
* `mcp/client.go:60` says "still valid" and tests for presence only; sessions are
  cached by name alone (the second configuration of a name is ignored); a failing call
  removes whatever is cached under the name, perhaps a new session; a removed session
  is not closed, also not by `Close`.
* A removal of a skill directory that fails half way leaves the old checksum beside the
  files that are still there (`workspace.go:579`): the next sync compares no checksum,
  so it repairs this, but whoever reads the directory meanwhile finds a checksum of
  files that are gone. `ChecksumMatchesFiles` is worded for what it does promise.
* Two syncs of one skill may both report success and leave a mixed directory; two
  writes of one path (`workspace.go:169`) leave a mixture of both.
* `workspace.go:637` says that sizes are validated before extraction; nothing does,
  and a longer file is cut off at 100 MB. (Sizes are not in that model.)
* `workspace.go:130`: `offset + limit` has no `int64` for large arguments; the limit is then
  not reduced, `make` panics and the process ends.
* `workspace.go:138`: a read with limit 0 makes room for all that is left of the file, so a
  file larger than memory (a sparse one, say, that a command has made) ends the process.
* A command that times out is reported as -1; 124 means that the command had ended well
  or was never started by then, and it replaces what the command wrote to stderr
  (`workspace.go:411`).
* `WaitDelay` is not set (`workspace.go:392`): a child that keeps the output open makes the
  task wait for ever, time-out or not.
* A stream of more than 10 MB loses its tail (`workspace.go:437`), while the reply calls
  what is left the total and the full content (`large_output.go:142`).
* `large_output.go:150` proposes `offset=<lines>`; the offset of a read is in bytes.
* `workspace.go:188`: one entry that vanishes or cannot be read, even an ignored one,
  fails the whole list.
* `workspace.go:288`: an error of rg is ignored, so a cancelled grep looks complete, and so
  does one in which rg could not read some files; a colon in a path is taken for the
  separator (not in the model). What is searched depends on whether rg is installed: it
  passes over hidden, ignored and binary files, and takes the pattern for an expression.
* `workspace.go:332`: a line of more than 64 KB ends the search of its file silently.
* A time-out in seconds is multiplied without a bound (`workspace.go:386`) and overflows
  for absurd arguments (not in the model).
* `client.go:229`: a successful connection resets the back-off, so a peer that accepts and
  drops connections is dialled in a tight loop (no time in the model).
* `handler.go:104`: the cancel function of a task that ends normally is not called, so its
  child context stays registered until the parent ends (memory is not in the model).
* `permission.go:93-101`: a command without any call, such as a redirection alone, passes under
  every map, an empty one included. `permission.go:94` says "Check redirects for potential
  path escape or unauthorized writes", `:169` "Deny all by default" and `README.md:260`
  "Empty config defaults to deny all".
* `permission.go:67` sorts the patterns, and `README.md:258` says "Patterns are matched in
  order, **last match wins**": `kubectl *` after `kubectl get *` in the file loses to it.
* The repository's README describes a `permission` section of the configuration;
  `main.go:179` makes the checker with `{"*": "deny"}`, whatever the file says. (The
  model takes any rules.)

## Theorems

Proved by TLAPS for all values of the constants that the named assumptions admit.

**`WsClientProofs`** (assumptions: the buffer has room for one message, the back-off
bounds are ordered, `MaxRuns` is positive):

* `TypeCorrect` is `TypeOK`, which includes that no buffer exceeds its capacity.
* `ClosesOnce` is `DoneClosedOnce`: `close(c.doneCh)` does not panic.
* `NoLeakedLoop` is `NoOrphanWait`: no loop waits on a `doneCh` that has been
  replaced without having been closed.
* `ServedByLoops` is `RunHasLoops`: both loops of a served connection live.
* `BackoffDoubles` is `BackoffShape`: how the delay grows, is capped and reset, and when
  the client gives up.

The invariant of the first four is `IInv`. `NoOrphanWait` and `RunHasLoops` are not inductive alone,
since they say nothing of what the loops will pick up next. The strengthening ties
the numbers of the channel objects to the number of the connection and the program
counter of the reconnector (`Generation`), says that exactly the objects of finished
runs are closed (`ClosedDone`) and that a loop holds an object no newer than the
current one (`Held`), and that a run that has not begun has no loops (`NotStarted`).

`BackoffDoubles` has the invariant `BackoffInv`, which adds where the delay is the initial
one. It says "doubled n times" with the recursive function `Doubled`, whose equations
(`DoubledIs`) need an induction. The library's induction takes an operator, which
the provers cannot instantiate; `SetInduction` states it of a set instead and proves it
from cardinalities: if m were missing in a set that has 0 and the successors of its
elements, adding one would be an injection of its elements up to m into one fewer.

**`TaskHandlerProofs`** (assumptions: finitely many requests, the three kinds of
message are disjoint, every request and cancel has a task id): `TypeCorrect`,
`EntriesAreLive`, `TasksAreTracked`, `AnsweredOnce`, `WaitIsExact`. `WaitIsExact` needs
that `wg` is the number of requests between `Add` and `Done` (`WgCounts`), hence facts
about the cardinality of sets that gain or lose a member. `AnsweredOnce` is proved
from `Results`, which speaks of the set of answers and not of its size. `TypeCorrect`
needs `Found`: a cancel calls a function only if the lookup has found one.

**`McpManagerProofs`** (assumptions: the kinds of calls are disjoint and each has a
server, the bounds): `TypeCorrect`, `NoSessionLost`, `InvalidationLasts`. The
strengthening `Connecting` says that the call that holds the mutex is connecting the
newest session, which nobody else knows and whose name has no entry; `Numbered`, that
sessions which were not made are nowhere.

**`DeliveryProofs`** (those of `WsClientProofs`): `ResultsAreSingle` is `AtMostOnce`, and
`ImplementsDelivery` the refinement `DeliverySpec`, initial states and steps. The invariant
`DInv` says that a result which is anywhere has been submitted (`Known`), that it is at
one place of one buffer, in one loop, or on one connection (`OnePlace`), and that
buffers of runs to come are empty (`Fresh`). The many steps that move no result are one
case (`Quiet`); the others move one result along the order of `Delivery`.

`InfosAreBounded` is `EnvInfosBounded`: the copies of the environment information, wherever
they are, never outnumber the connections by more than the one that may be made between
two of them. It is no bound for a single connection. Its invariant `Count` bounds the
number of copies, plus the one the next heartbeat may
make, by the number of connections (`Allowance`). A step that moves messages is an
injection of the old places into the new ones, so the cardinality does not grow; a step
that makes one uses up the flag; a reset of the flag belongs to a new connection.

**`RunnerProofs`** (no assumptions of its own): `ClientInProgram` and `HandlerInProgram`
say that every behaviour of the program is, restricted to their variables, one of
`WsClient` and of `TaskHandler`; hence what is proved of the parts holds in the program.
`OneLateMessage` is `AtMostOneLate`, `SubmitsAreLegal` is `SubmitNeverBlocked`, from `RInv`:
a late message has made the read loop leave (`LateOnce`), messages come from a
connection (`Connected`), and a result that is not sent yet was not submitted (`Unsent`).

**`WorkspaceProofs`** (assumptions: limits are naturals, the streams include stdout, the
names in an archive are distinct, the searched files have lines, the paths are a finite
tree with an order of names): `BashOutcomes`, `BashOutputs`, `PagesAreWhole`,
`ChecksumsAreTrue`, `SyncsAreExact`, `GrepsAreComplete`, `ListsAreComplete`.

* *Bash*: what was written is related to what is in the pipe and what is kept
  (`Streamed`), who holds the pipes to the process (`Holding`), and the program counter to
  the exit code (`Phases`).
* *WebFetch*: the body has been read to its end when it is converted (`FetchInv`).
* *SkillSync*: a sync that is alone owns the directory, and the files up to its position
  in the archive are whole and its own (`Position`, `Progress`).
* *Grep*: what rg selects, gives up or fails at is arbitrary; the theorem is about the rest.
  `GrepCounts` balances an account for each line: what is found of it and what
  the rest of the agenda will still bring are what the patterns name, once each file
  that is searched. It needs how often an element is in a concatenation and in a tail
  (`TimesConcat`, `TimesHeadTail`).
* *Listing*: the paths of the list and those still to be visited are different, none of
  the latter is above any of them (`Untouched`), the walk came to all of them through
  directories it descends into (`Walked`), and whatever is missing in the list is to be
  visited or below such a path (`Covered`). A path comes into the list when it leaves
  `todo`, so "nothing twice" depends on all of these. That the assumption on the tree
  excludes cycles is `TreeOrder`, by a minimal element of a well-founded order (`WFMin`,
  which has no operator for a parameter).

**`FilesProofs`** (the same, and: sizes, limits and offsets have an `int64`, and so has the
length of the longest slice, whatever it is): what the operations leave in a file and get from it.

* `SavedFilesAreWhole`, `WritesAreExact`, from `FilesInv`: an output is saved by the last step
  of its operation and not written again (`SavesLast`); a writer that nobody disturbed
  has the file it truncated still under its path, and empty (`Truncates`).
* `PagesAreAssembled` is `PagesReassemble`, `ReadsAreInBounds` is `ReadIsInBounds`, both from
  `ReadInv`: what an undisturbed client has got is the file from the offset it began with
  to the one it has come to, and the size it was told is still the size
  (`Assembled`); sizes, limits and offsets are what they can be (`Legal`); and a saved
  output is read only once it is there (`Pages`), so saving it disturbs no reader.
  `WrapIs` and `ExtentIs` are the arithmetic of `offset + limit`: the wrapped sum is
  the sum, or it is negative. A page ends the process only when the sum has no `int64`, or
  when more than memory is left of the file and no smaller limit was asked for.
* `WorkspaceTypeCorrect` is `WorkspaceTypeOK`, from the invariants of all operations.

**`PermissionProofs`** (assumptions: different patterns sort differently, `*` is a
pattern and matches all): `DenialsNameTheirRule` and `VerdictsFollowPolicy`, for all
maps, orders and commands with at least one call. `SortedProperties` shows that sorting distinct keys has a
result, by counting the keys that come no later; `Ordered`, that the rules are those of
the map, each before those that count more; `RulesFollowPolicy`, that the last match in
such a list is the greatest match in the set.

Every invariant and every safety property of a step that a run checks is so proved.
What is only model-checked is liveness, since the prover does not handle fairness:
`QueuedIsSent`, `ShutdownTerminates`, `CancelIsAnswered`, `ShutdownDrains`, `ToolCallReturns`,
`BrokenIsDropped`, `SignalEnds`, `FinishedIsSent`, `StopReturns` and `FetchEnds`.

## Not modelled, and why

* `mcp/transport.go`, `protocol/messages.go`, the collection of environment information
  (`client.go:449-558`), configuration, flags and logging: no state of their own.
* `Glob` is one call of a library and a sort of its result.
* The arithmetic on path names in `safePath`: in the models a path is accepted or not.
* Shell parsing, glob matching and the conversion of HTML: parameters or choices.
* Real time: delays are compared, time-outs may happen.
* Package `log`, which the sources import, is not in the repository.

## Plan

Done, in this order: `Delivery`, `WsClient`, `TaskHandler`, `Runner`, `McpManager`,
`Permission`, `SkillSync`; then `Files`, `LargeOutput`, `Bash`, `WebFetch`, `Grep`, `Listing`
and their composition `Workspace`; proofs of all parts.

What would come next, by weight:

1. `Runner` with several connections, once the state space allows it: the composition
   theorems cover it, the liveness `FinishedIsSent` is checked for one connection only.
2. `safePath`, which looks at symbolic links before the operation uses the path, as a
   step of its own.
