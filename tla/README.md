# A TLA+ development for eino-ops-agent

`eino-ops-agent` (OpsNerva) lets a language model operate hosts over SSH.  The
dangerous part of it is not the model: it is the machinery between a tool call
and the host.  A call is bound to a connection, may need an operator's approval,
waits for capacity, is executed by a goroutine that outlives its HTTP request,
may be stopped from several places, and is recorded in SQLite rows that a
restart has to make sense of.  This directory models that machinery, checks it
with TLC and proves part of it with TLAPS.

Paths below are relative to the repository (`service.go` is
`src/internal/service/service.go`, `server.go` is
`src/internal/httpapi/server.go`, `runtime.go` is
`src/internal/agent/runtime.go`).  `PROJECT.json` maps every definition to the
lines it stands for.

## 1. Inventory

| Component | State | Operations | Hard behaviour | What makes it correct |
|---|---|---|---|---|
| Approval and execution (`service.go`, `store.go`) | rows `runs`, `approvals`; `executionCancels`, `executionCancelled`, `executionClosed` | `Submit`, `awaitApproval`, `execute`, `Approve`, `ApproveAsync`, `Reject`, `RejectPendingApprovalsForSession`, `Shutdown`, recovery | two HTTP handlers, a CLI process, a stop request and a task decide at once; two rows, written separately; host edited meanwhile | at most one execution, only as decided, on the bound connection; rows agree; a stop reaches what runs; what was approved ends |
| Background tasks (`service.go`) | map `s.tasks`, row `tasks` | `StartTask`, its goroutine, `trackApprovalTask`, `CancelTask`, recovery | rows written from snapshots after an unlock; cancel against approve | CancelTask leaves its approval decided and reaches an execution of this process; the row never claims too much; the task ends |
| Execution capacity (`service.go`) | `globalSem`, one semaphore per host | `acquire`, its release function | two hosts per transfer; cancelled half-way | no leak, no excess, no deadlock |
| Chat sessions (`chat_queue.go`, `server.go`, `runtime.go`) | queue per conversation, `Runtime.active` | chat, queue, steer, stop, compress, delete | a message is queued while the driver finishes; stop and steer between two turns | one turn at a time; no accepted message is lost; a stop ends the driver; a steering request reaches the turn it finds |
| Tool scopes and tool call journal (`tool_execution_scope.go`, `chat_tool_calls.go`) | scopes, `chat_tool_calls` rows | start, bind to a run, finish, recover | four writers of one row; a scope outlives its turn | each call gets one final result, the one that happened |
| Execution events (`execution_events.go`) | owners, subscriber channels | register, publish, subscribe | a full channel blocks the publisher | the terminal event is last and reaches every subscriber |
| Approval explanations, automatic review (`service.go`, `reviewer.go`) | explanation slots and cancels | start, register, clear, write | ready after the decision; cancelled before registered | nothing is written after the decision |
| SSH tunnels (`tunnels.go`) | tunnel states, rows | start, stop, update with rollback, reconnect | stop during a reconnect; an update that fails | a stopped tunnel stays stopped; a failed update restores the old one |
| Shells and terminals (`shells.go`, `workspace_pty.go`) | shell states, journal | start, write, close, recover | limits counted apart from the start; several reasons to close | limits hold; one closing reason |
| SFTP pool (`sftp_pool.go`) | entries, references, idle timer | acquire, release, close | connecting, stale and expiring entries shared | one connection per key; none leaks |
| SSH transport (`internal/sshx`) | connections | run, copy, dial through jumps | network failure | its outcomes are inputs to the execution model |
| MCP clients and OAuth (`mcp.go`, `mcp_oauth.go`) | runtime states, flows | connect, call, OAuth | a flow is replaced or cleared while it completes | saved headers are not overwritten by older ones; no session is forgotten open |
| MCP server (`mcpserver`) | none | protocol adapter | - | it never waits for an approval |
| Persistence (`internal/store`) | SQLite tables | rows, transactions, conditional updates | several processes on one file | the conditional updates the other parts rely on |
| Hosts and SSH binding (`service.go`, `ssh.go`) | host rows | create, edit, delete, bind, verify | an edit between bind and connect | `verifySSHRequestBinding` |
| Workspace, files (`workspace.go`, `files.go`, `sftp.go`) | files | read, edit, save, upload, transfer, delete | a second writer, a power loss, byte offsets | an edit is the approved one and, on this host, survives a power loss once reported |
| Models, proxies, skills, configuration (`service.go`, `configuration.go`, `skills/registry.go`) | rows, directories | save, select, delete, import, reload | check-then-write without a lock; renames that fail half-way | a reload never installs older rows than the ones it was asked for; an import is in place as a whole, or undone after one failure |
| Web search (`websearch.go`) | flights, a semaphore, settings | search, fetch | a shared request outlives its callers | answers are one's own; slots come back |
| Agent context, model calls (`context.go`, `context_summarization.go`, `runtime.go`) | transcript rows, summaries, what a turn streamed | rebuild, summarize, prune, stream, retry | text is shown before it is known what it is | a run is told, once, the history that fits the budget; what is shown is stored |
| HTTP API, WebSockets (`chat_events.go`, `application_websocket.go`) | subscribers, cursors | stream, snapshot, reconnect | from replay to live | a console misses nothing |
| Commands, redaction, crypto | none | pure functions | - | - |
| Observability (`logging.go`) | files, a ring of entries | write, rotate, archive, page | renames that fail; reading while rotating | the latest records, in order |
| Command line, web client | - | - | the CLI approves in a process of its own | modelled where they decide or follow |

How they interact.  An HTTP chat request makes a driver (`Server.chat`), which
runs turns of `agent.Runtime`; a tool call in a turn is a `Service.Submit`, which
either executes at once or writes an approval and blocks in `awaitApproval`.
Approve and reject requests, a stop request (`cancelChat`: cancel the turn, clear
the queue, cancel the conversation's executions and reject its pending approvals)
and `CancelTask` come from other HTTP handlers; `ops-agent approve` is another
process on the same database file.  An approved run becomes a goroutine in the
registry `executionCancels`.  Every execution passes `acquire` before it reaches a
host.  A background task is one `Submit` in a goroutine of its own, which
afterwards polls the approval.

The hazards these interactions bring, each at its line, are listed in
`PROJECT.json`, with the properties that would catch them.

## 2. Modules

| Module | Models | Composes with |
|---|---|---|
| `ApprovalPromise` | the abstract service: a request is decided once, performed at most once after that, recorded once | - |
| `ApprovalExecution` | `Submit`, `awaitApproval`, `execute`, approve/reject/stop, the registry, shutdown, crash | implements `ApprovalPromise` |
| `BackgroundTask` | `StartTask`, `trackApprovalTask`, `CancelTask`, recovery | with what a task observes of `ApprovalExecution` |
| `ExecutionCapacity` | `acquire` and release; the inside of `ApprovalExecution`'s `AcquireCapacity` | - |
| `ChatSession` | the message queue, the driver, turns, steering, stop, compression | its turns are the callers of `Submit` |
| `Tunnel` | SSH tunnels: start, stop, update with rollback, reconnect, forwarded connections | the host rows |
| `ShellLifecycle`, `ShellJournal` | interactive shells: limits, start, close, resize, recovery; their events from the PTY to the row, a web terminal and the agent | a shell's worker writes the journal |
| `SFTPPool`, `NativeSSH` | the pooled connections of SFTP; one SSH call through its hops, with host keys, keepalives and cancellation | a pool entry is a connection of such a call |
| `ToolJournal` | execution scopes and the journal of tool calls | the rows of runs that `ApprovalExecution` writes |
| `ApprovalExplanation` | the model's opinion on a request, beside the decision | the decision of `ApprovalExecution` |
| `MCPClient`, `MCPActivity` | one external MCP server, its session and OAuth flows; calls of external MCP clients and the consoles that follow them | runs, as `ToolJournal` |
| `WebSearch`, `WebBudget` | shared requests to the search provider; cutting an answer to size | - |
| `ChatEvents` | the event stream of a conversation, its readers, and deletion | the driver of `ChatSession` |
| `ModelContext`, `AgentTurn` | what a model is told of a conversation; what a turn shows and stores | a turn of `ChatSession` |
| `FileCommit`, `FileText` | how a file is replaced; what is computed on its bytes | executions that edit |
| `Configuration`, `HostRegistry` | providers, settings, proxies and the runtime made from them; hosts and jump hosts, and importing them | the bindings of `ApprovalExecution` |
| `SkillRegistry`, `HistoryPages`, `LogFiles`, `LogFeed` | skills as directories; tables read by cursor; log files; the page of recent entries | - |
| `MCRemote`, `MCAgent`, `MCData` | compose the modules above for the runs `remote`, `agent`, `data` | instances of them |
| `X_proofs` | theorems about `X` and their proofs | extends `X` |
| `MCRemote_proofs`, `MCConnections_proofs` | theorems about `Tunnel`, `ShellLifecycle` and `ShellJournal`; `SFTPPool` and `NativeSSH`; and what they give for the run `remote` | extend `MCRemote` |
| `MCAgent_proofs` | theorems about `ChatEvents`, `MCPActivity`, `AgentTurn`, `ToolJournal`, `ApprovalExplanation`, `WebSearch` and `MCPClient`, and what they give for the run `agent` | extends `MCAgent` |
| `MCData_proofs` | theorems about `FileCommit`, `SkillRegistry`, `Configuration` and `HostRegistry`, and what they give for the run `data` | extends `MCData` |
| other `MC*` | constants of the runs | extend the module of that name |

### ApprovalExecution

One identifier stands for a run and its approval (the schema makes
`approvals.run_id` unique).  `run` and `approval` are the two `status` columns;
`submit[r]` is where the Submit call is, `delivered[r]` what it answered;
`worker[r]` is where `execute` is, `via[r]` who drives it: Submit itself (`direct`:
full access, an operator's own request, or an automatic allow), the goroutine of
`startApprovedExecution` (`async`), or the `Approve` of the CLI (`sync`).
`cancels` and `markers` are `executionCancels` and `executionCancelled`, `closed`
is `executionClosed`; `ctxDone` are the contexts that ended.  A `handler` is a
goroutine that decides.

Every store call is one action, because other goroutines and the CLI's process
may act between two of them.  So `awaitApproval` reads the approval
(`AwaitReadApproval`) and then the run (`AwaitReadRun`); `Reject` decides
(`Reject`) and then records (`RecordRejection`); a stop request takes its
snapshot, cancels run by run, lists what is still pending and rejects that one by
one.  `ApprovePendingAndStartRun` is one transaction and one action
(`CommitApproval`).  What the code does under `executionMu` is one action
(`StartApproved` with its `Launch`, `CancelApprovedExecution`, `Shutdown`).

A caller's context may end at any time (`CallerGone`), and a store call made with
it may then fail; so may the write of a result (`PersistFails`), and where
`RepairMayFail` holds also the second write, of the error path.
A crash forgets the maps and goroutines and leaves the rows of runs and approvals as they
are: `RecoverInterruptedTasks` (`service.go:162`) closes rows of tasks, shells,
messages and tool calls, but not of runs, so one that was running says so for ever.
The CLI's process may be killed on its own (`CLIKilled`), with the same result.  A host is a version number: `EditHost` increases it,
`BindRequest` remembers it, `VerifyBinding` compares.

Abstracted: commands, output, truncation, audit rows, the automatic reviewer's
reasoning (its answer is one of direct, rejected or ask), credentials and jump
hosts.

### BackgroundTask

`mem` and `row` are the task's status in `s.tasks` and in its row; `live` are the
tasks in the map.  A row is always written from a `snapshot` taken under `taskMu`
and written after the unlock, in an action of its own (`WriteSnapshot`).
`CancelTask` is the chain `CancelTask` (delete from the map), `CancelContext`,
`CancelExecution` / `CancelCheck`, `CancelReject`, `CancelRecord`, `CancelWrite`.
The approval and execution behind a task are `ApprovalExecution` reduced to what
a task can see of them: the two statuses, whether an execution is registered, and
whether it was cancelled.  An operator approves through the API (`Approve`, then `Start`) or
by `ops-agent approval approve` (`ApproveElsewhere`), whose process executes itself:
the execution is `elsewhere`, where neither the registry nor a shutdown of the server reaches it, and
the process may be killed (`OperatorDies`), which leaves the run as it is: `lost` are the tasks
whose run nobody will finish.

### ExecutionCapacity

A semaphore is a buffered channel, modelled by its length; an operation takes the
global slot, then the slots of its hosts in ascending order (`NextHost`, for
`uniqueHostIDs`, which sorts), works, and releases; a cancelled context ends the
wait, and `GiveUp` and `Rollback` return what was taken.

### ChatSession

One conversation, since conversations share only maps.  `driver`, `items`,
`accepting` and `ctxDone` are the session's entry in `chatQueue.sessions`;
`active` is the holder of `Runtime.active`, a chat or a compression.  A message
is queued as a follow-up or as steering; `steerer[m]` is the rest of
`queueChatMessage` after its enqueue, which looks up the active turn
(`SteerMark`) and calls its `steerCancel` later (`SteerCall`), if it found one:
`aimed` are the messages whose lookup did.  A turn that registers its
`steerCancel` after it was marked cancels itself (`RegisterSteerCancel`).  `steered` says that the runner has been told; it stops at
its next safe point (`SafePoint`), which no fairness makes certain, since a tool call
may wait for an approval for ever.  A stop
first cancels (`CancelSession`), then clears the queue (`StopClear`).  `fate` follows
every accepted message: queued, taken by the driver, or discarded by a stop or an
error.

### What runs on hosts (`MCRemote`)

`Tunnel` numbers the `sshTunnelState`s ever made: an update makes a replacement, and
the registry, the operators and the workers refer to states by number, which is where
an old state can be mistaken for a new one.  `conn` are the connections that were
opened for a tunnel and who will close them.  `ShellLifecycle` keeps the status in memory, the
row and the session apart: each writer takes a copy of the shell under its mutex and
writes it afterwards.  `ShellJournal` is one shell: `log` is what happened, `queue` what
waits to be stored, `stored` the rows, and `web` and `agent` the two readers, each with a
cursor.  In `SFTPPool` an entry is put into the pool before it is connected, so callers find
it connecting (`ready` is its channel), stale or expiring.  `NativeSSH` follows one call
through its hops: what is open, which dial was abandoned, which key was presented,
scanned, confirmed and known.  Servers answer, are gone, or stall: they then answer keepalives and
nothing else (`servers`).  A request on the connection returns when they answer or the connection is
closed (`RequestReturns`), and an upload closes its file and its SFTP client by such requests
(`CloseSFTP`) before it closes the connection (`Close`).

### Around a turn (`MCAgent`)

`ToolJournal` gives each call a kind (a run, a background task, a plain tool), a goroutine
(`tool`), a row (`journal`) and what is known of it by the turn; `FinishChatToolCall` is a
read and a later write.  A publisher that meets a full channel waits, as the code
does.  `MCPClient` has one action per lock that is taken; `states` and `byServer` are the
two maps of OAuth flows, `sessions` the sessions not closed yet.  `ApprovalExplanation`
numbers the tasks of an approval: the first one, and one per retry.  In `WebSearch` a
flight has a key, a deadline and a slot, and callers come and go.  `ChatEvents` and
`MCPActivity` follow an event from its row to a reader's view, through bounded channels
that are closed (`ChatEvents`) when they are full.  In `AgentTurn` the outputs of the model are
numbered and a text is followed letter by letter only as far as the guard against a marker
looks; `rows` holds the rows of the turn and `view` the messages as a client has them that follows
the events.

### What is stored and shown (`MCData`)

In `FileCommit` a content is the set of the operations whose data it holds, so that a lost
change is a missing element; `target` is what the path shows, `durable` what a power
loss leaves.  `FileText` works on bytes, since that is what its properties are about:
a file is a sequence over two letters, CR, LF and one byte for the byte-order mark.
`Configuration` knows every write by a number and the runtime by the numbers it was
built from.  `HostRegistry` has requests that read the registry, decide, and write; `Scope` says what a
request may name, so that a run can look at one import of a long chain (`jumps`) and at several
short requests (`requests`).
`SkillRegistry` has one action per file system call, each of which may fail, the one that reads
a skill back for the answer included (`ReadBack`, `ReadBackFails`).  `HistoryPages`
compares times as the text they are stored as.  In `ModelContext` a text is the set of rows
it stands for, so a summary can be compared with what it replaced.

## 3. Runs

All runs set `CHECK_DEADLOCK FALSE`: when every call has returned, the system
stops.

| Run | Bounds | Shows |
|---|---|---|
| `approval` | 1 run, 2 handlers (symmetric), 1 edit, 1 crash, repair may fail | `TypeOK`, `ExecutedOnceAndOnlyIfAuthorized`, `DecisionGovernsRun`, `BindingHolds`, `LiveExecutionsRegistered`, `ApprovedCallCarriesResult`, `StopSettlesPending`, `FinalStatusStays`, `NothingStartsAfterShutdown`, and that the model implements `ApprovalPromise` (`KeepsPromise`) |
| `approval_liveness` | 1 background run, 2 handlers, no crash, repair succeeds, `FairSpec` | `ApprovedRunEnds`, `DecisionResumesCall` |
| `rejection_delivered` | 1 run, no crash | finding 1 |
| `tasks` | 1 task, 1 crash, `FairSpec` | `CancelReachesExecution`, `TaskAgreesWithRun`, `ActiveRowHasOwner`, `DecidedTaskEnds` |
| `cancelled_task` | 1 task, no crash | finding 2 |
| `chat` | 2 chat requests, 2 messages, `FairSpec` | `OneTurnAtATime`, `QueueOrdered`, `NoMessageLost`, `StoppedQueueStaysEmpty`, `StopEndsDriver`, `SteerReachesRunner` |
| `late_steer` | 1 chat request, 1 message | finding 3 |
| `capacity` | 3 operations, 2 hosts, 2 slots in all, 1 per host, `FairSpec` | `SlotsAccounted`, `CapacityRespected`, `WaitingEnds` |
| `remote` | 1 operator with 2 requests, 2 tunnels, 1 connection, 1 loss; 2 shells, limit 1, 1 client; 2 events in a batch of 2, 1 failed write, 2 readers; 3 callers of a pool, 2 entries; 2 hops, 2 keys, 2 calls | `TunnelsSafe`, `ShellsSafe`, `ReadersMissNothing`, `ConnectionsSafe`, `RemoteWorkEnds` |
| `agent` | 1 call of each kind, 2 turns, 1 crash or fault; 2 requests to a server, 1 refresh; 1 approval, 2 retries; 2 callers, 2 flights; 1 MCP call with 1 reconnect and 1 crash; 1 reader, 2 drivers of a stream; 2 outputs, 4 letters | `ToolCallsRecorded`, `OutsideCallsSafe`, `ExplanationsSafe`, `ClientsMissNothing`, `AgentWorkEnds` |
| `data` | 2 writers of a path, 1 power loss; files of 5 bytes; 2 providers, 2 requests; 3 hosts under 1 request, 2 under 2 that overlap; 3 rows; 2 skills, 1 fault, 1 crash; 6 records; 7 transcript rows; 3 web results | `ChangesAreWhole`, `ConfigurationSafe`, `ContextSafe`, `RecordsComplete` |
| `remote_edit` | as `data` | finding 4 |

`remote`, `agent` and `data` compose modules that share no variable.  Each behaviour of such a run
chooses, in `focus`, which module moves, and within it everything interleaves; two
modules that both moved would only add the product of states that cannot influence each
other.  Where modules do influence each other, the influence is inside one of them:
the run behind a tool call in `ToolJournal`, the host in `Tunnel`, the decision in `ApprovalExplanation`.  A property of these runs is the
conjunction of what the modules state, and each conjunct is commented where it is defined.

Why the bounds are enough.  Runs meet only in the registry, the capacity and a stop
request's list.  One run shows every interleaving of its own Submit, worker,
handlers, shutdown and crash; two handlers are the smallest number that compete;
one edit and one crash can fall between any two steps.  What several runs could
do to each other is covered by the proofs, which hold for any set of runs and
handlers, and by `ExecutionCapacity`.  Tasks share only the lock `taskMu`.  In a
conversation the second chat request is the one that can be refused or can take
over, two messages are what order and overtaking need, and a driver that clears
its queue meets both an empty and a full one.  Three operations on two hosts with
two global slots make the global semaphore, each host and two transfers in
opposite directions all be waited for at once.

In `remote`, an update needs two tunnel states, and one connection and one loss meet
every stage of them; two shells compete for one place.  A third caller of the
pool waits while one connects and one releases, and two hops have a first and a next.  In
`agent`, a second driver makes a stream that replaces one somebody still reads; two turns
make a tool outlive its own; a retry races the first explanation and the decision; two
requests to one MCP server are the number that conflict; one buffered place makes a
channel full; two outputs are a candidate and what shows that it was not the answer, and four letters hold a
marker in pieces with something before or after it.  In `data`, two writers are a change and the one that does not know of it;
five bytes hold two lines with either ending and a mark; three hosts make a chain with a
middle (`jumps`), which one request is enough to write, and two requests that overlap on two
hosts are a check and the write that outdates it (`requests`); three rows of two moments a page that ends inside a moment; two backups and
the file rotate through every name; seven transcript rows hold a summary, the turns it
preserves and one more, and with a budget of a few messages a turn that no longer fits, so that both sides
of `ToldAll` are met; three web results are a short one, a long one and one that is cut for both.  `MaxRetries`, `MaxEvents`, `MaxRecords`, `MaxRows`, `MaxChanges`, `MaxCalls`
and the like are bounds of the models and appear in guards of the action they bound;
`MaxActive`, `MaxBackups`, `Slots`, `PreserveTurns`, `HistoryBudget`, `Buffer` are limits of the code,
made small.

### Fairness

Weak fairness on the steps of goroutines that have been started: the Go scheduler
runs them, request and transport timeouts bound an execution, tickers tick, and a
handler that made its first write goes on to its second.  No fairness on what
clients and operators do, on contexts that end, on shutdown, crash or an edit.  A
turn is not assumed to end by itself, since it may wait for an approval for ever, nor to
reach a safe point once it is steered (`requestAgentSteer` has no timeout and waits for the current
tool calls): only a cancelled context ends it.  `ApprovedRunEnds` and
`DecisionResumesCall` assume that the process lives and that the store takes the
write of the error path; without this the run would stay `running`, also after the next
restart, since the recovery leaves runs alone.  `DecidedTaskEnds` excepts the tasks whose
run was `lost` with the process of a command line.

In the composed runs: goroutines of tunnels, shells, tools, executors and requests go
on; idle and persist timers fire; a web flight and an SSH call have a deadline (a shell
session has none, and is not assumed to end), and a keepalive closes a connection whose
server is gone.  A server that stalls need not go on: `CallsReturn` excepts the two places where
nothing ends a request to it (`HeldByStall`: opening a session, and closing an upload's file).  No fairness on operators, servers, losses, faults, crashes or what the
other side of a connection sends.

### Findings

1. `rejection_delivered`.  `Reject` decides the approval and updates the run in
   two calls; `awaitApproval` (`service.go:1833`), polling between them, sees
   `rejected` and returns the run's status as it is, `approval_required`.
   `service_test.go:1707` demands `rejected`.
2. `cancelled_task`.  The task's goroutine writes a copy it took before
   `CancelTask` after it (`service.go:2430`, also 2445, 2508): the row of a
   cancelled task says `running`, and no goroutine is left to correct it before
   the next restart.
3. `late_steer`.  A steering message is queued before `SteerSession` is called
   (`server.go:1830`); when the driver takes it in between, the call ends the
   message's own turn.

4. `remote_edit`.  The script that edits a file on a host (`files.go:468`) deletes the
   byte-order mark together with the only line of a file that has no final newline;
   the comment at `files.go:263` says it stays, and the edit of a Workspace file keeps it.

Divergences met while modelling and not made a run of their own.  Those with a name are
defined, as properties that no run checks, at the end of the module, where the code
breaks them:

- `docs/architecture.md:103` gives a chat turn a 30-minute limit; `newChatRunContext`
  (`server.go:1775`) sets no deadline.
- `ChatEvents.ActiveIsNotDeleted` (`architecture.md:103`): a chat may begin between the check
  and the deletion of its conversation; `NobodyWaitsForNothing`: its readers then follow a
  stream nobody publishes to.
- `BackgroundTask.CancelledTaskStopsExecuting`: an execution goes on although its task was cancelled, if
  it runs in the process of `ops-agent approval approve` (`main.go:447`), where `CancelTask` leaves
  only a marker, or if the operator approved before the task had recorded its approval, whose goroutine
  then ignores that its `Reject` fails (`service.go:2434`).
- `NativeSSH.HeldByStall`: when an upload's time is over, `transfer` closes the remote file (`native.go:401`)
  before the connection, and waits for the answer of a server that may have stalled; requests that open a
  session (`native.go:290`) do not look at the context either.
- `ToolJournal.TerminalStatusStays` (`chat_tool_calls_test.go:92`): two writers both find a
  call open.  A background call whose process ends while its run waits for approval
  stays `running` for one more restart.
- `ShellLifecycle.EndedRowIsFinal` (`shells_test.go:711`): close and resize write an older copy of the row.
  `ShellJournal.ResumeIsServed` (`architecture.md:65`).
- `Tunnel.HostOutlivesTunnel` (`tunnels.go:34`).  A forwarded connection that cannot be tracked
  leaves its inbound side open; two concurrent updates both start a replacement.
- `MCPClient.DisabledServerHasNoSession` (`architecture.md:43`): a flow installs its session after the server
  was disabled.  A flow or a token refresh that read before `ClearMCPOAuth` stores the old
  authorization again when the address did not change hands in between.
- `MCPActivity.RowHasTheRunsStatus`: `FinishMCPToolCall` overwrites what the run recorded.
- `Configuration.SelectedProviderExists` (`architecture.md:143`) and `ReferencedProxyExists`
  (`architecture.md:153`): the check and the write are two statements.  `RuntimeProviderExists`: a delete that
  read the provider as inactive (`service.go:899`) commits after another request activated it, reloaded and
  was answered, and is answered without a reload (`server.go:1267`): the runtime goes on with a deleted provider.
- `HostRegistry`: `SaveHost` does not look for loops (`README.md:63` says they are refused);
  `resolveHost` does, when it connects.  `DeleteHost` races `SaveHost`.
- `ApprovalExplanation.WorkStopsAtDecision` (`service.go:1449`): an explanation that registers after the decision
  works on, and its run's review stays pending.
- `HistoryPages.LowerBoundIsInclusive`: RFC3339Nano text drops trailing zeros and is compared as text.
- `LogFiles.ArchiveIsComplete` (`guide.md:242`): a rotation between listing and opening.  A rename of the
  active file that fails ends logging to the file until the next restart.
- `FileCommit`: after a rename, a failed sync of the directory is reported as "the target file was not
  changed"; the check before the rename and the rename are two calls, which `ChangesSurvive` admits.
- `ModelContext`: the code's budget is 512 KiB and replays tool messages where `architecture.md:133`
  says 256 KiB and none; turns beyond the budget are forgotten when a summary passes them.
- `SkillRegistry`: a second failure during the rollback loses the old skill; an import over a
  disabled skill enables it.  When the skill cannot be read back (`registry.go:119`, 142, 213, 509), an import,
  a save or a switch is answered with an error although it is in place.  A process that ends during an
  import leaves skills in the directories they were moved to, and nothing moves them back.
- `WebSearch`: a caller that joins late inherits a nearly spent deadline.

## 4. Proofs

The theorems hold for every value of the constants that satisfies the modules' ASSUMEs:
any number of runs, handlers, operations, hosts, tasks, messages, callers, connections, hops,
clients, tunnels and shells.  The assumptions are `CapacityBounds` and its like in the module that
declares the constants; those added for proofs say only what the code fixes: what is counted is
finite and a limit is a number (`PoolBounds`, `HopBounds`, `StreamBounds`, `ShellBounds`, `JournalBounds`,
`ExplanationBounds`, `SearchBounds`, `SkillBounds`, `TurnBounds`: a marker is not the empty text), and that a value which stands for something missing or
unset is no identifier: `None` no tunnel (`TunnelBounds`), provider or request (`ConfigurationBounds`) and no host (`HostBounds`), 0
no turn (`CallBounds`), "none" no console's request (`ClientBounds`), and the marks of a file's contents no
operations (`CommitBounds`).  `HostBounds` also says that hosts have different names, as the store
demands.  They stand in `MCRemote`, `MCAgent` and `MCData`, which TLC evaluates.

| Module | Theorem | States |
|---|---|---|
| `ApprovalExecution_proofs` | `Invariance`, `Calls` | the inductive invariants `IInv`, and `CallsInv` on top of it |
| | `Typing` | `[]TypeOK` |
| | `ExecutedOnce` | `[]ExecutedOnceAndOnlyIfAuthorized` |
| | `RowsConsistent` | `[]DecisionGovernsRun` |
| | `Binding` | `[]BindingHolds` |
| | `Registered` | `[]LiveExecutionsRegistered` |
| | `StopSettles` | `[]StopSettlesPending` |
| | `CallCarriesResult` | `[]ApprovedCallCarriesResult` |
| | `FinalStays`, `ShutdownShrinks` | the action properties `FinalStatusStays`, `NothingStartsAfterShutdown` |
| | `PromiseKept` | `KeepsPromise`: the safety part of the refinement of `ApprovalPromise` |
| `ExecutionCapacity_proofs` | `Accounting` | `[]IInv` |
| | `Typing`, `NoSlotLeaks`, `LimitsHold` | `[]TypeOK`, `[]SlotsAccounted`, `[]CapacityRespected` |
| `BackgroundTask_proofs` | `Invariance` | `[]IInv` |
| | `CancelReaches`, `RowsTellTheTruth`, `ActiveRowsOwned` | `[]CancelReachesExecution`, `[]TaskAgreesWithRun`, `[]ActiveRowHasOwner` |
| `ChatSession_proofs` | `Invariance` | `[]IInv` |
| | `OneTurn`, `Ordered`, `NothingLost`, `StopsEmpty` | `[]OneTurnAtATime`, `[]QueueOrdered`, `[]NoMessageLost`, `[]StoppedQueueStaysEmpty` |
| | `SteeringReaches` | `[]SteerReachesRunner` |
| `MCRemote_proofs` | `TunnelsKeepClosed`, `ShellsKeepLimits` | `TunnelsSafe`, `ShellsSafe`: the invariants and the action properties of `Tunnel` and `ShellLifecycle` |
| | `JournalInvariance` | `[]J!IInv`: the inductive invariant of `ShellJournal` |
| | `ReadersStayInformed` | `[]ReadersMissNothing`: `NoEventLost`, `TerminalHasNoGap`, `AgentMissesNothing` |
| `MCConnections_proofs` | `PoolInvariance`, `CallInvariance` | `[]P!IInv`, `[]N!IInv`: the inductive invariants of `SFTPPool` and `NativeSSH` |
| | `ConnectionsStaySafe` | `[]ConnectionsSafe`: `UsersKeepConnection`, `NoConnectionLost`, `ReturnsClosed`, `OnlyConfirmedHosts` |
| `MCAgent_proofs` | `ChatInvariance`, `ActivityInvariance`, `TurnInvariance` | the inductive invariants of `ChatEvents`, `MCPActivity` and `AgentTurn` |
| | `ConsolesMissNothing` | `[]ClientsMissNothing`: `SubscribersMissNothing`, `HandOffIsSeamless`, `ToldIsStored`, `RunningIsServed`, `ShownIsStored`, `NothingInternalIsShown`, `AnsweredMeansAnswer` |
| | `ToolCallInvariance` | `[]T!IInv`: the inductive invariant of `ToolJournal` |
| | `CallsAreRecorded` | `[]ToolCallsRecorded`: `SettlementSparesRunningCalls`, `JournalAgreesWithRun`, `BackgroundRowIsOfTheCall`, `ScopeLivesWithTools` |
| | `ExplanationInvariance`, `SearchInvariance`, `ClientInvariance` | the inductive invariants of `ApprovalExplanation`, `WebSearch` and `MCPClient` |
| | `ExplanationsStaySafe` | `ExplanationsSafe`: `LimitsHold`, `WorkCanBeCancelled`, `NoRetryOutlivesDecision`, and the action property `LateReviewsAreDropped` |
| | `OutsideCallsStaySafe` | `[]OutsideCallsSafe`: `SavedSecretsStay`, `NoSessionForgotten`, `CallbacksReachFlows`, `OneFlightPerRequest`, `AnswersAreOwn`, `SlotsComeBack`, `EnabledHasKey` |
| `MCData_proofs` | `CommitInvariance`, `SkillInvariance`, `ConfigurationInvariance`, `HostInvariance` | the inductive invariants of `FileCommit`, `SkillRegistry`, `Configuration` and `HostRegistry` |
| | `ChangesStayWhole` | `[]ChangesAreWhole`: `ChangesSurvive`, `ReportedChangesAreDurable`, `ImportsAreWhole`, `NoSkillIsLost`, `ListsAreConsistent` |
| | `ConfigurationStaysSafe` | `ConfigurationSafe`: the invariants of `Configuration` and `HostRegistry`, and the action properties `ReferencedProxyStays`, `ImportBreaksNoHost`, `ImportedReferencesExist` |

**`ApprovalExecution`.**  That a run is executed once is not
inductive: nothing in it says that nobody else is about to start the run.
`IInv` adds what the code relies on between two steps of a handler.
`SubmitInv`: a run that is not created yet has no approval and no worker.
`WorkerInv`: a run has a worker exactly if it has a route, the worker of an
approved route has an approval, the transport is reached from `ready` only and
then on the bound connection, and until its result is written the run is
`running`, so no result overwrites a final status.  `HandlerInv`: between the
commit of an approval and the start of its worker the run is running and has no
worker.  `HandlersApart`: at most one handler is there for a run, since
`CommitApproval` needs a pending approval and leaves an approved one.  `StopInv`: what a
stop request has struck off its list has been decided, which with "a decision is
never withdrawn" gives `StopSettlesPending`.  Each action preserves each conjunct it can
disturb by one step of the proof; the six invariants are then conjuncts of `IInv` or follow
from `WorkerInv`.  `CallInv` says what an answered call carries while its run still moves,
and `EffectInv` which outcomes are possible once the transport was or was not reached.  With
them each action is shown to be a step of `ApprovalPromise` or to leave its three variables
alone, action by action, which is the refinement.

**`ExecutionCapacity`.**  `SlotsAccounted` says that a semaphore's
length is the cardinality of the set of operations that hold it, plus those about to
give it back; every action changes the length and the set by the same element.
`HeldInv` says that an operation holds only what it asked for and nothing while
it is idle.  The limits follow from `TypeOK`, which bounds the lengths, because
the operations that work are among those that hold.

**`BackgroundTask`.**  A row is written from a copy, so what has to be kept is what every copy may
say: `RowsInv` relates copies to the approval and the run of their task, `StageInv` the stages
of the tracker and of the canceller to what they have already done, `OwnerInv` an active row to
the goroutine that will finish it, and `ReportInv` the last report to the decision.  An execution
elsewhere is approved, and no copy claims its end before its run does, whether it ends or is lost.

**`ChatSession`.**  `QueueInv`: the queue has no message twice, each queued message's fate is
`queued`, and messages are accepted only while a driver is there that has not been stopped.
Ordering is kept because a new message is put behind all of its kind (`Position`); the proof
is about the sequence that an insertion or a removal leaves.  `SteerInv`: whoever is aimed at a turn
holds its cancel function and is about to call it, which with the look of a turn that registers gives
`SteerReachesRunner`.

**`SFTPPool`.**  `LeaseInv` says who may hold which entry in which place, `EntryInv` how the
count, the client, the timer and the pool of an entry go together; the count is the cardinality
of the users, and each caller's step changes both by one.  An idle timer that fired before its
entry was shared again finds users, which is where `UsersKeepConnection` is decided.

**`NativeSSH`.**  `CallInv` gives, for each phase of a call, exactly what is open; `DialInv` does so
for a dial that was abandoned and may still connect; `TrustInv` says that a key is accepted, or
stored, only if the operator confirmed it.  By induction over steps, not over hops: the phases
speak of the hops before the present one.  An upload that waits for its file to close still
has everything open, which is what the phase `closing_sftp` adds.

**`ChatEvents`.**  `StreamInv`: the buffered events of a stream are numbered from one without a gap
(`Number`).  `CursorInv`: for each client the replay and the channel continue where its cursor
stands, and reach the last event while the channel is open.  Delivering, being cut off, replacing a
stream and coming back each keep it.

**`MCPActivity`.**  `CallInv`: a row follows its handler, and one that no handler serves is not
running while the process lives.  What a console believes may lag behind the row and a snapshot
may be newer than the events still queued, so no single event says anything; `FeedInv` says that the
last event in the channel about a call, or the view if there is none, is what is stored, for every
call whose handler has nothing left to tell.  Publishing puts the new last event, reading takes
the first, a snapshot makes the view true without touching the order, and a crash closes
the socket (`SocketInv`).

**`AgentTurn`.**  `StreamInv`: as long as no marker has come, what has come is what is shown followed by what
the guard holds back, and a marker can have begun only in the latter (`GuardReady`); a chunk keeps this
(`GuardKeeps`), because what is held back is the longest end that may begin a marker, whatever the markers are
and wherever the chunks are cut.  `ViewInv`: what is open on a screen is the stream or the candidate, so
taking that back leaves nothing open (`ResetsClose`).  `CandidateInv`: the candidate is shown as it is and is newer
than every row, so storing it keeps the order.  `RowsInv`: only the last row can be an answer.  Every
action then is one of three: it closes what is open (`ClosingKeeps`), stores what it shows
(`StoringKeeps`), or leaves a candidate (`KeepingKeeps`).

**`ToolJournal`.**  Four writers decide by reading a row and write later, so what has to be kept is
what each may have decided: `PendingInv` says so for every decision that is on its way, and needs
`ListInv` (what the settlement found belongs to its turn and, once it has looked who works, nobody
works on it, nor ever will again) and `ResultInv` (a call that returned while its run was undecided
did so because its turn was stopped).  `RowInv` is then what the rows may say, `TurnInv` and
`CallInv` tie calls and scopes to their turns.  The proof showed that an earlier
`JournalAgreesWithRun` asked for less than holds, and that a turn can fail between the read and the
write of its own event loop only by being cancelled; both are stated so now.

**`Tunnel`.**  `OpInv`: a tunnel that is being opened belongs to one operator, and what is
registered or being stopped has been published.  `WorkerInv`: in which places of its worker a
tunnel can have a current runtime, an open one, an accepting one.  `ConnInv`: a connection that
is handled belongs to the last runtime of its tunnel, whose worker has not left it behind.  Then
the end of a worker leaves nothing, and `AttemptOpens`, which makes a new runtime, meets no
handler of the old one.

**`ShellLifecycle`.**  The limits are on sessions, and the code counts statuses in the
registry.  `HeldInv` closes the gap: every shell that is being started or served (`Held`) is
registered with an active status, whatever copy a close or a failed journal wrote; `RoomInv`
gives `Held` the limits, since only a start adds to it, where there was room.  `ClientInv` keeps
late writers off the rows of a process that is gone.

**`ShellJournal`.**  `OrderInv`: what is stored followed by what waits is `1 .. n` in order, so a
batch that is written, or kept after a failure, loses nothing and a list from
the rows has no hole.  `WebInv`: a terminal's channel ascends, and unless it overflowed it holds every
output that its list will not give it (it has subscribed before it lists) or, once live, did not.  `AgentInv`:
what the agent skips ends at an input of its own, and a page starts where nothing is missed
before it.  The largest such input exists because the rows are finite (`LargestNumber`).

**`ApprovalExplanation`.**  A slot is given back by the goroutine that holds it, so `HoldersInv` says
who holds which; the limits are cardinalities of these finite sets (`CountsInv`).  That no retry outlives
a decision is not inductive, since a retry may have read the approval before it: `RetriesStop` starts at
the step in which a retry erases the old review, and rests on `WorkCanBeCancelled` (a decision finds
what is registered) and on `DecisionsAreFinal`.

**`WebSearch`.**  `WaitersInv`: whoever waits waits for a flight in the air with its own key, from which
`AnswersAreOwn` follows when the flight lands; a leader is elected only where no flight has the key
(`OneFlightPerRequest`).  `HoldersInv` ties the slots to the flights that are at the provider.

**`MCPClient`.**  Four handlers write the stored secrets from what they read.  `WriterInv` says what
`mcpSecretsMu` is for: whoever is about to write holds it and has read the headers that were saved last.
`RequestInv` says which places belong to which request, and `FlowInv` that a state which can be called back
is that of a flow on its way, the server's own or a cancelled one.

**`FileCommit`.**  `SeenInv`: what a change that may still commit would replace it has seen, or came since it
looked; so what is lost is known to who replaced it (`ChangesSurvive`).  `SyncedInv` and `EntryInv` follow the
bytes and the directory entry of what is at the path to the disk, or to the operation that is about to sync
them.  Preparing this proof, TLC with four writers refuted an earlier `ChangesSurvive`, whose record of
what came since an operation looked began one step late; the property now counts from the look.

**`SkillRegistry`.**  An import goes through its skills one by one and a roll-back goes back, so `ImportInv`
speaks of the place it has reached: before it the skills are `Placed`, behind it `Kept`, and the one at
hand is one or the other or moved aside; `StagedInv` says what lies in the two scratch directories for
each.  `ChangeInv` ties the place to the kind of change, `WriteInv` says what a save shows before it
wrote, and `LockInv` that nobody lists meanwhile.  `ImportInv` is about imports of which at most one call
has failed, since a second one loses what the roll-back would need.

**`Configuration`.**  Writes have numbers.  `LockInv`: one request reloads at a time.  `ReadInv`: what a
reload has read includes its own write and whatever had been answered before, so what it installs does; that
is `ReloadedWritesAreInstalled`.  `ReviewersInv` and `DetectionInv` admit the one step in which the reviewers lag
behind, and only the present revision's detections.

**`HostRegistry`.**  `HasRows`: what a request is about to write has a host and can log in.  `HasChain`: a
chain of jump hosts that is being read repeats none and is not too long.  `Validated`: the graph of
an import stays accepted as long as no row was written since it was read.  An accepted graph is said
with a recursive function (`Walk`, as the code walks from host to host with a set of those it has
seen), so the proof needs that a walk exists, that each of its steps is an edge, and that it ends without
meeting a host twice exactly if it is a chain (`HostWalk`, `ChainsDoNotRepeat`, `HostAccepted`).

Induction.  The library states induction with an operator parameter, which the provers cannot
instantiate.  The well-founded order of finite sets is stated with sets, and from it follow
that a set of numbers has a smallest member (`Smallest`), that what holds for 0 and goes on holds in a
range (`Induction`), and that a function defined by its first value and a step exists (`Recursion`).
`MCData_proofs` proves the three and uses them for walks over hosts, `MCAgent_proofs` the first for the place
of the first marker in a text.

The theorems about `remote`, `agent` and `data` are about the composition: a step of it is a step of one
component and leaves the others' variables alone, or changes nothing, and each component may be
the one that moves, so nothing is lost to the composition.

The inductive invariants were checked by TLC as invariants before they were proved.

Only model-checked: all liveness (it needs ENABLED), and two invariants of `data`, `ContextSafe` and
`RecordsComplete`.  What these say is about results of recursion over texts, pages, files and
messages (`FileText`, `HistoryPages`, `LogFiles`, `LogFeed`, `ModelContext`, `WebBudget`): what folds and
recursive functions return for every input would have to be proved by induction over that data,
for each of them.

## 5. Not modelled

Of the modelled components: deletion of hosts with their tasks, deletion of runs, a
conversation's Workspace and title; sudo elevation and redaction of shell output; starting and
closing all MCP servers at once, and the tools they offer; proxies in imports; local
Workspaces as hosts.  Outside: the HTTP routes, authentication and serialization, SQL row
mapping and migrations, validation and normalization of requests and commands, schemas
and texts of the agent's tools, prompts, catalogues of model metadata and probing of model
servers, archives and path checks of Workspaces, the sandbox, encryption, and the web
console's presentation: each is a function of its input with no state another part
reads, or the work of a third-party library.

## 6. Plan

Left to prove: `ContextSafe` and `RecordsComplete`, one module at a time.  The pages of `HistoryPages` and the tails
of `LogFeed` come first, since their recursion is over one sequence and `Induction` serves; the folds of
`ModelContext` and `WebBudget` need lemmas about the community modules' folds, and `FileText` works on bytes.
Left to model: the deletion of a conversation against a chat that begins
(`ChatEvents.ActiveIsNotDeleted` states it, and the code does not keep it), and what section 5 lists.
