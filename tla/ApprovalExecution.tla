------------------------- MODULE ApprovalExecution -------------------------
(***************************************************************************)
(* The approval and execution state machine of service.Service.           *)
(*                                                                         *)
(* A Submit call binds its request to the host's SSH connection, writes a  *)
(* run and, where the approval mode asks for one, an approval, and either  *)
(* executes at once, returns, or polls until the operator has decided.     *)
(* HTTP handlers and the local CLI approve, reject and stop; an approved   *)
(* run is executed by a goroutine registered in executionCancels.          *)
(*                                                                         *)
(* A run and its approval are indexed by the same identifier: the schema   *)
(* makes approvals.run_id unique.  Each store call is one step; the steps  *)
(* of a handler that the code takes without a lock are separate actions.   *)
(* A caller's context may end at any time, so every store call made with   *)
(* it may fail.                                                            *)
(***************************************************************************)
EXTENDS Naturals, FiniteSets

CONSTANTS
    Runs,            \* one identifier per Submit call
    Handlers,        \* goroutines that decide: HTTP requests and CLI calls
    SessionRuns,     \* the runs of the conversation a stop request names
    BackgroundRuns,  \* the runs whose tool arguments say background
    MaxEdits,        \* bound: how often the operator edits the host
    MaxCrashes,      \* bound: how often the server process dies
    RepairMayFail    \* whether the store may refuse the error path's write, too

ASSUME RunSetsAssumption == Runs # {} /\ SessionRuns \subseteq Runs /\ BackgroundRuns \subseteq Runs
ASSUME BoundsAssumption  == MaxEdits \in Nat /\ MaxCrashes \in Nat /\ RepairMayFail \in BOOLEAN

FinalStatus  == {"completed", "partial", "failed", "interrupted", "rejected"}
RunStatus    == {"absent", "approval_required", "running"} \cup FinalStatus
ApprovalStatus == {"absent", "pending", "approved", "rejected"}
\* run.Status of finishApprovedExecutionError's guard
Unfinished   == {"approval_required", "running"}

SubmitPC  == {"idle", "bound", "created", "waiting", "saw_approved", "saw_rejected",
              "executing", "returned"}
WorkerPC  == {"none", "acquire", "verify", "ready", "executing", "persist",
              "failing", "cleanup", "done"}
HandlerPC == {"idle", "approving", "starting", "aborting", "recording",
              "stop_snapshot", "stop_cancel", "stop_reject", "stop_record"}
\* who drives execute(): Submit itself, startApprovedExecution, or Approve
Route     == {"none", "direct", "async", "sync"}
Versions  == 0 .. MaxEdits
NoVersion == MaxEdits + 1

VARIABLES
    run, approval,                        \* the SQLite rows
    submit, bound, delivered,             \* the Submit calls
    worker, via, outcome, conn, effects,  \* execute() of each run
    cancels, markers, ctxDone, closed,    \* the execution registry
    handler, settled,                     \* the deciding goroutines
    hostVersion, crashes                  \* the environment

rowVars      == <<run, approval>>
submitVars   == <<submit, bound, delivered>>
workerVars   == <<worker, via, outcome, conn, effects>>
registryVars == <<cancels, markers, ctxDone, closed>>
handlerVars  == <<handler, settled>>
envVars      == <<hostVersion, crashes>>
vars == <<rowVars, submitVars, workerVars, registryVars, handlerVars, envVars>>

IdleHandler == [pc |-> "idle", run |-> CHOOSE r \in Runs : TRUE, mode |-> "async",
                todo |-> {}, covers |-> {}]

HandlerState == [pc : HandlerPC, run : Runs, mode : {"async", "sync"},
                 todo : SUBSET Runs, covers : SUBSET Runs]

Init ==
    /\ run = [r \in Runs |-> "absent"]
    /\ approval = [r \in Runs |-> "absent"]
    /\ submit = [r \in Runs |-> "idle"]
    /\ bound = [r \in Runs |-> NoVersion]
    /\ delivered = [r \in Runs |-> "none"]
    /\ worker = [r \in Runs |-> "none"]
    /\ via = [r \in Runs |-> "none"]
    /\ outcome = [r \in Runs |-> "none"]
    /\ conn = [r \in Runs |-> NoVersion]
    /\ effects = [r \in Runs |-> 0]
    /\ cancels = {} /\ markers = {} /\ ctxDone = {} /\ closed = FALSE
    /\ handler = [h \in Handlers |-> IdleHandler]
    /\ settled = {}
    /\ hostVersion = 0 /\ crashes = 0

-----------------------------------------------------------------------------
(* Submit *)

\* The request is validated and bound to the connection the host has now; the
\* automatic reviewer, which may take minutes, runs after this.
BindRequest(r) ==
    /\ submit[r] = "idle"
    /\ submit' = [submit EXCEPT ![r] = "bound"]
    /\ bound' = [bound EXCEPT ![r] = hostVersion]
    /\ UNCHANGED <<rowVars, delivered, workerVars, registryVars, handlerVars, envVars>>

Return(r, status) ==
    /\ submit' = [submit EXCEPT ![r] = "returned"]
    /\ delivered' = [delivered EXCEPT ![r] = status]
    /\ UNCHANGED bound

\* Full access, an operator's own request, or an automatic allow.
SubmitDirect(r) ==
    /\ submit[r] = "bound"
    /\ run' = [run EXCEPT ![r] = "running"]
    /\ submit' = [submit EXCEPT ![r] = "executing"]
    /\ worker' = [worker EXCEPT ![r] = "acquire"]
    /\ via' = [via EXCEPT ![r] = "direct"]
    /\ UNCHANGED <<approval, bound, delivered, outcome, conn, effects, registryVars,
                   handlerVars, envVars>>

SubmitAutoRejected(r) ==
    /\ submit[r] = "bound"
    /\ run' = [run EXCEPT ![r] = "rejected"]
    /\ Return(r, "rejected")
    /\ UNCHANGED <<approval, workerVars, registryVars, handlerVars, envVars>>

SubmitCreateRun(r) ==
    /\ submit[r] = "bound"
    /\ run' = [run EXCEPT ![r] = "approval_required"]
    /\ submit' = [submit EXCEPT ![r] = "created"]
    /\ UNCHANGED <<approval, bound, delivered, workerVars, registryVars, handlerVars, envVars>>

\* An Agent's tool call waits; CLI, MCP and plain HTTP callers are told that an
\* approval is required.
SubmitCreateApproval(r) ==
    /\ submit[r] = "created"
    /\ approval' = [approval EXCEPT ![r] = "pending"]
    /\ \/ submit' = [submit EXCEPT ![r] = "waiting"] /\ UNCHANGED <<bound, delivered>>
       \/ Return(r, "told_to_wait")
    /\ UNCHANGED <<run, workerVars, registryVars, handlerVars, envVars>>

\* A store error or the caller's context: a run already written stays behind.
SubmitFails(r) ==
    /\ submit[r] \in {"bound", "created"}
    /\ Return(r, "error")
    /\ UNCHANGED <<rowVars, workerVars, registryVars, handlerVars, envVars>>

-----------------------------------------------------------------------------
(* awaitApproval: the approval is read first, the run after it *)

\* Mutant: the poller looks only for an approval.
AwaitOnlyApproved(r) ==
    /\ submit[r] = "waiting" /\ approval[r] = "approved"
    /\ submit' = [submit EXCEPT ![r] = "saw_approved"]
    /\ UNCHANGED <<rowVars, bound, delivered, workerVars, registryVars, handlerVars, envVars>>

AwaitReadApproval(r) ==
    /\ submit[r] = "waiting"
    /\ \/ approval[r] = "approved" /\ submit' = [submit EXCEPT ![r] = "saw_approved"]
       \/ approval[r] = "rejected" /\ submit' = [submit EXCEPT ![r] = "saw_rejected"]
    /\ UNCHANGED <<rowVars, bound, delivered, workerVars, registryVars, handlerVars, envVars>>

\* Mutant: the poller returns as soon as the approval is decided.
AwaitNotFinal(r) ==
    /\ submit[r] \in {"saw_approved", "saw_rejected"}
    /\ Return(r, run[r])
    /\ UNCHANGED <<rowVars, workerVars, registryVars, handlerVars, envVars>>

AwaitReadRun(r) ==
    /\ \/ submit[r] = "saw_rejected" /\ Return(r, run[r])
       \/ submit[r] = "saw_approved" /\ run[r] \in FinalStatus /\ Return(r, run[r])
       \/ /\ submit[r] = "saw_approved" /\ run[r] \in Unfinished
          /\ submit' = [submit EXCEPT ![r] = "waiting"]
          /\ UNCHANGED <<bound, delivered>>
    /\ UNCHANGED <<rowVars, workerVars, registryVars, handlerVars, envVars>>

AwaitCancelled(r) ==
    /\ submit[r] = "waiting"
    /\ Return(r, "error")
    /\ UNCHANGED <<rowVars, workerVars, registryVars, handlerVars, envVars>>

DirectReturns(r) ==
    /\ submit[r] = "executing"
    /\ worker[r] = "done"
    /\ Return(r, outcome[r])
    /\ UNCHANGED <<rowVars, workerVars, registryVars, handlerVars, envVars>>

-----------------------------------------------------------------------------
(* execute, executeApproved and finishApprovedExecutionError *)

\* The context of execute(): a direct call has its caller's, a registered one
\* its own, cancelled through the registry or by shutdown.
ExecCancelled(r) == r \in ctxDone \/ (via[r] = "async" /\ closed)

\* Mutant: nobody repairs the run of a failed execution.
NeverRepaired(r) == IF via[r] = "none" THEN "failing" ELSE "cleanup"

\* Only executeApproved repairs the run when execute() returns an error.
AfterError(r) == IF via[r] = "direct" THEN "cleanup" ELSE "failing"

WorkerStep(r, from, to) ==
    /\ worker[r] = from
    /\ worker' = [worker EXCEPT ![r] = to]
    /\ UNCHANGED <<via, approval, submitVars, handlerVars, envVars>>

\* Local preparation, or the binding and credentials after the capacity was
\* acquired: the failed status is written with the call's own context and the
\* write's error is ignored.
FailBeforeTransport(r) ==
    /\ \E from \in {"acquire", "verify"} : WorkerStep(r, from, AfterError(r))
    /\ \/ run' = [run EXCEPT ![r] = "failed"]
       \/ UNCHANGED run
    /\ \/ outcome' = [outcome EXCEPT ![r] = "failed"]
       \/ ExecCancelled(r) /\ outcome' = [outcome EXCEPT ![r] = "interrupted"]
    /\ UNCHANGED <<conn, effects, registryVars>>

AcquireCapacity(r) ==
    /\ WorkerStep(r, "acquire", "verify")
    /\ UNCHANGED <<run, outcome, conn, effects, registryVars>>

\* acquire() gave up: execute() returns without touching the run.
AcquireCancelled(r) ==
    /\ ExecCancelled(r)
    /\ WorkerStep(r, "acquire", AfterError(r))
    /\ outcome' = [outcome EXCEPT ![r] = "interrupted"]
    /\ UNCHANGED <<run, conn, effects, registryVars>>

\* Mutant: the connection is resolved but not compared with the binding.
ResolveUnverified(r) ==
    /\ WorkerStep(r, "verify", "ready")
    /\ conn' = [conn EXCEPT ![r] = hostVersion]
    /\ UNCHANGED <<run, outcome, effects, registryVars>>

\* resolveSSHConnection and verifySSHRequestBinding, under the capacity.
VerifyBinding(r) ==
    /\ hostVersion = bound[r]
    /\ WorkerStep(r, "verify", "ready")
    /\ conn' = [conn EXCEPT ![r] = hostVersion]
    /\ UNCHANGED <<run, outcome, effects, registryVars>>

CallTransport(r) ==
    /\ WorkerStep(r, "ready", "executing")
    /\ effects' = [effects EXCEPT ![r] = @ + 1]
    /\ UNCHANGED <<run, outcome, conn, registryVars>>

\* Mutant: a transport status no reader of the row knows.
TransportTimesOut(r) ==
    /\ WorkerStep(r, "executing", "persist")
    /\ outcome' = [outcome EXCEPT ![r] = "timeout"]
    /\ UNCHANGED <<run, conn, effects, registryVars>>

TransportReturns(r) ==
    /\ WorkerStep(r, "executing", "persist")
    /\ \E status \in {"completed", "partial", "failed", "interrupted"} :
          outcome' = [outcome EXCEPT ![r] = status]
    /\ UNCHANGED <<run, conn, effects, registryVars>>

\* recover() in the goroutine of startApprovedExecution
WorkerPanics(r) ==
    /\ via[r] = "async"
    /\ WorkerStep(r, "executing", "failing")
    /\ outcome' = [outcome EXCEPT ![r] = "failed"]
    /\ UNCHANGED <<run, conn, effects, registryVars>>

\* Written with a context that outlives the cancellation; a transport error is
\* then returned too, a non-zero exit code is not.
PersistResult(r) ==
    /\ run' = [run EXCEPT ![r] = outcome[r]]
    /\ \/ outcome[r] \in {"failed", "interrupted"} /\ WorkerStep(r, "persist", AfterError(r))
       \/ outcome[r] # "interrupted" /\ WorkerStep(r, "persist", "cleanup")
    /\ UNCHANGED <<outcome, conn, effects, registryVars>>

PersistFails(r) ==
    /\ WorkerStep(r, "persist", AfterError(r))
    /\ outcome' = [outcome EXCEPT ![r] = "failed"]
    /\ UNCHANGED <<run, conn, effects, registryVars>>

\* Mutant: the error path overwrites whatever is recorded.
AlwaysRecorded(status, cause) == IF status = cause THEN status ELSE cause

\* finishApprovedExecutionError: what it leaves in the run's row.  Nobody else
\* writes that row between its read and its write.
ErrorRecorded(status, cause) == IF status \in Unfinished THEN cause ELSE status

RecordError(r) ==
    \/ run' = [run EXCEPT ![r] = ErrorRecorded(run[r], outcome[r])]
    \/ RepairMayFail /\ UNCHANGED run

FinishError(r) ==
    /\ WorkerStep(r, "failing", "cleanup")
    /\ RecordError(r)
    /\ UNCHANGED <<outcome, conn, effects, registryVars>>

WorkerEnds(r) ==
    /\ WorkerStep(r, "cleanup", "done")
    /\ IF via[r] = "async"
         THEN cancels' = cancels \ {r} /\ markers' = markers \ {r}
         ELSE UNCHANGED <<cancels, markers>>
    /\ UNCHANGED <<run, outcome, conn, effects, ctxDone, closed>>

\* Mutant: a cancelled execution is struck off the registry at once.
CancelAndForget(r) ==
    /\ ctxDone' = ctxDone \cup {r}
    /\ cancels' = cancels \ {r}
    /\ UNCHANGED <<markers, closed>>

\* cancelApprovedExecution: cancel what is registered, else leave a marker
CancelApprovedExecution(r) ==
    /\ IF r \in cancels
         THEN ctxDone' = ctxDone \cup {r} /\ UNCHANGED markers
         ELSE markers' = markers \cup {r} /\ UNCHANGED ctxDone
    /\ UNCHANGED <<cancels, closed>>

\* CancelTask of a background task whose approval is no longer pending
\* (BackgroundTask models the whole operation).
CancelTaskExecution(r) ==
    /\ r \in BackgroundRuns
    /\ approval[r] \in {"approved", "rejected"}
    /\ CancelApprovedExecution(r)
    /\ UNCHANGED <<rowVars, submitVars, workerVars, handlerVars, envVars>>

\* The caller of a direct execution goes away: a stopped conversation, a
\* deadline, a closed connection.
CallerGone(r) ==
    /\ via[r] = "direct"
    /\ worker[r] # "done"
    /\ ctxDone' = ctxDone \cup {r}
    /\ UNCHANGED <<rowVars, submitVars, workerVars, cancels, markers, closed, handlerVars, envVars>>

-----------------------------------------------------------------------------
(* Approve and ApproveAsync *)

HandlerMoves(h, pc) == handler' = [handler EXCEPT ![h].pc = pc]

BeginApprove(h, r, mode) ==
    /\ handler[h].pc = "idle"
    /\ approval[r] = "pending"
    /\ handler' = [handler EXCEPT ![h] = [IdleHandler EXCEPT !.pc = "approving", !.run = r, !.mode = mode]]
    /\ UNCHANGED <<rowVars, submitVars, workerVars, registryVars, settled, envVars>>

\* Mutants: the transaction does not look at the run, or not at the approval.
ApprovableTwice(r) == approval[r] \in {"pending", "approved"}
ApprovableByRun(r) == run[r] = "approval_required"

\* store.ApprovePendingAndStartRun: one transaction over both rows
Approvable(r) == approval[r] = "pending" /\ run[r] = "approval_required"

CommitApproval(h) ==
    /\ handler[h].pc = "approving"
    /\ Approvable(handler[h].run)
    /\ approval' = [approval EXCEPT ![handler[h].run] = "approved"]
    /\ run' = [run EXCEPT ![handler[h].run] = "running"]
    /\ HandlerMoves(h, "starting")
    /\ UNCHANGED <<submitVars, workerVars, registryVars, settled, envVars>>

\* Decided by someone else, a payload whose digest differs, a deleted host, or
\* the request's context.
ApprovalFails(h) ==
    /\ handler[h].pc = "approving"
    /\ HandlerMoves(h, "idle")
    /\ UNCHANGED <<rowVars, submitVars, workerVars, registryVars, settled, envVars>>

Starts(h, mode) ==
    /\ handler[h].pc = "starting"
    /\ handler[h].mode = mode

Launch(r, route) ==
    /\ worker' = [worker EXCEPT ![r] = "acquire"]
    /\ via' = [via EXCEPT ![r] = route]
    /\ UNCHANGED <<outcome, conn, effects>>

\* Mutant: executionClosed is not consulted.
StartAlthoughClosed(h) ==
    LET r == handler[h].run IN
    /\ Starts(h, "async")
    /\ r \notin markers
    /\ cancels' = cancels \cup {r}
    /\ Launch(r, "async")
    /\ HandlerMoves(h, "idle")
    /\ UNCHANGED <<rowVars, submitVars, markers, ctxDone, closed, settled, envVars>>

StartApproved(h) ==
    LET r == handler[h].run IN
    /\ Starts(h, "async")
    /\ ~closed
    /\ r \notin markers
    /\ cancels' = cancels \cup {r}
    /\ Launch(r, "async")
    /\ HandlerMoves(h, "idle")
    /\ UNCHANGED <<rowVars, submitVars, markers, ctxDone, closed, settled, envVars>>

\* Shutting down, or cancelled before it could start.
StartRefused(h) ==
    LET r == handler[h].run IN
    /\ Starts(h, "async")
    /\ \/ closed /\ outcome' = [outcome EXCEPT ![r] = "failed"] /\ UNCHANGED markers
       \/ /\ ~closed /\ r \in markers
          /\ markers' = markers \ {r}
          /\ outcome' = [outcome EXCEPT ![r] = "interrupted"]
    /\ HandlerMoves(h, "aborting")
    /\ UNCHANGED <<rowVars, submitVars, worker, via, conn, effects, cancels, ctxDone, closed,
                   settled, envVars>>

AbortStart(h) ==
    LET r == handler[h].run IN
    /\ handler[h].pc = "aborting"
    /\ RecordError(r)
    /\ HandlerMoves(h, "idle")
    /\ UNCHANGED <<approval, submitVars, workerVars, registryVars, settled, envVars>>

\* Approve executes in the caller's goroutine and registers nothing.
StartSync(h) ==
    /\ Starts(h, "sync")
    /\ Launch(handler[h].run, "sync")
    /\ HandlerMoves(h, "idle")
    /\ UNCHANGED <<rowVars, submitVars, registryVars, settled, envVars>>

-----------------------------------------------------------------------------
(* Reject *)

\* Mutant: the update has no status='pending'.
RejectAnytime(r) ==
    /\ approval[r] # "absent"
    /\ approval' = [approval EXCEPT ![r] = "rejected"]

\* store.DecideApproval
DecideRejection(r) ==
    /\ approval[r] = "pending"
    /\ approval' = [approval EXCEPT ![r] = "rejected"]

Reject(h, r) ==
    /\ handler[h].pc = "idle"
    /\ DecideRejection(r)
    /\ handler' = [handler EXCEPT ![h] = [IdleHandler EXCEPT !.pc = "recording", !.run = r]]
    /\ UNCHANGED <<run, submitVars, workerVars, registryVars, settled, envVars>>

\* The run's row follows in a call of its own, which may fail.
RecordRejection(h) ==
    /\ \/ handler[h].pc = "recording" /\ HandlerMoves(h, "idle")
       \/ handler[h].pc = "stop_record" /\ HandlerMoves(h, "stop_reject")
    /\ \/ run' = [run EXCEPT ![handler[h].run] = "rejected"]
       \/ UNCHANGED run
    /\ UNCHANGED <<approval, submitVars, workerVars, registryVars, settled, envVars>>

-----------------------------------------------------------------------------
(* cancelChatSession: stop the executions of a conversation, then reject its *)
(* pending approvals                                                         *)

StopBegin(h) ==
    /\ handler[h].pc = "idle"
    /\ handler' = [handler EXCEPT ![h] = [IdleHandler EXCEPT !.pc = "stop_snapshot",
                       !.covers = {r \in SessionRuns : approval[r] = "pending"}]]
    /\ UNCHANGED <<rowVars, submitVars, workerVars, registryVars, settled, envVars>>

StopSnapshot(h) ==
    /\ handler[h].pc = "stop_snapshot"
    /\ handler' = [handler EXCEPT ![h].pc = "stop_cancel",
                       ![h].todo = (cancels \cap SessionRuns) \ BackgroundRuns]
    /\ UNCHANGED <<rowVars, submitVars, workerVars, registryVars, settled, envVars>>

StopCancelOne(h) ==
    /\ handler[h].pc = "stop_cancel"
    /\ \E r \in handler[h].todo :
          /\ CancelApprovedExecution(r)
          /\ handler' = [handler EXCEPT ![h].todo = @ \ {r}]
    /\ UNCHANGED <<rowVars, submitVars, workerVars, settled, envVars>>

StopListPending(h) ==
    /\ handler[h].pc = "stop_cancel"
    /\ handler[h].todo = {}
    /\ handler' = [handler EXCEPT ![h].pc = "stop_reject",
                       ![h].todo = {r \in SessionRuns : approval[r] = "pending"}]
    /\ UNCHANGED <<rowVars, submitVars, workerVars, registryVars, settled, envVars>>

\* An approval somebody else decided meanwhile is passed over.
StopRejectOne(h) ==
    /\ handler[h].pc = "stop_reject"
    /\ \E r \in handler[h].todo :
          \/ /\ DecideRejection(r)
             /\ handler' = [handler EXCEPT ![h].pc = "stop_record", ![h].run = r, ![h].todo = @ \ {r}]
          \/ /\ approval[r] # "pending"
             /\ handler' = [handler EXCEPT ![h].todo = @ \ {r}]
             /\ UNCHANGED approval
    /\ UNCHANGED <<run, submitVars, workerVars, registryVars, settled, envVars>>

StopFails(h) ==
    /\ handler[h].pc \in {"stop_snapshot", "stop_cancel", "stop_reject"}
    /\ HandlerMoves(h, "idle")
    /\ UNCHANGED <<rowVars, submitVars, workerVars, registryVars, settled, envVars>>

\* Mutant: the request is answered before the list is worked off.
StopDoneEarly(h) ==
    /\ handler[h].pc = "stop_reject"
    /\ settled' = settled \cup handler[h].covers
    /\ HandlerMoves(h, "idle")
    /\ UNCHANGED <<rowVars, submitVars, workerVars, registryVars, envVars>>

\* settled remembers which approvals the answered stop requests covered.
StopDone(h) ==
    /\ handler[h].pc = "stop_reject"
    /\ handler[h].todo = {}
    /\ settled' = settled \cup handler[h].covers
    /\ HandlerMoves(h, "idle")
    /\ UNCHANGED <<rowVars, submitVars, workerVars, registryVars, envVars>>

-----------------------------------------------------------------------------
(* The environment *)

EditHost ==
    /\ hostVersion < MaxEdits
    /\ hostVersion' = hostVersion + 1
    /\ UNCHANGED <<rowVars, submitVars, workerVars, registryVars, handlerVars, crashes>>

Shutdown ==
    /\ ~closed
    /\ closed' = TRUE
    /\ UNCHANGED <<rowVars, submitVars, workerVars, cancels, markers, ctxDone, handlerVars, envVars>>

\* The server process dies and starts again: the rows stay, and
\* RecoverInterruptedTasks repairs neither runs nor approvals.  A CLI approval
\* is another process and goes on.
Crash ==
    /\ crashes < MaxCrashes
    /\ crashes' = crashes + 1
    /\ submit' = [r \in Runs |-> IF submit[r] = "idle" THEN "idle" ELSE "returned"]
    /\ delivered' = [r \in Runs |-> IF submit[r] \in {"idle", "returned"}
                                      THEN delivered[r] ELSE "error"]
    /\ worker' = [r \in Runs |-> IF worker[r] = "none" \/ via[r] = "sync"
                                   THEN worker[r] ELSE "done"]
    /\ handler' = [h \in Handlers |->
                     IF handler[h].mode = "sync" /\ handler[h].pc \in {"approving", "starting"}
                       THEN handler[h] ELSE IdleHandler]
    /\ cancels' = {} /\ markers' = {} /\ ctxDone' = {} /\ closed' = FALSE
    /\ UNCHANGED <<rowVars, bound, via, outcome, conn, effects, settled, hostVersion>>

\* The CLI process is killed while it executes.
CLIKilled(r) ==
    /\ crashes < MaxCrashes
    /\ crashes' = crashes + 1
    /\ via[r] = "sync" /\ worker[r] # "done"
    /\ worker' = [worker EXCEPT ![r] = "done"]
    /\ UNCHANGED <<rowVars, submitVars, via, outcome, conn, effects, registryVars,
                   handlerVars, hostVersion>>

-----------------------------------------------------------------------------
SubmitStep(r) ==
    \/ BindRequest(r) \/ SubmitDirect(r) \/ SubmitAutoRejected(r)
    \/ SubmitCreateRun(r) \/ SubmitCreateApproval(r) \/ SubmitFails(r)
    \/ AwaitReadApproval(r) \/ AwaitReadRun(r) \/ DirectReturns(r)

ExecuteStep(r) ==
    \/ FailBeforeTransport(r) \/ AcquireCapacity(r) \/ AcquireCancelled(r)
    \/ VerifyBinding(r) \/ CallTransport(r) \/ TransportReturns(r) \/ WorkerPanics(r)
    \/ PersistResult(r) \/ PersistFails(r) \/ FinishError(r) \/ WorkerEnds(r)

DecideStep(h) ==
    \/ CommitApproval(h) \/ ApprovalFails(h) \/ StartApproved(h) \/ StartRefused(h)
    \/ AbortStart(h) \/ StartSync(h) \/ RecordRejection(h)
    \/ StopSnapshot(h) \/ StopCancelOne(h) \/ StopListPending(h) \/ StopRejectOne(h)
    \/ StopFails(h) \/ StopDone(h)

Request(h) ==
    \/ \E r \in Runs, mode \in {"async", "sync"} : BeginApprove(h, r, mode)
    \/ \E r \in Runs : Reject(h, r)
    \/ StopBegin(h)

Environment ==
    \/ EditHost \/ Shutdown \/ Crash
    \/ \E r \in Runs :
         AwaitCancelled(r) \/ CallerGone(r) \/ CancelTaskExecution(r) \/ CLIKilled(r)

Next ==
    \/ \E r \in Runs : SubmitStep(r) \/ ExecuteStep(r)
    \/ \E h \in Handlers : DecideStep(h) \/ Request(h)
    \/ Environment

Spec == Init /\ [][Next]_vars

\* Goroutines are scheduled, request timeouts bound the transport, and the
\* pollers tick: every started step is eventually taken.
Fairness ==
    /\ \A r \in Runs : WF_vars(SubmitStep(r)) /\ WF_vars(ExecuteStep(r))
    /\ \A h \in Handlers : WF_vars(DecideStep(h))

FairSpec == Spec /\ Fairness

-----------------------------------------------------------------------------
(* Properties *)

TypeOK ==
    /\ run \in [Runs -> RunStatus]
    /\ approval \in [Runs -> ApprovalStatus]
    /\ submit \in [Runs -> SubmitPC]
    /\ bound \in [Runs -> Versions \cup {NoVersion}]
    /\ delivered \in [Runs -> RunStatus \cup {"none", "told_to_wait", "error"}]
    /\ worker \in [Runs -> WorkerPC]
    /\ via \in [Runs -> Route]
    /\ outcome \in [Runs -> FinalStatus \cup {"none"}]
    /\ conn \in [Runs -> Versions \cup {NoVersion}]
    /\ effects \in [Runs -> Nat]
    /\ cancels \subseteq Runs /\ markers \subseteq Runs /\ ctxDone \subseteq Runs
    /\ closed \in BOOLEAN
    /\ handler \in [Handlers -> HandlerState]
    /\ settled \subseteq Runs
    /\ hostVersion \in Versions /\ crashes \in 0 .. MaxCrashes

\* What reaches the transport was approved, or never needed an approval, and
\* reaches it once, whatever handlers, CLI calls and restarts compete for it
\* (store.ApprovePendingAndStartRun, Service.execute).
ExecutedOnceAndOnlyIfAuthorized ==
    \A r \in Runs :
        /\ effects[r] \in {0, 1}
        /\ effects[r] = 1 => approval[r] = "approved" \/ via[r] = "direct"
        /\ via[r] = "direct" => approval[r] = "absent"

RowsAgree(r) ==
    /\ approval[r] = "pending" => run[r] = "approval_required"
    /\ approval[r] = "approved" =>
          run[r] \in {"running", "completed", "partial", "failed", "interrupted"}
    /\ approval[r] = "rejected" => run[r] \in {"approval_required", "rejected"}

\* The run's row and its approval's row never tell different stories: an
\* undecided run has not moved, an approved one is past the wait, and a
\* rejected one never runs, although three code paths write the two rows.
DecisionGovernsRun == \A r \in Runs : RowsAgree(r)

\* The connection handed to the transport is the one the approved request was
\* bound to, although the operator may edit the host at any moment
\* (verifySSHRequestBinding under the acquired capacity).
BindingHolds ==
    \A r \in Runs : effects[r] > 0 => conn[r] = bound[r]

\* A status recorded as final is never overwritten: not by the error path that
\* runs after a result was persisted, nor by a late rejection.
FinalStatusStays ==
    [][\A r \in Runs : run[r] \in FinalStatus => run'[r] = run[r]]_vars

\* Every live goroutine of startApprovedExecution can be found by a stop
\* request, and nothing else is registered.
LiveExecutionsRegistered ==
    cancels = {r \in Runs : via[r] = "async" /\ worker[r] # "done"}

\* Once the service is closed no execution is registered any more, so Shutdown
\* waits for a set of goroutines that only shrinks.
NothingStartsAfterShutdown ==
    [][closed /\ closed' => cancels' \subseteq cancels]_vars

\* A tool call that resumes after an approval carries the final status of its
\* run, not an intermediate one (awaitApproval reads two rows).
ApprovedCallCarriesResult ==
    \A r \in Runs :
        submit[r] = "returned" /\ approval[r] = "approved" /\ delivered[r] \in RunStatus
            => delivered[r] \in FinalStatus /\ delivered[r] = run[r]

\* When a stop request is answered, every approval that was pending in its
\* conversation when it arrived has been decided, even where another handler
\* decided it first (RejectPendingApprovalsForSession).
StopSettlesPending ==
    \A r \in settled : approval[r] \in {"approved", "rejected"}

\* An approved run ends, whether it runs, is cancelled before or after it
\* starts, waits for capacity, loses the write of its result or meets a
\* shutdown, as long as the process lives and the store takes the second write
\* (finishApprovedExecutionError repairs what execute() left).
ApprovedRunEnds ==
    \A r \in Runs : approval[r] = "approved" ~> run[r] \in FinalStatus

\* A waiting tool call is resumed after the decision.
DecisionResumesCall ==
    \A r \in Runs :
        (submit[r] = "waiting" /\ approval[r] \in {"approved", "rejected"})
            ~> submit[r] = "returned"

\* TestBlockingApprovalReturnsRejectedOperatorInstructionToTool: a rejected
\* tool call resumes with status "rejected".
RejectionReachesTool ==
    \A r \in Runs :
        submit[r] = "returned" /\ approval[r] = "rejected" /\ delivered[r] \in RunStatus
            => delivered[r] = "rejected"

-----------------------------------------------------------------------------
(* The inductive invariant: what the code relies on without writing it down *)

Decided(r) == approval[r] \in {"approved", "rejected"}

\* A request that is still being bound has no row and no worker.
SubmitInv(r) ==
    /\ submit[r] \in {"idle", "bound"} => run[r] = "absent"
    /\ submit[r] = "created" => run[r] = "approval_required"
    /\ submit[r] \in {"idle", "bound", "created"} => approval[r] = "absent" /\ via[r] = "none"

\* A run has a worker exactly when it has a route; before the transport is
\* called it had no effect, and until its result is written it is running.
WorkerInv(r) ==
    /\ via[r] = "none" <=> worker[r] = "none"
    /\ via[r] = "direct" => approval[r] = "absent"
    /\ via[r] \in {"async", "sync"} => approval[r] = "approved"
    /\ effects[r] \in {0, 1}
    /\ worker[r] \in {"none", "acquire", "verify", "ready"} => effects[r] = 0
    /\ worker[r] = "ready" \/ effects[r] > 0 => conn[r] = bound[r]
    /\ worker[r] \in {"acquire", "verify", "ready", "executing", "persist"} => run[r] = "running"
    /\ worker[r] = "persist" => outcome[r] \in {"completed", "partial", "failed", "interrupted"}
    /\ worker[r] = "failing" => outcome[r] \in {"failed", "interrupted"}

\* Between its commit and the start of the worker a handler is alone with its
\* run; a handler that writes a rejection has decided it.
HandlerInv(h) ==
    LET r == handler[h].run IN
    /\ handler[h].pc \in {"starting", "aborting"} =>
          approval[r] = "approved" /\ run[r] = "running" /\ worker[r] = "none"
    /\ handler[h].pc = "aborting" => outcome[r] \in {"failed", "interrupted"}
    /\ handler[h].pc \in {"recording", "stop_record"} => approval[r] = "rejected"

HandlersApart ==
    \A g, h \in Handlers :
        /\ handler[g].pc \in {"starting", "aborting"}
        /\ handler[h].pc \in {"starting", "aborting"}
        /\ handler[g].run = handler[h].run
        => g = h

\* What a stop request covers has an approval, and what it has struck off its
\* list is decided.
StopInv(h) ==
    /\ handler[h].pc \in {"stop_snapshot", "stop_cancel", "stop_reject", "stop_record"} =>
          \A r \in handler[h].covers : r \in SessionRuns /\ approval[r] # "absent"
    /\ handler[h].pc \in {"stop_reject", "stop_record"} =>
          \A r \in handler[h].covers : r \in handler[h].todo \/ Decided(r)

IInv ==
    /\ TypeOK
    /\ \A r \in Runs : SubmitInv(r) /\ WorkerInv(r)
    /\ \A h \in Handlers : HandlerInv(h) /\ StopInv(h)
    /\ HandlersApart
    /\ DecisionGovernsRun
    /\ LiveExecutionsRegistered
    /\ StopSettlesPending

\* What an awaiting call has seen stays true, and a status it was given is not
\* that of a run whose approval is still to be decided.
CallInv(r) ==
    /\ submit[r] = "executing" => via[r] = "direct"
    /\ submit[r] = "saw_approved" => approval[r] = "approved"
    /\ submit[r] = "saw_rejected" => approval[r] = "rejected"
    /\ submit[r] = "returned" /\ delivered[r] \in RunStatus => approval[r] # "pending"

\* A result is written only of what was performed, and a direct run is past the
\* wait from its first row on.
EffectInv(r) ==
    /\ worker[r] \in {"executing", "persist"} => effects[r] = 1
    /\ via[r] = "direct" => run[r] \notin {"absent", "approval_required", "rejected"}

-----------------------------------------------------------------------------
(* The promise kept *)

decisionOf ==
    [r \in Runs |->
        CASE approval[r] = "pending"  -> "waiting"
          [] approval[r] = "approved" \/ via[r] = "direct" -> "granted"
          [] approval[r] = "rejected" \/ run[r] = "rejected" -> "refused"
          [] OTHER -> "none"]
performedOf == {r \in Runs : effects[r] > 0}
recordOf    == [r \in Runs |-> IF run[r] \in FinalStatus THEN run[r] ELSE "open"]

Promise == INSTANCE ApprovalPromise
    WITH Requests <- Runs, decision <- decisionOf, performed <- performedOf, record <- recordOf

\* Service.Submit, Approve, Reject and execute keep the promise: a single
\* decision, a single execution after it, a single recorded outcome that
\* agrees with both.
KeepsPromise == Promise!PromiseSpec

=============================================================================
