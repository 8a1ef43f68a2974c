--------------------------- MODULE BackgroundTask ---------------------------
(***************************************************************************)
(* Background tasks of service.Service: StartTask, its goroutine,          *)
(* trackApprovalTask, CancelTask and the recovery after a restart.         *)
(*                                                                         *)
(* A task lives in the map s.tasks while its goroutine works and in a row  *)
(* of the tasks table for ever.  The map is guarded by taskMu; every row   *)
(* is written from a snapshot taken under taskMu, after it was unlocked.   *)
(* The approval and the execution behind a task are the ones of            *)
(* ApprovalExecution, reduced to what a task can observe of them; writes   *)
(* with context.Background() succeed here.                                 *)
(***************************************************************************)
EXTENDS Naturals

CONSTANTS
    Tasks,        \* one identifier per StartTask call
    MaxCrashes    \* bound: how often the server process dies

ASSUME TaskBounds == MaxCrashes \in Nat

RunFinal   == {"completed", "failed", "interrupted", "rejected"}
Active     == {"running", "approval_required"}
TaskStatus == {"absent", "cancelled"} \cup Active \cup RunFinal

\* The goroutine of StartTask, then of trackApprovalTask.
MainPC == {"idle", "stored", "submitting", "created", "executing", "write_output", "submitted",
           "asked", "reject", "record", "write_asked", "tracking", "seen", "write_tracked",
           "select", "write_final", "done"}
CancelPC == {"idle", "unlocked", "check", "reject", "record", "write", "done"}

VARIABLES
    live, mem, known,        \* s.tasks, state.task.Status, state.approvalID
    row,                     \* the tasks table
    main, snapshot, sawApproval,
    canceller,
    ctxDone,                 \* taskCtx
    approval, run, recording,    \* the rows, and a Reject between its two writes
    exec, execCancelled, markers,  \* startApprovedExecution and its registry
    closed, crashes,
    lost                     \* decided by a command line process that died on the way

taskVars   == <<live, mem, known, row>>
mainVars   == <<main, snapshot, sawApproval>>
rowVars    == <<approval, run, recording>>
execVars   == <<exec, execCancelled, markers>>
procVars   == <<closed, crashes, lost>>
vars == <<taskVars, mainVars, canceller, ctxDone, rowVars, execVars, procVars>>

Init ==
    /\ live = {} /\ known = {}
    /\ mem = [t \in Tasks |-> "absent"]
    /\ row = [t \in Tasks |-> "absent"]
    /\ main = [t \in Tasks |-> "idle"]
    /\ snapshot = [t \in Tasks |-> "absent"]
    /\ sawApproval = [t \in Tasks |-> "absent"]
    /\ canceller = [t \in Tasks |-> "idle"]
    /\ ctxDone = {}
    /\ approval = [t \in Tasks |-> "absent"]
    /\ run = [t \in Tasks |-> "absent"]
    /\ recording = {}
    /\ exec = [t \in Tasks |-> "none"]
    /\ execCancelled = {} /\ markers = {}
    /\ closed = FALSE /\ crashes = 0 /\ lost = {}

Goto(t, from, to) == main[t] = from /\ main' = [main EXCEPT ![t] = to]

\* state.task = ..., and the snapshot that is written after the unlock
Update(t, status, next) ==
    /\ mem' = [mem EXCEPT ![t] = status]
    /\ snapshot' = [snapshot EXCEPT ![t] = status]
    /\ main' = [main EXCEPT ![t] = next]

WriteSnapshot(t, from, to) ==
    /\ Goto(t, from, to)
    /\ row' = [row EXCEPT ![t] = snapshot[t]]
    /\ UNCHANGED <<live, mem, known, snapshot, sawApproval, canceller, ctxDone, rowVars, execVars, procVars>>

-----------------------------------------------------------------------------
(* StartTask and its goroutine *)

StartTask(t) ==
    /\ Goto(t, "idle", "stored")
    /\ row' = [row EXCEPT ![t] = "running"]
    /\ ctxDone' = IF closed THEN ctxDone \cup {t} ELSE ctxDone
    /\ UNCHANGED <<live, mem, known, snapshot, sawApproval, canceller, rowVars, execVars, procVars>>

Register(t) ==
    /\ Goto(t, "stored", "submitting")
    /\ live' = live \cup {t}
    /\ mem' = [mem EXCEPT ![t] = "running"]
    /\ UNCHANGED <<known, row, snapshot, sawApproval, canceller, ctxDone, rowVars, execVars, procVars>>

\* Service.submit with taskCtx: refused, executed at once, or made to wait for
\* an approval.  snapshot keeps the status it returned.
SubmitFails(t) ==
    /\ \/ Goto(t, "submitting", "submitted") /\ run' = run
       \/ Goto(t, "submitting", "submitted") /\ run' = [run EXCEPT ![t] = "rejected"]
       \/ Goto(t, "created", "submitted") /\ run' = run
    /\ snapshot' = [snapshot EXCEPT ![t] = IF run'[t] = "rejected" THEN "rejected" ELSE "failed"]
    /\ UNCHANGED <<taskVars, sawApproval, canceller, ctxDone, approval, recording, execVars, procVars>>

SubmitExecutes(t) ==
    /\ Goto(t, "submitting", "executing")
    /\ t \notin ctxDone
    /\ run' = [run EXCEPT ![t] = "running"]
    /\ UNCHANGED <<taskVars, snapshot, sawApproval, canceller, ctxDone, approval, recording, execVars, procVars>>

SubmitCreatesRun(t) ==
    /\ Goto(t, "submitting", "created")
    /\ t \notin ctxDone
    /\ run' = [run EXCEPT ![t] = "approval_required"]
    /\ UNCHANGED <<taskVars, snapshot, sawApproval, canceller, ctxDone, approval, recording, execVars, procVars>>

SubmitAsks(t) ==
    /\ Goto(t, "created", "asked")
    /\ t \notin ctxDone
    /\ approval' = [approval EXCEPT ![t] = "pending"]
    /\ UNCHANGED <<taskVars, snapshot, sawApproval, canceller, ctxDone, run, recording, execVars, procVars>>

\* The stream callback of a direct execution.
Output(t) ==
    /\ main[t] = "executing"
    /\ t \in live
    /\ Update(t, mem[t], "write_output")
    /\ UNCHANGED <<live, known, row, sawApproval, canceller, ctxDone, rowVars, execVars, procVars>>

WriteOutput(t) == WriteSnapshot(t, "write_output", "executing")

\* execute() returns; one that was cancelled while it waited for capacity
\* leaves its run as it is, and the task is failed.
DirectEnds(t) ==
    /\ Goto(t, "executing", "submitted")
    /\ \/ \E status \in {"completed", "failed", "interrupted"} :
             /\ status = "interrupted" => t \in ctxDone
             /\ run' = [run EXCEPT ![t] = status]
             /\ snapshot' = [snapshot EXCEPT ![t] = IF status = "completed" THEN status ELSE "failed"]
       \/ t \in ctxDone /\ UNCHANGED run /\ snapshot' = [snapshot EXCEPT ![t] = "failed"]
    /\ UNCHANGED <<taskVars, sawApproval, canceller, ctxDone, approval, recording, execVars, procVars>>

FinishTask(t) ==
    /\ main[t] = "submitted"
    /\ IF t \in live
         THEN /\ Update(t, snapshot[t], "write_final")
              /\ live' = live \ {t}
         ELSE /\ main' = [main EXCEPT ![t] = "done"]
              /\ UNCHANGED <<live, mem, snapshot>>
    /\ UNCHANGED <<known, row, sawApproval, canceller, ctxDone, rowVars, execVars, procVars>>

WriteFinal(t) == WriteSnapshot(t, "write_final", "done")

\* submit returned approval_required.
RecordApproval(t) ==
    /\ main[t] = "asked"
    /\ IF t \in live
         THEN Update(t, "approval_required", "write_asked") /\ known' = known \cup {t}
         ELSE main' = [main EXCEPT ![t] = "reject"] /\ UNCHANGED <<mem, snapshot, known>>
    /\ UNCHANGED <<live, row, sawApproval, canceller, ctxDone, rowVars, execVars, procVars>>

WriteAsked(t) == WriteSnapshot(t, "write_asked", "tracking")

\* store.DecideApproval
Decide(t) ==
    /\ approval[t] = "pending"
    /\ approval' = [approval EXCEPT ![t] = "rejected"]

\* The task was cancelled during submit: Reject, and ignore its error.
RejectOrphan(t) ==
    /\ main[t] = "reject"
    /\ \/ Decide(t) /\ main' = [main EXCEPT ![t] = "record"]
       \/ approval[t] # "pending" /\ main' = [main EXCEPT ![t] = "done"] /\ UNCHANGED approval
    /\ UNCHANGED <<taskVars, snapshot, sawApproval, canceller, ctxDone, run, recording, execVars, procVars>>

RecordOrphan(t) ==
    /\ Goto(t, "record", "done")
    /\ run' = [run EXCEPT ![t] = "rejected"]
    /\ UNCHANGED <<taskVars, snapshot, sawApproval, canceller, ctxDone, approval, recording, execVars, procVars>>

-----------------------------------------------------------------------------
(* trackApprovalTask: the approval is read first, the run after it *)

TrackApproval(t) ==
    /\ Goto(t, "tracking", "seen")
    /\ sawApproval' = [sawApproval EXCEPT ![t] = approval[t]]
    /\ UNCHANGED <<taskVars, snapshot, canceller, ctxDone, rowVars, execVars, procVars>>

\* Mutant: a decided approval decides the task's status.
StatusOfDecision(t) == IF sawApproval[t] = "rejected" THEN "rejected" ELSE run[t]

Tracked(t) == IF sawApproval[t] = "pending" THEN "approval_required" ELSE run[t]

TrackRun(t) ==
    LET status == Tracked(t) IN
    /\ main[t] = "seen"
    /\ \/ /\ t \notin live
          /\ main' = [main EXCEPT ![t] = "done"]
          /\ UNCHANGED <<live, mem, snapshot>>
       \/ /\ t \in live /\ status \in RunFinal
          /\ Update(t, status, "write_final")
          /\ live' = live \ {t}
       \/ /\ t \in live /\ status \notin RunFinal /\ mem[t] # status
          /\ Update(t, status, "write_tracked")
          /\ UNCHANGED live
       \/ /\ t \in live /\ status \notin RunFinal /\ mem[t] = status
          /\ main' = [main EXCEPT ![t] = "select"]
          /\ UNCHANGED <<live, mem, snapshot>>
    /\ UNCHANGED <<known, row, sawApproval, canceller, ctxDone, rowVars, execVars, procVars>>

WriteTracked(t) == WriteSnapshot(t, "write_tracked", "select")

\* Mutant: the polling stops with the decision.
TickWhilePending(t) ==
    /\ Goto(t, "select", "tracking")
    /\ sawApproval[t] = "pending"
    /\ UNCHANGED <<taskVars, snapshot, sawApproval, canceller, ctxDone, rowVars, execVars, procVars>>

TrackTick(t) ==
    /\ Goto(t, "select", "tracking")
    /\ UNCHANGED <<taskVars, snapshot, sawApproval, canceller, ctxDone, rowVars, execVars, procVars>>

TrackInterrupted(t) ==
    /\ main[t] = "select"
    /\ t \in ctxDone
    /\ IF t \in live
         THEN Update(t, "interrupted", "write_final") /\ live' = live \ {t}
         ELSE main' = [main EXCEPT ![t] = "done"] /\ UNCHANGED <<live, mem, snapshot>>
    /\ UNCHANGED <<known, row, sawApproval, canceller, ctxDone, rowVars, execVars, procVars>>

-----------------------------------------------------------------------------
(* CancelTask *)

CancelMoves(t, from, to) == canceller[t] = from /\ canceller' = [canceller EXCEPT ![t] = to]

\* Under taskMu, with approvalID read under it.
CancelTask(t) ==
    /\ t \in live
    /\ mem[t] \in Active
    /\ CancelMoves(t, "idle", "unlocked")
    /\ mem' = [mem EXCEPT ![t] = "cancelled"]
    /\ live' = live \ {t}
    /\ UNCHANGED <<known, row, mainVars, ctxDone, rowVars, execVars, procVars>>

CancelContext(t) ==
    /\ CancelMoves(t, "unlocked", IF t \in known THEN "check" ELSE "write")
    /\ ctxDone' = ctxDone \cup {t}
    /\ UNCHANGED <<taskVars, mainVars, rowVars, execVars, procVars>>

\* cancelApprovedExecution
CancelExecution(t) ==
    /\ IF exec[t] = "running"
         THEN execCancelled' = execCancelled \cup {t} /\ UNCHANGED markers
         ELSE markers' = markers \cup {t} /\ UNCHANGED execCancelled
    /\ UNCHANGED exec

CancelCheck(t) ==
    /\ \/ /\ approval[t] = "pending"
          /\ CancelMoves(t, "check", "reject")
          /\ UNCHANGED execVars
       \/ /\ approval[t] # "pending"
          /\ CancelMoves(t, "check", "write")
          /\ CancelExecution(t)
    /\ UNCHANGED <<taskVars, mainVars, ctxDone, rowVars, procVars>>

\* Mutant: an approval decided meanwhile is left to itself.
CancelOnlyRejects(t) ==
    /\ \/ Decide(t) /\ CancelMoves(t, "reject", "record")
       \/ approval[t] # "pending" /\ CancelMoves(t, "reject", "write") /\ UNCHANGED approval
    /\ UNCHANGED <<taskVars, mainVars, ctxDone, run, recording, execVars, procVars>>

CancelReject(t) ==
    /\ \/ /\ Decide(t)
          /\ CancelMoves(t, "reject", "record")
          /\ UNCHANGED execVars
       \/ /\ approval[t] # "pending"
          /\ CancelMoves(t, "reject", "write")
          /\ CancelExecution(t)
          /\ UNCHANGED approval
    /\ UNCHANGED <<taskVars, mainVars, ctxDone, run, recording, procVars>>

CancelRecord(t) ==
    /\ CancelMoves(t, "record", "write")
    /\ run' = [run EXCEPT ![t] = "rejected"]
    /\ UNCHANGED <<taskVars, mainVars, ctxDone, approval, recording, execVars, procVars>>

CancelWrite(t) ==
    /\ CancelMoves(t, "write", "done")
    /\ row' = [row EXCEPT ![t] = "cancelled"]
    /\ UNCHANGED <<live, mem, known, mainVars, ctxDone, rowVars, execVars, procVars>>

-----------------------------------------------------------------------------
(* The operator and the approved execution, as a task sees them *)

Approve(t) ==
    /\ approval[t] = "pending"
    /\ approval' = [approval EXCEPT ![t] = "approved"]
    /\ run' = [run EXCEPT ![t] = "running"]
    /\ exec' = [exec EXCEPT ![t] = "starting"]
    /\ UNCHANGED <<taskVars, mainVars, canceller, ctxDone, recording, execCancelled, markers, procVars>>

Start(t) ==
    /\ exec[t] = "starting"
    /\ \/ /\ ~closed /\ t \notin markers
          /\ exec' = [exec EXCEPT ![t] = "running"]
          /\ UNCHANGED <<run, markers>>
       \/ /\ closed \/ t \in markers
          /\ run' = [run EXCEPT ![t] = IF closed THEN "failed" ELSE "interrupted"]
          /\ exec' = [exec EXCEPT ![t] = "done"]
          /\ markers' = IF closed THEN markers ELSE markers \ {t}
    /\ UNCHANGED <<taskVars, mainVars, canceller, ctxDone, approval, recording, execCancelled, procVars>>

\* ops-agent approval approve: Approve executes in the process of the command
\* line, which neither the registry of this process nor its shutdown reaches.
ApproveElsewhere(t) ==
    /\ approval[t] = "pending"
    /\ approval' = [approval EXCEPT ![t] = "approved"]
    /\ run' = [run EXCEPT ![t] = "running"]
    /\ exec' = [exec EXCEPT ![t] = "elsewhere"]
    /\ UNCHANGED <<taskVars, mainVars, canceller, ctxDone, recording, execCancelled, markers, procVars>>

ElsewhereEnds(t) ==
    /\ exec[t] = "elsewhere"
    /\ exec' = [exec EXCEPT ![t] = "done"]
    /\ \E status \in {"completed", "failed"} : run' = [run EXCEPT ![t] = status]
    /\ UNCHANGED <<taskVars, mainVars, canceller, ctxDone, approval, recording, execCancelled, markers, procVars>>

\* The command line process is killed while it executes, or between the two
\* writes of its Reject; the run stays as it is.
OperatorDies(t) ==
    /\ exec[t] = "elsewhere" \/ t \in recording
    /\ lost' = lost \cup {t}
    /\ recording' = recording \ {t}
    /\ exec' = [exec EXCEPT ![t] = IF @ = "elsewhere" THEN "done" ELSE @]
    /\ UNCHANGED <<taskVars, mainVars, canceller, ctxDone, approval, run, execCancelled, markers, closed, crashes>>

ExecutionEnds(t) ==
    /\ exec[t] = "running"
    /\ \E status \in {"completed", "failed", "interrupted"} :
          /\ status = "interrupted" => t \in execCancelled \/ closed
          /\ run' = [run EXCEPT ![t] = status]
    /\ exec' = [exec EXCEPT ![t] = "done"]
    /\ markers' = markers \ {t}
    /\ UNCHANGED <<taskVars, mainVars, canceller, ctxDone, approval, recording, execCancelled, procVars>>

OperatorRejects(t) ==
    /\ Decide(t)
    /\ recording' = recording \cup {t}
    /\ UNCHANGED <<taskVars, mainVars, canceller, ctxDone, run, execVars, procVars>>

OperatorRecords(t) ==
    /\ t \in recording
    /\ recording' = recording \ {t}
    /\ run' = [run EXCEPT ![t] = "rejected"]
    /\ UNCHANGED <<taskVars, mainVars, canceller, ctxDone, approval, execVars, procVars>>

\* executionCtx is the parent of every taskCtx.
Shutdown ==
    /\ ~closed
    /\ closed' = TRUE
    /\ ctxDone' = {t \in Tasks : main[t] # "idle"}
    /\ UNCHANGED <<taskVars, mainVars, canceller, rowVars, execVars, crashes, lost>>

\* Mutant: the recovery forgets the tasks that wait for an approval.
RecoverRunning(status) == IF status = "running" THEN "interrupted" ELSE status

\* store.InterruptActiveTasks
Recovered(status) == IF status \in Active THEN "interrupted" ELSE status

\* The server process dies and starts again: main.serve runs the recovery, which
\* closes task rows and leaves runs and approvals alone.  A command line process
\* goes on with its execution or its Reject.
Crash ==
    /\ crashes < MaxCrashes
    /\ crashes' = crashes + 1
    /\ live' = {} /\ known' = {} /\ ctxDone' = {}
    /\ recording' \in SUBSET recording
    /\ main' = [t \in Tasks |-> IF main[t] = "idle" THEN "idle" ELSE "done"]
    /\ canceller' = [t \in Tasks |-> IF canceller[t] = "idle" THEN "idle" ELSE "done"]
    /\ exec' = [t \in Tasks |-> IF exec[t] \in {"none", "elsewhere"} THEN exec[t] ELSE "done"]
    /\ execCancelled' = {} /\ markers' = {} /\ closed' = FALSE
    /\ row' = [t \in Tasks |-> Recovered(row[t])]
    /\ UNCHANGED <<mem, snapshot, sawApproval, approval, run, lost>>

-----------------------------------------------------------------------------
GoroutineStep(t) ==
    \/ Register(t) \/ SubmitFails(t) \/ SubmitExecutes(t) \/ SubmitCreatesRun(t) \/ SubmitAsks(t)
    \/ DirectEnds(t) \/ WriteOutput(t) \/ FinishTask(t) \/ WriteFinal(t)
    \/ RecordApproval(t) \/ WriteAsked(t) \/ RejectOrphan(t) \/ RecordOrphan(t)
    \/ TrackApproval(t) \/ TrackRun(t) \/ WriteTracked(t) \/ TrackTick(t) \/ TrackInterrupted(t)

CancelStep(t)  == CancelContext(t) \/ CancelCheck(t) \/ CancelReject(t) \/ CancelRecord(t) \/ CancelWrite(t)
ServerStep(t)  == Start(t) \/ ExecutionEnds(t) \/ ElsewhereEnds(t) \/ OperatorRecords(t)

Next ==
    \/ \E t \in Tasks :
        \/ StartTask(t) \/ Output(t) \/ GoroutineStep(t) \/ CancelTask(t) \/ CancelStep(t)
        \/ Approve(t) \/ ApproveElsewhere(t) \/ OperatorRejects(t) \/ OperatorDies(t) \/ ServerStep(t)
    \/ Shutdown \/ Crash

Spec == Init /\ [][Next]_vars

\* Goroutines are scheduled, executions are bounded by their timeout, and who
\* decided goes on to the second write unless its process dies, which is not fair.
Fairness ==
    \A t \in Tasks : WF_vars(GoroutineStep(t)) /\ WF_vars(CancelStep(t)) /\ WF_vars(ServerStep(t))

FairSpec == Spec /\ Fairness

-----------------------------------------------------------------------------
(* Properties *)

TypeOK ==
    /\ live \subseteq Tasks /\ known \subseteq Tasks
    /\ mem \in [Tasks -> TaskStatus] /\ row \in [Tasks -> TaskStatus]
    /\ main \in [Tasks -> MainPC]
    /\ snapshot \in [Tasks -> TaskStatus]
    /\ sawApproval \in [Tasks -> {"absent", "pending", "approved", "rejected"}]
    /\ canceller \in [Tasks -> CancelPC]
    /\ ctxDone \subseteq Tasks
    /\ approval \in [Tasks -> {"absent", "pending", "approved", "rejected"}]
    /\ run \in [Tasks -> {"absent"} \cup Active \cup RunFinal]
    /\ recording \subseteq Tasks
    /\ exec \in [Tasks -> {"none", "starting", "running", "elsewhere", "done"}]
    /\ execCancelled \subseteq Tasks /\ markers \subseteq Tasks
    /\ closed \in BOOLEAN /\ crashes \in 0 .. MaxCrashes /\ lost \subseteq Tasks

\* Once CancelTask has dealt with the approval the task had recorded, the approval
\* can start nothing new, and no execution of the server's own registry goes on
\* undisturbed: it was cancelled, or will be refused, even where the operator
\* approved between CancelTask's look at the approval and its Reject.  Two
\* executions it does not reach: one of a command line process, and one approved
\* before the task had recorded its approval (CancelledTaskStopsExecuting, below).
CancelReachesExecution ==
    \A t \in known :
        canceller[t] \in {"record", "write", "done"} =>
            /\ approval[t] # "pending"
            /\ exec[t] = "starting" => t \in markers
            /\ exec[t] = "running"  => t \in execCancelled

\* A task's row claims completed or rejected only of a run that says so itself
\* (trackApprovalTask reads the approval and the run one after the other).
TaskAgreesWithRun ==
    \A t \in Tasks : row[t] \in {"completed", "rejected"} => run[t] = row[t]

\* docs/demo.md: a row that says running or approval_required has a goroutine
\* that will finish it; after a restart no unfinished task pretends to run.
\* (A cancelled task is looked at by CancelledStays.)
ActiveRowHasOwner ==
    \A t \in Tasks :
        row[t] \in Active /\ canceller[t] = "idle" =>
            t \in live \/ main[t] \in {"stored", "write_final"}

\* A task whose approval was decided leaves the map, and the polling goroutine
\* with it, unless a command line process that decided died before the run ended.
DecidedTaskEnds ==
    \A t \in Tasks : approval[t] \in {"approved", "rejected"} ~> t \notin live \/ t \in lost

\* TestApprovedBackgroundTaskCanBeCancelledWhileRunning: a task that CancelTask
\* returned for reads "cancelled".
CancelledStays ==
    \A t \in Tasks : canceller[t] = "done" /\ crashes = 0 => row[t] = "cancelled"

\* Broken by the code, and checked by no run: after CancelTask has returned no
\* execution of the task goes on undisturbed.  CancelTask leaves only a marker for
\* an execution of the command line, and where the operator approved before the
\* goroutine recorded the approval, the goroutine ignores that its Reject failed.
CancelledTaskStopsExecuting ==
    \A t \in Tasks :
        canceller[t] = "done" /\ main[t] = "done" /\ crashes = 0 =>
            /\ exec[t] # "elsewhere"
            /\ exec[t] = "running" => t \in execCancelled \/ closed

-----------------------------------------------------------------------------
(* The inductive invariant *)

\* What the two rows of the approval say of each other and of the execution.
RowsInv(t) ==
    /\ approval[t] = "pending" => run[t] = "approval_required"
    /\ approval[t] = "approved" => run[t] \notin {"absent", "approval_required"}
    /\ approval[t] = "rejected" => run[t] \in {"approval_required", "rejected"}
    /\ exec[t] # "none" => approval[t] = "approved"
    /\ exec[t] \in {"starting", "running", "elsewhere"} => run[t] = "running"
    /\ t \in recording \/ canceller[t] = "record" => approval[t] = "rejected"

\* What the goroutine knows of the rows from where it is.
StageInv(t) ==
    /\ main[t] \in {"idle", "stored", "submitting"} => run[t] = "absent" /\ approval[t] = "absent"
    /\ main[t] = "created" => run[t] = "approval_required" /\ approval[t] = "absent"
    /\ main[t] \in {"executing", "write_output"} => run[t] = "running" /\ approval[t] = "absent"
    /\ main[t] = "submitted" => approval[t] = "absent"
    /\ main[t] \in {"asked", "reject", "write_asked", "tracking", "seen", "write_tracked", "select"}
          => approval[t] # "absent"
    /\ main[t] = "record" => approval[t] = "rejected"

\* The map s.tasks has an entry exactly as long as the goroutine will look at the
\* task again, or CancelTask took it out; only then was an approval recorded in it.
OwnerInv(t) ==
    /\ canceller[t] # "idle" => t \notin live /\ main[t] \notin {"idle", "stored"}
    /\ t \in live => mem[t] \in Active /\ main[t] \notin {"idle", "stored"}
    /\ main[t] \notin {"idle", "stored", "write_final", "done"} /\ canceller[t] = "idle" => t \in live
    /\ t \in known => main[t] \in {"write_asked", "tracking", "seen", "write_tracked", "select",
                                   "write_final", "done"}

\* What is about to be written is the truth about the run, and is final where it
\* is the last word.
ReportInv(t) ==
    /\ main[t] \in {"write_output", "submitted", "write_asked", "write_tracked", "write_final"}
       /\ snapshot[t] \in {"completed", "rejected"} => run[t] = snapshot[t]
    /\ main[t] \in {"submitted", "write_final"} => snapshot[t] \notin Active

IInv ==
    /\ TypeOK
    /\ \A t \in Tasks : RowsInv(t) /\ StageInv(t) /\ OwnerInv(t) /\ ReportInv(t)
    /\ CancelReachesExecution /\ TaskAgreesWithRun /\ ActiveRowHasOwner
=============================================================================
