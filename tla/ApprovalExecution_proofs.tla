---------------------- MODULE ApprovalExecution_proofs ----------------------
(***************************************************************************)
(* Proofs about ApprovalExecution for any set of runs and handlers and any *)
(* number of host edits and crashes.                                       *)
(*                                                                         *)
(* Typing is inductive by itself.  The safety invariants need what the     *)
(* code relies on without writing it down: a run has a worker exactly when *)
(* it has a route, a handler between its commit and its start is the only  *)
(* one of its run, a worker in front of the transport has had no effect,   *)
(* and a stop request has decided whatever it struck off its list.         *)
(***************************************************************************)
EXTENDS ApprovalExecution, TLAPS

\* Every handler starts from a well-formed idle record.
LEMMA IdleHandlerType == IdleHandler \in HandlerState
<1>1. (CHOOSE r \in Runs : TRUE) \in Runs
  BY RunSetsAssumption
<1> QED
  BY <1>1 DEF IdleHandler, HandlerState, HandlerPC

\* A handler that moves on, takes up a run or rewrites its list stays well formed.
LEMMA HandlerMoveType ==
  ASSUME NEW h \in Handlers, NEW pc \in HandlerPC, handler \in [Handlers -> HandlerState],
         HandlerMoves(h, pc)
  PROVE  handler' \in [Handlers -> HandlerState]
<1>1. [handler[h] EXCEPT !.pc = pc] \in HandlerState
  BY DEF HandlerState
<1> QED
  BY <1>1 DEF HandlerMoves

LEMMA HandlerUpdateType ==
  ASSUME NEW s \in HandlerState, NEW pc \in HandlerPC, NEW r \in Runs,
         NEW mode \in {"async", "sync"}, NEW todo \in SUBSET Runs, NEW covers \in SUBSET Runs
  PROVE  /\ [s EXCEPT !.pc = pc, !.run = r, !.mode = mode] \in HandlerState
         /\ [s EXCEPT !.pc = pc, !.run = r] \in HandlerState
         /\ [s EXCEPT !.pc = pc, !.run = r, !.todo = todo] \in HandlerState
         /\ [s EXCEPT !.pc = pc, !.todo = todo] \in HandlerState
         /\ [s EXCEPT !.todo = todo] \in HandlerState
         /\ [s EXCEPT !.pc = pc, !.covers = covers] \in HandlerState
BY DEF HandlerState

\* What listing the pending approvals and rejecting one of them do to the
\* handler of the stop request.
LEMMA StopListEffect ==
  ASSUME NEW h \in Handlers, handler \in [Handlers -> HandlerState], StopListPending(h)
  PROVE  /\ handler'[h].pc = "stop_reject"
         /\ handler'[h].covers = handler[h].covers
         /\ handler'[h].todo = {r \in SessionRuns : approval[r] = "pending"}
<1> DEFINE list == {r \in SessionRuns : approval[r] = "pending"}
<1>1. handler' = [handler EXCEPT ![h].pc = "stop_reject", ![h].todo = list]
  BY DEF StopListPending
<1> HIDE DEF list
<1>2. handler'[h] = [handler[h] EXCEPT !.pc = "stop_reject", !.todo = list]
  BY <1>1
<1>3. handler[h] \in HandlerState
  OBVIOUS
<1>4. handler'[h].pc = "stop_reject" /\ handler'[h].covers = handler[h].covers /\ handler'[h].todo = list
  BY <1>2, <1>3 DEF HandlerState
<1> QED
  BY <1>4 DEF list

\* The stop request turns to the run it rejects.
TurnsTo(h, r) ==
  handler' = [handler EXCEPT ![h].pc = "stop_record", ![h].run = r, ![h].todo = @ \ {r}]

LEMMA StopRejectEffect ==
  ASSUME NEW h \in Handlers, NEW r, handler \in [Handlers -> HandlerState], TurnsTo(h, r)
  PROVE  /\ handler'[h].pc = "stop_record" /\ handler'[h].run = r
         /\ handler'[h].covers = handler[h].covers
         /\ handler'[h].todo = handler[h].todo \ {r}
<1> DEFINE list == handler[h].todo \ {r}
<1>1. handler' = [handler EXCEPT ![h].pc = "stop_record", ![h].run = r, ![h].todo = list]
  BY DEF TurnsTo
<1> HIDE DEF list
<1>2. handler'[h] = [handler[h] EXCEPT !.pc = "stop_record", !.run = r, !.todo = list]
  BY <1>1
<1>3. handler[h] \in HandlerState
  OBVIOUS
<1>4. /\ handler'[h].pc = "stop_record" /\ handler'[h].run = r
      /\ handler'[h].covers = handler[h].covers /\ handler'[h].todo = list
  BY <1>2, <1>3 DEF HandlerState
<1> QED
  BY <1>4 DEF list

LEMMA StopPassEffect ==
  ASSUME NEW h \in Handlers, NEW r, handler \in [Handlers -> HandlerState],
         handler' = [handler EXCEPT ![h].todo = @ \ {r}]
  PROVE  /\ handler'[h].pc = handler[h].pc
         /\ handler'[h].covers = handler[h].covers
         /\ handler'[h].todo = handler[h].todo \ {r}
<1> DEFINE list == handler[h].todo \ {r}
<1>1. handler'[h] = [handler[h] EXCEPT !.todo = list]
  OBVIOUS
<1>2. handler[h] \in HandlerState
  OBVIOUS
<1> HIDE DEF list
<1>3. /\ handler'[h].pc = handler[h].pc /\ handler'[h].covers = handler[h].covers
      /\ handler'[h].todo = list
  BY <1>1, <1>2 DEF HandlerState
<1> QED
  BY <1>3 DEF list

\* The error path leaves a status in the row, never the "none" of a run that
\* has no outcome yet.
LEMMA ErrorType ==
  ASSUME NEW r \in Runs, TypeOK, outcome[r] \in {"failed", "interrupted"}, RecordError(r)
  PROVE  run' \in [Runs -> RunStatus]
BY DEF TypeOK, RecordError, ErrorRecorded, RunStatus, FinalStatus

\* Every step leaves every variable well typed.
LEMMA TypingStep == IInv /\ [Next]_vars => TypeOK'
<1> SUFFICES ASSUME IInv, [Next]_vars PROVE TypeOK'
  OBVIOUS
<1>0. TypeOK /\ (\A r \in Runs : WorkerInv(r)) /\ (\A h \in Handlers : HandlerInv(h))
  BY DEF IInv
<1> HIDE DEF IInv
<1> USE <1>0, BoundsAssumption DEF TypeOK, rowVars, submitVars, workerVars, registryVars,
      handlerVars, envVars
<1>1. CASE UNCHANGED vars
  BY <1>1 DEF vars
<1>2. ASSUME NEW r \in Runs, SubmitStep(r) PROVE TypeOK'
  <2> USE DEF Return, RunStatus, SubmitPC, Versions, NoVersion
  <2>1. CASE BindRequest(r)  BY <2>1 DEF BindRequest
  <2>2. CASE SubmitDirect(r)  BY <2>2 DEF SubmitDirect, WorkerPC, Route
  <2>3. CASE SubmitAutoRejected(r)  BY <2>3 DEF SubmitAutoRejected, FinalStatus
  <2>4. CASE SubmitCreateRun(r)  BY <2>4 DEF SubmitCreateRun
  <2>5. CASE SubmitCreateApproval(r)  BY <2>5 DEF SubmitCreateApproval, ApprovalStatus
  <2>6. CASE SubmitFails(r)  BY <2>6 DEF SubmitFails
  <2>7. CASE AwaitReadApproval(r)  BY <2>7 DEF AwaitReadApproval
  <2>8. CASE AwaitReadRun(r)  BY <2>8 DEF AwaitReadRun
  <2>9. CASE DirectReturns(r)  BY <2>9 DEF DirectReturns
  <2> QED
    BY <1>2, <2>1, <2>2, <2>3, <2>4, <2>5, <2>6, <2>7, <2>8, <2>9 DEF SubmitStep
<1>3. ASSUME NEW r \in Runs, ExecuteStep(r) PROVE TypeOK'
  <2> USE DEF WorkerStep, AfterError, WorkerPC, FinalStatus
  <2>1. CASE FailBeforeTransport(r)  BY <2>1 DEF FailBeforeTransport, RunStatus
  <2>2. CASE AcquireCapacity(r)  BY <2>2 DEF AcquireCapacity
  <2>3. CASE AcquireCancelled(r)  BY <2>3 DEF AcquireCancelled
  <2>4. CASE VerifyBinding(r)  BY <2>4 DEF VerifyBinding
  <2>5. CASE CallTransport(r)  BY <2>5 DEF CallTransport
  <2>6. CASE TransportReturns(r)  BY <2>6 DEF TransportReturns
  <2>7. CASE WorkerPanics(r)  BY <2>7 DEF WorkerPanics
  <2>8. CASE PersistResult(r)
    <3>1. worker[r] = "persist" /\ worker' \in [Runs -> WorkerPC]  BY <2>8 DEF PersistResult
    <3>2. outcome[r] \in FinalStatus  BY <3>1 DEF WorkerInv
    <3>3. run' \in [Runs -> RunStatus]  BY <2>8, <3>2 DEF PersistResult, RunStatus
    <3> QED  BY <2>8, <3>1, <3>3 DEF PersistResult
  <2>9. CASE PersistFails(r)  BY <2>9 DEF PersistFails
  <2>10. CASE FinishError(r)
    <3>1. outcome[r] \in {"failed", "interrupted"}  BY <2>10 DEF FinishError, WorkerInv
    <3>2. run' \in [Runs -> RunStatus]  BY <2>10, <3>1, ErrorType DEF FinishError
    <3> QED  BY <2>10, <3>2 DEF FinishError
  <2>11. CASE WorkerEnds(r)  BY <2>11 DEF WorkerEnds
  <2> QED
    BY <1>3, <2>1, <2>2, <2>3, <2>4, <2>5, <2>6, <2>7, <2>8, <2>9, <2>10, <2>11 DEF ExecuteStep
<1>4. ASSUME NEW h \in Handlers, DecideStep(h) PROVE TypeOK'
  <2>0. handler[h] \in HandlerState /\ handler[h].run \in Runs /\ handler[h].todo \subseteq Runs
    BY DEF HandlerState
  <2> DEFINE HandlerTyped == handler' \in [Handlers -> HandlerState]
  <2> USE <2>0, HandlerMoveType, HandlerUpdateType DEF HandlerPC
  <2>1. CASE CommitApproval(h)
    <3>1. HandlerTyped  BY <2>1 DEF CommitApproval
    <3> QED  BY <2>1, <3>1 DEF CommitApproval, RunStatus, ApprovalStatus
  <2>2. CASE ApprovalFails(h)
    <3>1. HandlerTyped  BY <2>2 DEF ApprovalFails
    <3> QED  BY <2>2, <3>1 DEF ApprovalFails
  <2>3. CASE StartApproved(h)
    <3>1. HandlerTyped  BY <2>3 DEF StartApproved
    <3> QED  BY <2>3, <3>1 DEF StartApproved, Starts, Launch, WorkerPC, Route
  <2>4. CASE StartRefused(h)
    <3>1. HandlerTyped  BY <2>4 DEF StartRefused
    <3> QED  BY <2>4, <3>1 DEF StartRefused, Starts, FinalStatus
  <2>5. CASE AbortStart(h)
    <3>1. HandlerTyped  BY <2>5 DEF AbortStart
    <3>2. outcome[handler[h].run] \in {"failed", "interrupted"}
      BY <2>5 DEF AbortStart, HandlerInv
    <3>3. run' \in [Runs -> RunStatus]  BY <2>5, <3>2, ErrorType DEF AbortStart
    <3> QED  BY <2>5, <3>1, <3>3 DEF AbortStart
  <2>6. CASE StartSync(h)
    <3>1. HandlerTyped  BY <2>6 DEF StartSync
    <3> QED  BY <2>6, <3>1 DEF StartSync, Starts, Launch, WorkerPC, Route
  <2>7. CASE RecordRejection(h)
    <3>1. HandlerTyped  BY <2>7 DEF RecordRejection
    <3> QED  BY <2>7, <3>1 DEF RecordRejection, RunStatus, FinalStatus
  <2>8. CASE StopSnapshot(h)
    <3> DEFINE list == (cancels \cap SessionRuns) \ BackgroundRuns
    <3>0. list \in SUBSET Runs  BY DEF TypeOK
    <3>1. [handler[h] EXCEPT !.pc = "stop_cancel", !.todo = list] \in HandlerState
      <4> HIDE DEF list
      <4> QED  BY <3>0
    <3>2. handler' = [handler EXCEPT ![h] = [handler[h] EXCEPT !.pc = "stop_cancel", !.todo = list]]
      BY <2>8 DEF StopSnapshot
    <3>3. HandlerTyped  BY <3>1, <3>2
    <3> QED  BY <2>8, <3>3 DEF StopSnapshot
  <2>9. CASE StopCancelOne(h)
    <3> PICK r \in handler[h].todo :
          /\ CancelApprovedExecution(r)
          /\ handler' = [handler EXCEPT ![h].todo = @ \ {r}]
      BY <2>9 DEF StopCancelOne
    <3> DEFINE list == handler[h].todo \ {r}
    <3>0. list \in SUBSET Runs  OBVIOUS
    <3>1. [handler[h] EXCEPT !.todo = list] \in HandlerState
      <4> HIDE DEF list
      <4> QED  BY <3>0
    <3>2. HandlerTyped  BY <3>1
    <3> QED  BY ZenonT(30), <2>9, <3>2 DEF StopCancelOne, CancelApprovedExecution
  <2>10. CASE StopListPending(h)
    <3>1. HandlerTyped  BY ZenonT(30), <2>10, RunSetsAssumption DEF StopListPending
    <3> QED  BY <2>10, <3>1 DEF StopListPending
  <2>11. CASE StopRejectOne(h)
    <3>1. PICK r \in handler[h].todo :
             \/ handler' = [handler EXCEPT ![h].pc = "stop_record", ![h].run = r, ![h].todo = @ \ {r}]
             \/ handler' = [handler EXCEPT ![h].todo = @ \ {r}]
      BY <2>11 DEF StopRejectOne
    <3> DEFINE list == handler[h].todo \ {r}
    <3>0. list \in SUBSET Runs /\ r \in Runs  OBVIOUS
    <3>2. /\ [handler[h] EXCEPT !.pc = "stop_record", !.run = r, !.todo = list] \in HandlerState
          /\ [handler[h] EXCEPT !.todo = list] \in HandlerState
      <4> HIDE DEF list
      <4> QED  BY <3>0
    <3>3. HandlerTyped  BY <3>1, <3>2
    <3> QED  BY ZenonT(30), <2>11, <3>3 DEF StopRejectOne, DecideRejection, ApprovalStatus
  <2>12. CASE StopFails(h)
    <3>1. HandlerTyped  BY <2>12 DEF StopFails
    <3> QED  BY <2>12, <3>1 DEF StopFails
  <2>13. CASE StopDone(h)
    <3>1. HandlerTyped  BY <2>13 DEF StopDone
    <3>2. handler[h].covers \subseteq Runs  BY DEF HandlerState
    <3> QED  BY <2>13, <3>1, <3>2 DEF StopDone
  <2> QED
    BY <1>4, <2>1, <2>2, <2>3, <2>4, <2>5, <2>6, <2>7, <2>8, <2>9, <2>10, <2>11, <2>12, <2>13
    DEF DecideStep
<1>5. ASSUME NEW h \in Handlers, Request(h) PROVE TypeOK'
  <2> DEFINE HandlerTyped == handler' \in [Handlers -> HandlerState]
  <2> USE IdleHandlerType, HandlerUpdateType DEF HandlerPC
  <2>1. ASSUME NEW r \in Runs, NEW mode \in {"async", "sync"}, BeginApprove(h, r, mode)
        PROVE  TypeOK'
    <3>1. HandlerTyped  BY <2>1 DEF BeginApprove
    <3> QED  BY <2>1, <3>1 DEF BeginApprove
  <2>2. ASSUME NEW r \in Runs, Reject(h, r) PROVE TypeOK'
    <3>1. HandlerTyped  BY <2>2 DEF Reject
    <3> QED  BY <2>2, <3>1 DEF Reject, DecideRejection, ApprovalStatus
  <2>3. CASE StopBegin(h)
    <3>1. HandlerTyped  BY <2>3, RunSetsAssumption DEF StopBegin
    <3> QED  BY <2>3, <3>1 DEF StopBegin
  <2> QED  BY <1>5, <2>1, <2>2, <2>3 DEF Request
<1>6. CASE Environment
  <2>1. CASE EditHost  BY <2>1 DEF EditHost, Versions
  <2>2. CASE Shutdown  BY <2>2 DEF Shutdown
  <2>3. CASE Crash
    <3>1. handler' \in [Handlers -> HandlerState]  BY <2>3, IdleHandlerType DEF Crash
    <3>2. submit' \in [Runs -> SubmitPC]  BY <2>3 DEF Crash, SubmitPC
    <3>3. worker' \in [Runs -> WorkerPC]  BY <2>3 DEF Crash, WorkerPC
    <3>4. delivered' \in [Runs -> RunStatus \cup {"none", "told_to_wait", "error"}]
      BY <2>3 DEF Crash
    <3>5. crashes' \in 0 .. MaxCrashes  BY <2>3 DEF Crash
    <3> QED  BY <2>3, <3>1, <3>2, <3>3, <3>4, <3>5 DEF Crash
  <2>4. ASSUME NEW r \in Runs, AwaitCancelled(r) PROVE TypeOK'
    BY <2>4 DEF AwaitCancelled, Return, SubmitPC
  <2>5. ASSUME NEW r \in Runs, CallerGone(r) PROVE TypeOK'
    BY <2>5 DEF CallerGone
  <2>6. ASSUME NEW r \in Runs, CancelTaskExecution(r) PROVE TypeOK'
    BY <2>6 DEF CancelTaskExecution, CancelApprovedExecution
  <2>7. ASSUME NEW r \in Runs, CLIKilled(r) PROVE TypeOK'
    BY <2>7 DEF CLIKilled, WorkerPC
  <2> QED  BY <1>6, <2>1, <2>2, <2>3, <2>4, <2>5, <2>6, <2>7 DEF Environment
<1> QED
  BY <1>1, <1>2, <1>3, <1>4, <1>5, <1>6 DEF Next

-----------------------------------------------------------------------------
\* What IInv says of one run.
RunInv(r) == SubmitInv(r) /\ WorkerInv(r) /\ RowsAgree(r)

\* No step breaks what IInv says of a run.
LEMMA RunStep ==
  ASSUME IInv, [Next]_vars, NEW q \in Runs
  PROVE  RunInv(q)'
<1> USE DEF RunInv, SubmitInv, WorkerInv, RowsAgree, rowVars, submitVars, workerVars,
      registryVars, handlerVars, envVars
<1>0. /\ \A r \in Runs : RunInv(r)
      /\ run \in [Runs -> RunStatus] /\ approval \in [Runs -> ApprovalStatus]
      /\ submit \in [Runs -> SubmitPC] /\ bound \in [Runs -> Versions \cup {NoVersion}]
      /\ worker \in [Runs -> WorkerPC] /\ via \in [Runs -> Route]
      /\ outcome \in [Runs -> FinalStatus \cup {"none"}]
      /\ conn \in [Runs -> Versions \cup {NoVersion}] /\ effects \in [Runs -> Nat]
  BY DEF IInv, DecisionGovernsRun, TypeOK
<1> USE <1>0
<1>1. CASE UNCHANGED vars
  BY <1>1 DEF vars
<1>2. ASSUME NEW r \in Runs, SubmitStep(r) PROVE RunInv(q)'
  <2> USE DEF Return
  <2>1. CASE BindRequest(r)  BY <2>1 DEF BindRequest
  <2>2. CASE SubmitDirect(r)  BY <2>2 DEF SubmitDirect
  <2>3. CASE SubmitAutoRejected(r)  BY <2>3 DEF SubmitAutoRejected
  <2>4. CASE SubmitCreateRun(r)  BY <2>4 DEF SubmitCreateRun
  <2>5. CASE SubmitCreateApproval(r)  BY <2>5 DEF SubmitCreateApproval
  <2>6. CASE SubmitFails(r)  BY <2>6 DEF SubmitFails
  <2>7. CASE AwaitReadApproval(r)  BY <2>7 DEF AwaitReadApproval
  <2>8. CASE AwaitReadRun(r)  BY <2>8 DEF AwaitReadRun
  <2>9. CASE DirectReturns(r)  BY <2>9 DEF DirectReturns
  <2> QED
    BY <1>2, <2>1, <2>2, <2>3, <2>4, <2>5, <2>6, <2>7, <2>8, <2>9 DEF SubmitStep
<1>3. ASSUME NEW r \in Runs, ExecuteStep(r) PROVE RunInv(q)'
  <2> USE DEF WorkerStep, AfterError
  <2>1. CASE FailBeforeTransport(r)  BY <2>1 DEF FailBeforeTransport
  <2>2. CASE AcquireCapacity(r)  BY <2>2 DEF AcquireCapacity
  <2>3. CASE AcquireCancelled(r)  BY <2>3 DEF AcquireCancelled
  <2>4. CASE VerifyBinding(r)  BY <2>4 DEF VerifyBinding
  <2>5. CASE CallTransport(r)  BY <2>5 DEF CallTransport
  <2>6. CASE TransportReturns(r)  BY <2>6 DEF TransportReturns
  <2>7. CASE WorkerPanics(r)  BY <2>7 DEF WorkerPanics
  <2>8. CASE PersistResult(r)  BY <2>8 DEF PersistResult
  <2>9. CASE PersistFails(r)  BY <2>9 DEF PersistFails
  <2>10. CASE FinishError(r)  BY <2>10 DEF FinishError, RecordError, ErrorRecorded, Unfinished, Route
  <2>11. CASE WorkerEnds(r)  BY <2>11 DEF WorkerEnds
  <2> QED
    BY <1>3, <2>1, <2>2, <2>3, <2>4, <2>5, <2>6, <2>7, <2>8, <2>9, <2>10, <2>11 DEF ExecuteStep
<1>4. ASSUME NEW h \in Handlers, DecideStep(h) PROVE RunInv(q)'
  <2>0. handler[h].run \in Runs /\ handler[h].todo \subseteq Runs /\ HandlerInv(h)
    BY <1>4 DEF IInv, TypeOK, HandlerState
  <2> USE <2>0 DEF HandlerInv
  <2>1. CASE CommitApproval(h)  BY <2>1 DEF CommitApproval, Approvable, HandlerMoves
  <2>2. CASE ApprovalFails(h)  BY <2>2 DEF ApprovalFails, HandlerMoves
  <2>3. CASE StartApproved(h)  BY <2>3 DEF StartApproved, Starts, Launch, HandlerMoves
  <2>4. CASE StartRefused(h)  BY <2>4 DEF StartRefused, Starts, HandlerMoves
  <2>5. CASE AbortStart(h)  BY <2>5 DEF AbortStart, RecordError, ErrorRecorded, Unfinished, HandlerMoves
  <2>6. CASE StartSync(h)  BY <2>6 DEF StartSync, Starts, Launch, HandlerMoves
  <2>7. CASE RecordRejection(h)  BY <2>7 DEF RecordRejection, HandlerMoves
  <2>8. CASE StopSnapshot(h)  BY <2>8 DEF StopSnapshot
  <2>9. CASE StopCancelOne(h)  BY <2>9 DEF StopCancelOne, CancelApprovedExecution
  <2>10. CASE StopListPending(h)  BY <2>10 DEF StopListPending
  <2>11. CASE StopRejectOne(h)  BY <2>11 DEF StopRejectOne, DecideRejection
  <2>12. CASE StopFails(h)  BY <2>12 DEF StopFails, HandlerMoves
  <2>13. CASE StopDone(h)  BY <2>13 DEF StopDone, HandlerMoves
  <2> QED
    BY <1>4, <2>1, <2>2, <2>3, <2>4, <2>5, <2>6, <2>7, <2>8, <2>9, <2>10, <2>11, <2>12, <2>13 DEF DecideStep
<1>5. ASSUME NEW h \in Handlers, Request(h) PROVE RunInv(q)'
  <2>1. ASSUME NEW r \in Runs, NEW mode \in {"async", "sync"}, BeginApprove(h, r, mode)
        PROVE  RunInv(q)'
    BY <2>1 DEF BeginApprove
  <2>2. ASSUME NEW r \in Runs, Reject(h, r) PROVE RunInv(q)'
    BY <2>2 DEF Reject, DecideRejection
  <2>3. CASE StopBegin(h)  BY <2>3 DEF StopBegin
  <2> QED  BY <1>5, <2>1, <2>2, <2>3 DEF Request
<1>6. CASE Environment
  <2>1. CASE EditHost  BY <2>1 DEF EditHost
  <2>2. CASE Shutdown  BY <2>2 DEF Shutdown
  <2>3. CASE Crash  BY <2>3 DEF Crash
  <2>4. ASSUME NEW r \in Runs, AwaitCancelled(r) PROVE RunInv(q)'
    BY <2>4 DEF AwaitCancelled, Return
  <2>5. ASSUME NEW r \in Runs, CallerGone(r) PROVE RunInv(q)'
    BY <2>5 DEF CallerGone
  <2>6. ASSUME NEW r \in Runs, CancelTaskExecution(r) PROVE RunInv(q)'
    BY <2>6 DEF CancelTaskExecution, CancelApprovedExecution
  <2>7. ASSUME NEW r \in Runs, CLIKilled(r) PROVE RunInv(q)'
    BY <2>7 DEF CLIKilled
  <2> QED  BY <1>6, <2>1, <2>2, <2>3, <2>4, <2>5, <2>6, <2>7 DEF Environment
<1> QED
  BY <1>1, <1>2, <1>3, <1>4, <1>5, <1>6 DEF Next
\* The steps of one goroutine never spoil what another one relies on: a
\* handler between its commit and its start keeps its run to itself, and what a
\* stop request struck off its list stays decided.
LEMMA HandlerStep ==
  ASSUME IInv, TypeOK', [Next]_vars, NEW g \in Handlers
  PROVE  HandlerInv(g)' /\ StopInv(g)'
<1> DEFINE Kept == HandlerInv(g)' /\ StopInv(g)'
<1> USE DEF HandlerInv, StopInv, Decided, rowVars, submitVars, workerVars, registryVars,
      handlerVars, envVars
<1>0. /\ \A r \in Runs : SubmitInv(r) /\ WorkerInv(r)
      /\ \A h \in Handlers : HandlerInv(h) /\ StopInv(h)
      /\ HandlersApart
      /\ run \in [Runs -> RunStatus] /\ approval \in [Runs -> ApprovalStatus]
      /\ via \in [Runs -> Route]
      /\ worker \in [Runs -> WorkerPC] /\ outcome \in [Runs -> FinalStatus \cup {"none"}]
      /\ handler \in [Handlers -> HandlerState] /\ handler' \in [Handlers -> HandlerState]
      /\ handler[g] \in HandlerState /\ handler'[g] \in HandlerState
      /\ handler[g].run \in Runs /\ handler'[g].run \in Runs
      /\ handler[g].covers \subseteq Runs /\ handler'[g].covers \subseteq Runs
  BY DEF IInv, TypeOK, HandlerState
<1> USE <1>0 DEF HandlersApart, SubmitInv, WorkerInv
<1>1. CASE UNCHANGED vars
  BY <1>1 DEF vars
<1>2. ASSUME NEW r \in Runs, SubmitStep(r) PROVE Kept
  <2> USE DEF Return
  <2>1. CASE BindRequest(r)  BY <2>1 DEF BindRequest
  <2>2. CASE SubmitDirect(r)  BY <2>2 DEF SubmitDirect
  <2>3. CASE SubmitAutoRejected(r)  BY <2>3 DEF SubmitAutoRejected
  <2>4. CASE SubmitCreateRun(r)  BY <2>4 DEF SubmitCreateRun
  <2>5. CASE SubmitCreateApproval(r)  BY <2>5 DEF SubmitCreateApproval
  <2>6. CASE SubmitFails(r)  BY <2>6 DEF SubmitFails
  <2>7. CASE AwaitReadApproval(r)  BY <2>7 DEF AwaitReadApproval
  <2>8. CASE AwaitReadRun(r)  BY <2>8 DEF AwaitReadRun
  <2>9. CASE DirectReturns(r)  BY <2>9 DEF DirectReturns
  <2> QED
    BY <1>2, <2>1, <2>2, <2>3, <2>4, <2>5, <2>6, <2>7, <2>8, <2>9 DEF SubmitStep
<1>3. ASSUME NEW r \in Runs, ExecuteStep(r) PROVE Kept
  <2> USE DEF WorkerStep, AfterError
  <2>1. CASE FailBeforeTransport(r)  BY <2>1 DEF FailBeforeTransport
  <2>2. CASE AcquireCapacity(r)  BY <2>2 DEF AcquireCapacity
  <2>3. CASE AcquireCancelled(r)  BY <2>3 DEF AcquireCancelled
  <2>4. CASE VerifyBinding(r)  BY <2>4 DEF VerifyBinding
  <2>5. CASE CallTransport(r)  BY <2>5 DEF CallTransport
  <2>6. CASE TransportReturns(r)  BY <2>6 DEF TransportReturns
  <2>7. CASE WorkerPanics(r)  BY <2>7 DEF WorkerPanics
  <2>8. CASE PersistResult(r)  BY <2>8 DEF PersistResult
  <2>9. CASE PersistFails(r)  BY <2>9 DEF PersistFails
  <2>10. CASE FinishError(r)  BY <2>10 DEF FinishError, RecordError, ErrorRecorded, Unfinished
  <2>11. CASE WorkerEnds(r)  BY <2>11 DEF WorkerEnds
  <2> QED
    BY <1>3, <2>1, <2>2, <2>3, <2>4, <2>5, <2>6, <2>7, <2>8, <2>9, <2>10, <2>11 DEF ExecuteStep
<1>4. ASSUME NEW h \in Handlers, DecideStep(h) PROVE Kept
  <2>0. handler[h] \in HandlerState /\ handler[h].run \in Runs /\ handler[h].todo \subseteq Runs
    BY <1>4 DEF HandlerState
  <2> USE <2>0
  <2>1. CASE CommitApproval(h)
    <3> USE <2>1 DEF CommitApproval, Approvable, HandlerMoves
    <3>1. worker[handler[h].run] = "none"
      BY DEF Route
    <3>2. CASE g = h
      <4>1. /\ handler'[g].pc = "starting" /\ handler'[g].run = handler[h].run
            /\ approval'[handler[h].run] = "approved" /\ run'[handler[h].run] = "running"
        BY <3>2 DEF HandlerState
      <4> QED  BY <3>1, <3>2, <4>1
    <3>3. CASE g # h
      <4>1. handler'[g] = handler[g]  BY <3>3
      <4>2. handler[g].pc \in {"starting", "aborting", "recording", "stop_record"} =>
               handler[g].run # handler[h].run
        OBVIOUS
      <4>3. HandlerInv(g)'  BY ZenonT(30), <4>1, <4>2
      <4>4. StopInv(g)'  BY <4>1
      <4> QED  BY <4>3, <4>4
    <3> QED  BY <3>2, <3>3
  <2>2. CASE ApprovalFails(h)  BY <2>2 DEF ApprovalFails, HandlerMoves
  <2>3. CASE StartApproved(h)  BY <2>3 DEF StartApproved, Starts, Launch, HandlerMoves
  <2>4. CASE StartRefused(h)  BY <2>4 DEF StartRefused, Starts, HandlerMoves
  <2>5. CASE AbortStart(h)  BY <2>5 DEF AbortStart, RecordError, ErrorRecorded, Unfinished, HandlerMoves
  <2>6. CASE StartSync(h)  BY <2>6 DEF StartSync, Starts, Launch, HandlerMoves
  <2>7. CASE RecordRejection(h)
    <3> USE <2>7 DEF RecordRejection, HandlerMoves
    <3>1. approval[handler[h].run] = "rejected"  OBVIOUS
    <3>2. \/ handler'[g] = handler[g]
          \/ g = h /\ handler'[g] = [handler[g] EXCEPT !.pc = "idle"]
          \/ /\ g = h /\ handler[g].pc = "stop_record"
             /\ handler'[g] = [handler[g] EXCEPT !.pc = "stop_reject"]
      OBVIOUS
    <3>3. /\ handler'[g].run = handler[g].run /\ handler'[g].covers = handler[g].covers
          /\ handler'[g].todo = handler[g].todo
          /\ \/ handler'[g].pc = handler[g].pc
             \/ handler'[g].pc = "idle"
             \/ handler[g].pc = "stop_record" /\ handler'[g].pc = "stop_reject"
      BY <3>2 DEF HandlerState
    <3>4. handler[g].pc \in {"starting", "aborting"} => handler[g].run # handler[h].run
      BY <3>1
    <3>5. HandlerInv(g)'  BY <3>3, <3>4
    <3>6. StopInv(g)'  BY <3>3
    <3> QED  BY <3>5, <3>6
  <2>8. CASE StopSnapshot(h)  BY <2>8 DEF StopSnapshot
  <2>9. CASE StopCancelOne(h)  BY <2>9 DEF StopCancelOne, CancelApprovedExecution
  <2>10. CASE StopListPending(h)
    <3>1. CASE g = h
      <4>1. /\ handler'[h].pc = "stop_reject" /\ handler'[h].covers = handler[h].covers
            /\ handler'[h].todo = {r \in SessionRuns : approval[r] = "pending"}
        BY <2>10, StopListEffect
      <4>2. \A r \in handler[h].covers :
               approval[r] \in ApprovalStatus /\ r \in SessionRuns /\ approval[r] # "absent"
        BY <2>10, <3>1 DEF StopListPending
      <4>3. UNCHANGED approval  BY <2>10 DEF StopListPending
      <4> QED  BY <3>1, <4>1, <4>2, <4>3 DEF ApprovalStatus
    <3>2. CASE g # h
      BY <2>10, <3>2 DEF StopListPending
    <3> QED  BY <3>1, <3>2
  <2>11. CASE StopRejectOne(h)
    <3>1. PICK r \in handler[h].todo :
             \/ /\ DecideRejection(r)
                /\ handler' = [handler EXCEPT ![h].pc = "stop_record", ![h].run = r, ![h].todo = @ \ {r}]
             \/ /\ approval[r] # "pending" /\ UNCHANGED approval
                /\ handler' = [handler EXCEPT ![h].todo = @ \ {r}]
      BY <2>11 DEF StopRejectOne
    <3>2. /\ \A c \in Runs : c # r => approval'[c] = approval[c]
          /\ (approval[r] = "pending" /\ approval'[r] = "rejected") \/ UNCHANGED approval
          /\ approval[r] # "absent" => approval'[r] \in {"approved", "rejected"}
      BY <3>1 DEF DecideRejection, ApprovalStatus
    <3>3. UNCHANGED <<run, worker, outcome>> /\ handler[h].pc = "stop_reject"
      BY <2>11 DEF StopRejectOne
    <3>4. CASE g = h
      <4>1. /\ handler'[h].covers = handler[h].covers
            /\ handler'[h].todo = handler[h].todo \ {r}
            /\ \/ handler'[h].pc = "stop_reject"
               \/ handler'[h].pc = "stop_record" /\ handler'[h].run = r /\ DecideRejection(r)
        <5>1. CASE /\ DecideRejection(r)
                   /\ handler' = [handler EXCEPT ![h].pc = "stop_record", ![h].run = r, ![h].todo = @ \ {r}]
          <6>1. TurnsTo(h, r)  BY <5>1 DEF TurnsTo
          <6>2. /\ handler'[h].pc = "stop_record" /\ handler'[h].run = r
                /\ handler'[h].covers = handler[h].covers
                /\ handler'[h].todo = handler[h].todo \ {r}
            BY <6>1, StopRejectEffect
          <6> QED  BY <5>1, <6>2
        <5>2. CASE handler' = [handler EXCEPT ![h].todo = @ \ {r}]
          BY <3>3, <5>2, StopPassEffect
        <5> QED  BY <3>1, <5>1, <5>2
      <4>2. HandlerInv(g)'  BY <3>4, <4>1 DEF DecideRejection
      <4>3. StopInv(g)'  BY <3>2, <3>3, <3>4, <4>1
      <4> QED  BY <4>2, <4>3
    <3>5. CASE g # h
      <4>1. handler'[g] = handler[g]  BY <3>1, <3>5
      <4>2. HandlerInv(g)'  BY <3>2, <3>3, <4>1
      <4>3. StopInv(g)'  BY <3>2, <4>1
      <4> QED  BY <4>2, <4>3
    <3> QED  BY <3>4, <3>5
  <2>12. CASE StopFails(h)  BY <2>12 DEF StopFails, HandlerMoves
  <2>13. CASE StopDone(h)  BY <2>13 DEF StopDone, HandlerMoves
  <2> QED
    BY <1>4, <2>1, <2>2, <2>3, <2>4, <2>5, <2>6, <2>7, <2>8, <2>9, <2>10, <2>11, <2>12, <2>13 DEF DecideStep
<1>5. ASSUME NEW h \in Handlers, Request(h) PROVE Kept
  <2>1. ASSUME NEW r \in Runs, NEW mode \in {"async", "sync"}, BeginApprove(h, r, mode)
        PROVE  Kept
    BY <2>1 DEF BeginApprove
  <2>2. ASSUME NEW r \in Runs, Reject(h, r) PROVE Kept
    BY <2>2 DEF Reject, DecideRejection
  <2>3. CASE StopBegin(h)  BY <2>3 DEF StopBegin
  <2> QED  BY <1>5, <2>1, <2>2, <2>3 DEF Request
<1>6. CASE Environment
  <2>1. CASE EditHost  BY <2>1 DEF EditHost
  <2>2. CASE Shutdown  BY <2>2 DEF Shutdown
  <2>3. CASE Crash
    <3> USE <2>3 DEF Crash
    <3>1. handler'[g] = handler[g] \/ handler'[g].pc = "idle"
      BY DEF IdleHandler
    <3>2. \A r \in Runs : worker[r] = "none" => worker'[r] = "none"
      OBVIOUS
    <3> QED  BY <3>1, <3>2
  <2>4. ASSUME NEW r \in Runs, AwaitCancelled(r) PROVE Kept
    BY <2>4 DEF AwaitCancelled, Return
  <2>5. ASSUME NEW r \in Runs, CallerGone(r) PROVE Kept
    BY <2>5 DEF CallerGone
  <2>6. ASSUME NEW r \in Runs, CancelTaskExecution(r) PROVE Kept
    BY <2>6 DEF CancelTaskExecution, CancelApprovedExecution
  <2>7. ASSUME NEW r \in Runs, CLIKilled(r) PROVE Kept
    BY <2>7 DEF CLIKilled
  <2> QED  BY <1>6, <2>1, <2>2, <2>3, <2>4, <2>5, <2>6, <2>7 DEF Environment
<1> QED
  BY <1>1, <1>2, <1>3, <1>4, <1>5, <1>6 DEF Next


\* What a step can do to the decisions: a pending one is decided once, a decided
\* one never changes, and none disappears.
DecisionsStay ==
    \A r \in Runs :
        \/ approval'[r] = approval[r]
        \/ approval[r] = "absent" /\ approval'[r] = "pending"
        \/ approval[r] = "pending" /\ approval'[r] \in {"approved", "rejected"}

LEMMA DecisionStep == IInv /\ [Next]_vars => DecisionsStay
<1> SUFFICES ASSUME IInv, [Next]_vars PROVE DecisionsStay
  OBVIOUS
<1> USE DEF DecisionsStay, rowVars, submitVars, workerVars, registryVars, handlerVars, envVars
<1>0. /\ approval \in [Runs -> ApprovalStatus] /\ handler \in [Handlers -> HandlerState]
      /\ \A r \in Runs : SubmitInv(r)
  BY DEF IInv, TypeOK
<1> USE <1>0
<1>1. CASE UNCHANGED vars
  BY <1>1 DEF vars
<1>2. ASSUME NEW r \in Runs, SubmitStep(r) PROVE DecisionsStay
  <2> USE DEF Return
  <2>1. CASE BindRequest(r)  BY <2>1 DEF BindRequest
  <2>2. CASE SubmitDirect(r)  BY <2>2 DEF SubmitDirect
  <2>3. CASE SubmitAutoRejected(r)  BY <2>3 DEF SubmitAutoRejected
  <2>4. CASE SubmitCreateRun(r)  BY <2>4 DEF SubmitCreateRun
  <2>5. CASE SubmitCreateApproval(r)  BY <2>5 DEF SubmitCreateApproval, SubmitInv
  <2>6. CASE SubmitFails(r)  BY <2>6 DEF SubmitFails
  <2>7. CASE AwaitReadApproval(r)  BY <2>7 DEF AwaitReadApproval
  <2>8. CASE AwaitReadRun(r)  BY <2>8 DEF AwaitReadRun
  <2>9. CASE DirectReturns(r)  BY <2>9 DEF DirectReturns
  <2> QED
    BY <1>2, <2>1, <2>2, <2>3, <2>4, <2>5, <2>6, <2>7, <2>8, <2>9 DEF SubmitStep
<1>3. ASSUME NEW r \in Runs, ExecuteStep(r) PROVE DecisionsStay
  <2> USE DEF WorkerStep, AfterError
  <2>1. CASE FailBeforeTransport(r)  BY <2>1 DEF FailBeforeTransport
  <2>2. CASE AcquireCapacity(r)  BY <2>2 DEF AcquireCapacity
  <2>3. CASE AcquireCancelled(r)  BY <2>3 DEF AcquireCancelled
  <2>4. CASE VerifyBinding(r)  BY <2>4 DEF VerifyBinding
  <2>5. CASE CallTransport(r)  BY <2>5 DEF CallTransport
  <2>6. CASE TransportReturns(r)  BY <2>6 DEF TransportReturns
  <2>7. CASE WorkerPanics(r)  BY <2>7 DEF WorkerPanics
  <2>8. CASE PersistResult(r)  BY <2>8 DEF PersistResult
  <2>9. CASE PersistFails(r)  BY <2>9 DEF PersistFails
  <2>10. CASE FinishError(r)  BY <2>10 DEF FinishError, RecordError, ErrorRecorded, Unfinished
  <2>11. CASE WorkerEnds(r)  BY <2>11 DEF WorkerEnds
  <2> QED
    BY <1>3, <2>1, <2>2, <2>3, <2>4, <2>5, <2>6, <2>7, <2>8, <2>9, <2>10, <2>11 DEF ExecuteStep
<1>4. ASSUME NEW h \in Handlers, DecideStep(h) PROVE DecisionsStay
  <2>0. handler[h].run \in Runs /\ handler[h].todo \subseteq Runs
    BY <1>4 DEF HandlerState
  <2> USE <2>0
  <2>1. CASE CommitApproval(h)  BY <2>1 DEF CommitApproval, Approvable, HandlerMoves
  <2>2. CASE ApprovalFails(h)  BY <2>2 DEF ApprovalFails, HandlerMoves
  <2>3. CASE StartApproved(h)  BY <2>3 DEF StartApproved, Starts, Launch, HandlerMoves
  <2>4. CASE StartRefused(h)  BY <2>4 DEF StartRefused, Starts, HandlerMoves
  <2>5. CASE AbortStart(h)  BY <2>5 DEF AbortStart, RecordError, ErrorRecorded, Unfinished, HandlerMoves
  <2>6. CASE StartSync(h)  BY <2>6 DEF StartSync, Starts, Launch, HandlerMoves
  <2>7. CASE RecordRejection(h)  BY <2>7 DEF RecordRejection, HandlerMoves
  <2>8. CASE StopSnapshot(h)  BY <2>8 DEF StopSnapshot
  <2>9. CASE StopCancelOne(h)  BY <2>9 DEF StopCancelOne, CancelApprovedExecution
  <2>10. CASE StopListPending(h)  BY <2>10 DEF StopListPending
  <2>11. CASE StopRejectOne(h)  BY <2>11 DEF StopRejectOne, DecideRejection
  <2>12. CASE StopFails(h)  BY <2>12 DEF StopFails, HandlerMoves
  <2>13. CASE StopDone(h)  BY <2>13 DEF StopDone, HandlerMoves
  <2> QED
    BY <1>4, <2>1, <2>2, <2>3, <2>4, <2>5, <2>6, <2>7, <2>8, <2>9, <2>10, <2>11, <2>12, <2>13 DEF DecideStep
<1>5. ASSUME NEW h \in Handlers, Request(h) PROVE DecisionsStay
  <2>1. ASSUME NEW r \in Runs, NEW mode \in {"async", "sync"}, BeginApprove(h, r, mode)
        PROVE  DecisionsStay
    BY <2>1 DEF BeginApprove
  <2>2. ASSUME NEW r \in Runs, Reject(h, r) PROVE DecisionsStay
    BY <2>2 DEF Reject, DecideRejection
  <2>3. CASE StopBegin(h)  BY <2>3 DEF StopBegin
  <2> QED  BY <1>5, <2>1, <2>2, <2>3 DEF Request
<1>6. CASE Environment
  <2>1. CASE EditHost  BY <2>1 DEF EditHost
  <2>2. CASE Shutdown  BY <2>2 DEF Shutdown
  <2>3. CASE Crash  BY <2>3 DEF Crash
  <2>4. ASSUME NEW r \in Runs, AwaitCancelled(r) PROVE DecisionsStay
    BY <2>4 DEF AwaitCancelled, Return
  <2>5. ASSUME NEW r \in Runs, CallerGone(r) PROVE DecisionsStay
    BY <2>5 DEF CallerGone
  <2>6. ASSUME NEW r \in Runs, CancelTaskExecution(r) PROVE DecisionsStay
    BY <2>6 DEF CancelTaskExecution, CancelApprovedExecution
  <2>7. ASSUME NEW r \in Runs, CLIKilled(r) PROVE DecisionsStay
    BY <2>7 DEF CLIKilled
  <2> QED  BY <1>6, <2>1, <2>2, <2>3, <2>4, <2>5, <2>6, <2>7 DEF Environment
<1> QED
  BY <1>1, <1>2, <1>3, <1>4, <1>5, <1>6 DEF Next

\* Two handlers never hold the same run between commit and start.
LEMMA ApartStep ==
  ASSUME IInv, TypeOK', [Next]_vars
  PROVE  HandlersApart'
<1> SUFFICES ASSUME NEW f \in Handlers, NEW g \in Handlers,
                    handler'[f].pc \in {"starting", "aborting"},
                    handler'[g].pc \in {"starting", "aborting"},
                    handler'[f].run = handler'[g].run
             PROVE  f = g
  BY DEF HandlersApart
<1> USE DEF rowVars, submitVars, workerVars, registryVars, handlerVars, envVars
<1>0. /\ handler \in [Handlers -> HandlerState]
      /\ HandlersApart /\ \A h \in Handlers : HandlerInv(h)
  BY DEF IInv, TypeOK
<1> USE <1>0 DEF HandlersApart
<1>1. CASE UNCHANGED vars
  BY <1>1 DEF vars
<1>2. ASSUME NEW r \in Runs, SubmitStep(r) PROVE f = g
  <2> USE DEF Return
  <2>1. CASE BindRequest(r)  BY <2>1 DEF BindRequest
  <2>2. CASE SubmitDirect(r)  BY <2>2 DEF SubmitDirect
  <2>3. CASE SubmitAutoRejected(r)  BY <2>3 DEF SubmitAutoRejected
  <2>4. CASE SubmitCreateRun(r)  BY <2>4 DEF SubmitCreateRun
  <2>5. CASE SubmitCreateApproval(r)  BY <2>5 DEF SubmitCreateApproval
  <2>6. CASE SubmitFails(r)  BY <2>6 DEF SubmitFails
  <2>7. CASE AwaitReadApproval(r)  BY <2>7 DEF AwaitReadApproval
  <2>8. CASE AwaitReadRun(r)  BY <2>8 DEF AwaitReadRun
  <2>9. CASE DirectReturns(r)  BY <2>9 DEF DirectReturns
  <2> QED
    BY <1>2, <2>1, <2>2, <2>3, <2>4, <2>5, <2>6, <2>7, <2>8, <2>9 DEF SubmitStep
<1>3. ASSUME NEW r \in Runs, ExecuteStep(r) PROVE f = g
  <2> USE DEF WorkerStep, AfterError
  <2>1. CASE FailBeforeTransport(r)  BY <2>1 DEF FailBeforeTransport
  <2>2. CASE AcquireCapacity(r)  BY <2>2 DEF AcquireCapacity
  <2>3. CASE AcquireCancelled(r)  BY <2>3 DEF AcquireCancelled
  <2>4. CASE VerifyBinding(r)  BY <2>4 DEF VerifyBinding
  <2>5. CASE CallTransport(r)  BY <2>5 DEF CallTransport
  <2>6. CASE TransportReturns(r)  BY <2>6 DEF TransportReturns
  <2>7. CASE WorkerPanics(r)  BY <2>7 DEF WorkerPanics
  <2>8. CASE PersistResult(r)  BY <2>8 DEF PersistResult
  <2>9. CASE PersistFails(r)  BY <2>9 DEF PersistFails
  <2>10. CASE FinishError(r)  BY <2>10 DEF FinishError, RecordError, ErrorRecorded, Unfinished
  <2>11. CASE WorkerEnds(r)  BY <2>11 DEF WorkerEnds
  <2> QED
    BY <1>3, <2>1, <2>2, <2>3, <2>4, <2>5, <2>6, <2>7, <2>8, <2>9, <2>10, <2>11 DEF ExecuteStep
<1>4. ASSUME NEW h \in Handlers, DecideStep(h) PROVE f = g
  <2> USE <1>4
  <2>1. CASE CommitApproval(h)  BY <2>1 DEF HandlerInv, CommitApproval, Approvable, HandlerMoves
  <2>2. CASE ApprovalFails(h)  BY <2>2 DEF ApprovalFails, HandlerMoves
  <2>3. CASE StartApproved(h)  BY <2>3 DEF StartApproved, Starts, Launch, HandlerMoves
  <2>4. CASE StartRefused(h)  BY <2>4 DEF StartRefused, Starts, HandlerMoves
  <2>5. CASE AbortStart(h)  BY <2>5 DEF AbortStart, RecordError, ErrorRecorded, Unfinished, HandlerMoves
  <2>6. CASE StartSync(h)  BY <2>6 DEF StartSync, Starts, Launch, HandlerMoves
  <2>7. CASE RecordRejection(h)
    <3>1. handler'[h].pc \in {"idle", "stop_reject"}
      BY <2>7 DEF RecordRejection, HandlerMoves, HandlerState
    <3>2. \A k \in Handlers : k # h => handler'[k] = handler[k]
      BY <2>7 DEF RecordRejection, HandlerMoves
    <3> QED  BY <3>1, <3>2
  <2>8. CASE StopSnapshot(h)  BY <2>8 DEF StopSnapshot
  <2>9. CASE StopCancelOne(h)  BY <2>9 DEF StopCancelOne, CancelApprovedExecution
  <2>10. CASE StopListPending(h)  BY <2>10 DEF StopListPending
  <2>11. CASE StopRejectOne(h)
    <3>1. PICK r \in handler[h].todo :
             \/ handler' = [handler EXCEPT ![h].pc = "stop_record", ![h].run = r, ![h].todo = @ \ {r}]
             \/ handler' = [handler EXCEPT ![h].todo = @ \ {r}]
      BY <2>11 DEF StopRejectOne
    <3>2. CASE handler' = [handler EXCEPT ![h].pc = "stop_record", ![h].run = r, ![h].todo = @ \ {r}]
      <4>0. TurnsTo(h, r)  BY <3>2 DEF TurnsTo
      <4>1. handler'[h].pc = "stop_record"
        BY <4>0, StopRejectEffect
      <4>2. \A k \in Handlers : k # h => handler'[k] = handler[k]
        BY <3>2
      <4> QED  BY <4>1, <4>2
    <3>3. CASE handler' = [handler EXCEPT ![h].todo = @ \ {r}]
      <4>1. handler'[h].pc = handler[h].pc /\ handler[h].pc = "stop_reject"
        BY <2>11, <3>3, StopPassEffect DEF StopRejectOne
      <4>2. \A k \in Handlers : k # h => handler'[k] = handler[k]
        BY <3>3
      <4> QED  BY <4>1, <4>2
    <3> QED  BY <3>1, <3>2, <3>3
  <2>12. CASE StopFails(h)  BY <2>12 DEF StopFails, HandlerMoves
  <2>13. CASE StopDone(h)  BY <2>13 DEF StopDone, HandlerMoves
  <2> QED
    BY <1>4, <2>1, <2>2, <2>3, <2>4, <2>5, <2>6, <2>7, <2>8, <2>9, <2>10, <2>11, <2>12, <2>13 DEF DecideStep
<1>5. ASSUME NEW h \in Handlers, Request(h) PROVE f = g
  <2>1. ASSUME NEW r \in Runs, NEW mode \in {"async", "sync"}, BeginApprove(h, r, mode)
        PROVE  f = g
    BY <2>1 DEF BeginApprove
  <2>2. ASSUME NEW r \in Runs, Reject(h, r) PROVE f = g
    BY <2>2 DEF Reject, DecideRejection
  <2>3. CASE StopBegin(h)  BY <2>3 DEF StopBegin
  <2> QED  BY <1>5, <2>1, <2>2, <2>3 DEF Request
<1>6. CASE Environment
  <2>1. CASE EditHost  BY <2>1 DEF EditHost
  <2>2. CASE Shutdown  BY <2>2 DEF Shutdown
  <2>3. CASE Crash
    <3>1. \A k \in Handlers : handler'[k] = handler[k] \/ handler'[k].pc = "idle"
      BY <2>3 DEF Crash, IdleHandler
    <3> QED  BY <3>1
  <2>4. ASSUME NEW r \in Runs, AwaitCancelled(r) PROVE f = g
    BY <2>4 DEF AwaitCancelled, Return
  <2>5. ASSUME NEW r \in Runs, CallerGone(r) PROVE f = g
    BY <2>5 DEF CallerGone
  <2>6. ASSUME NEW r \in Runs, CancelTaskExecution(r) PROVE f = g
    BY <2>6 DEF CancelTaskExecution, CancelApprovedExecution
  <2>7. ASSUME NEW r \in Runs, CLIKilled(r) PROVE f = g
    BY <2>7 DEF CLIKilled
  <2> QED  BY <1>6, <2>1, <2>2, <2>3, <2>4, <2>5, <2>6, <2>7 DEF Environment
<1> QED
  BY <1>1, <1>2, <1>3, <1>4, <1>5, <1>6 DEF Next

\* The registry holds the live goroutines of startApprovedExecution.
LEMMA RegistryStep ==
  ASSUME IInv, TypeOK', [Next]_vars
  PROVE  LiveExecutionsRegistered'
<1> USE DEF LiveExecutionsRegistered, rowVars, submitVars, workerVars, registryVars,
      handlerVars, envVars
<1>0. /\ worker \in [Runs -> WorkerPC] /\ via \in [Runs -> Route]
      /\ handler \in [Handlers -> HandlerState]
      /\ LiveExecutionsRegistered
      /\ \A r \in Runs : SubmitInv(r) /\ WorkerInv(r)
      /\ \A h \in Handlers : HandlerInv(h)
  BY DEF IInv, TypeOK
<1> USE <1>0 DEF SubmitInv, WorkerInv
<1>1. CASE UNCHANGED vars
  BY <1>1 DEF vars
<1>2. ASSUME NEW r \in Runs, SubmitStep(r) PROVE LiveExecutionsRegistered'
  <2> USE DEF Return
  <2>1. CASE BindRequest(r)  BY <2>1 DEF BindRequest
  <2>2. CASE SubmitDirect(r)  BY <2>2 DEF SubmitDirect
  <2>3. CASE SubmitAutoRejected(r)  BY <2>3 DEF SubmitAutoRejected
  <2>4. CASE SubmitCreateRun(r)  BY <2>4 DEF SubmitCreateRun
  <2>5. CASE SubmitCreateApproval(r)  BY <2>5 DEF SubmitCreateApproval
  <2>6. CASE SubmitFails(r)  BY <2>6 DEF SubmitFails
  <2>7. CASE AwaitReadApproval(r)  BY <2>7 DEF AwaitReadApproval
  <2>8. CASE AwaitReadRun(r)  BY <2>8 DEF AwaitReadRun
  <2>9. CASE DirectReturns(r)  BY <2>9 DEF DirectReturns
  <2> QED
    BY <1>2, <2>1, <2>2, <2>3, <2>4, <2>5, <2>6, <2>7, <2>8, <2>9 DEF SubmitStep
<1>3. ASSUME NEW r \in Runs, ExecuteStep(r) PROVE LiveExecutionsRegistered'
  <2> USE DEF WorkerStep, AfterError
  <2>1. CASE FailBeforeTransport(r)  BY <2>1 DEF FailBeforeTransport
  <2>2. CASE AcquireCapacity(r)  BY <2>2 DEF AcquireCapacity
  <2>3. CASE AcquireCancelled(r)  BY <2>3 DEF AcquireCancelled
  <2>4. CASE VerifyBinding(r)  BY <2>4 DEF VerifyBinding
  <2>5. CASE CallTransport(r)  BY <2>5 DEF CallTransport
  <2>6. CASE TransportReturns(r)  BY <2>6 DEF TransportReturns
  <2>7. CASE WorkerPanics(r)  BY <2>7 DEF WorkerPanics
  <2>8. CASE PersistResult(r)  BY <2>8 DEF PersistResult
  <2>9. CASE PersistFails(r)  BY <2>9 DEF PersistFails
  <2>10. CASE FinishError(r)  BY <2>10 DEF FinishError, RecordError, ErrorRecorded, Unfinished
  <2>11. CASE WorkerEnds(r)  BY <2>11 DEF WorkerEnds
  <2> QED
    BY <1>3, <2>1, <2>2, <2>3, <2>4, <2>5, <2>6, <2>7, <2>8, <2>9, <2>10, <2>11 DEF ExecuteStep
<1>4. ASSUME NEW h \in Handlers, DecideStep(h) PROVE LiveExecutionsRegistered'
  <2>0. handler[h].run \in Runs
    BY <1>4 DEF HandlerState
  <2> USE <2>0 DEF HandlerInv
  <2>1. CASE CommitApproval(h)  BY <2>1 DEF CommitApproval, Approvable, HandlerMoves
  <2>2. CASE ApprovalFails(h)  BY <2>2 DEF ApprovalFails, HandlerMoves
  <2>3. CASE StartApproved(h)  BY <2>3 DEF StartApproved, Starts, Launch, HandlerMoves
  <2>4. CASE StartRefused(h)  BY <2>4 DEF StartRefused, Starts, HandlerMoves
  <2>5. CASE AbortStart(h)  BY <2>5 DEF AbortStart, RecordError, ErrorRecorded, Unfinished, HandlerMoves
  <2>6. CASE StartSync(h)  BY <2>6 DEF StartSync, Starts, Launch, HandlerMoves
  <2>7. CASE RecordRejection(h)  BY <2>7 DEF RecordRejection, HandlerMoves
  <2>8. CASE StopSnapshot(h)  BY <2>8 DEF StopSnapshot
  <2>9. CASE StopCancelOne(h)  BY <2>9 DEF StopCancelOne, CancelApprovedExecution
  <2>10. CASE StopListPending(h)  BY <2>10 DEF StopListPending
  <2>11. CASE StopRejectOne(h)  BY <2>11 DEF StopRejectOne, DecideRejection
  <2>12. CASE StopFails(h)  BY <2>12 DEF StopFails, HandlerMoves
  <2>13. CASE StopDone(h)  BY <2>13 DEF StopDone, HandlerMoves
  <2> QED
    BY <1>4, <2>1, <2>2, <2>3, <2>4, <2>5, <2>6, <2>7, <2>8, <2>9, <2>10, <2>11, <2>12, <2>13 DEF DecideStep
<1>5. ASSUME NEW h \in Handlers, Request(h) PROVE LiveExecutionsRegistered'
  <2>1. ASSUME NEW r \in Runs, NEW mode \in {"async", "sync"}, BeginApprove(h, r, mode)
        PROVE  LiveExecutionsRegistered'
    BY <2>1 DEF BeginApprove
  <2>2. ASSUME NEW r \in Runs, Reject(h, r) PROVE LiveExecutionsRegistered'
    BY <2>2 DEF Reject, DecideRejection
  <2>3. CASE StopBegin(h)  BY <2>3 DEF StopBegin
  <2> QED  BY <1>5, <2>1, <2>2, <2>3 DEF Request
<1>6. CASE Environment
  <2>1. CASE EditHost  BY <2>1 DEF EditHost
  <2>2. CASE Shutdown  BY <2>2 DEF Shutdown
  <2>3. CASE Crash  BY <2>3 DEF Crash
  <2>4. ASSUME NEW r \in Runs, AwaitCancelled(r) PROVE LiveExecutionsRegistered'
    BY <2>4 DEF AwaitCancelled, Return
  <2>5. ASSUME NEW r \in Runs, CallerGone(r) PROVE LiveExecutionsRegistered'
    BY <2>5 DEF CallerGone
  <2>6. ASSUME NEW r \in Runs, CancelTaskExecution(r) PROVE LiveExecutionsRegistered'
    BY <2>6 DEF CancelTaskExecution, CancelApprovedExecution
  <2>7. ASSUME NEW r \in Runs, CLIKilled(r) PROVE LiveExecutionsRegistered'
    BY <2>7 DEF CLIKilled
  <2> QED  BY <1>6, <2>1, <2>2, <2>3, <2>4, <2>5, <2>6, <2>7 DEF Environment
<1> QED
  BY <1>1, <1>2, <1>3, <1>4, <1>5, <1>6 DEF Next

\* What an answered stop request covered stays decided.
LEMMA SettledStep ==
  ASSUME IInv, [Next]_vars
  PROVE  StopSettlesPending'
<1>1. DecisionsStay  BY DecisionStep
<1>2. settled \subseteq Runs /\ handler \in [Handlers -> HandlerState]
  BY DEF IInv, TypeOK
<1>3. \A r \in settled : approval[r] \in {"approved", "rejected"}
  BY DEF IInv, StopSettlesPending
<1>4. CASE settled' = settled
  BY <1>1, <1>2, <1>3, <1>4 DEF StopSettlesPending, DecisionsStay
<1>5. ASSUME NEW h \in Handlers, StopDone(h) PROVE StopSettlesPending'
  <2>1. handler[h].covers \subseteq Runs  BY <1>2 DEF HandlerState
  <2>2. \A r \in handler[h].covers : approval[r] \in {"approved", "rejected"}
    BY <1>5, <2>1 DEF IInv, StopInv, StopDone, Decided
  <2> QED
    BY <1>1, <1>2, <1>3, <1>5, <2>1, <2>2 DEF StopDone, StopSettlesPending, DecisionsStay
<1>6. settled' = settled \/ \E h \in Handlers : StopDone(h)
  <2> USE DEF handlerVars
  <2>1. CASE UNCHANGED vars
    BY <2>1 DEF vars
  <2>2. ASSUME NEW r \in Runs, SubmitStep(r) \/ ExecuteStep(r) PROVE settled' = settled
    BY <2>2 DEF SubmitStep, BindRequest, SubmitDirect, SubmitAutoRejected, SubmitCreateRun,
       SubmitCreateApproval, SubmitFails, AwaitReadApproval, AwaitReadRun, DirectReturns, ExecuteStep,
       FailBeforeTransport, AcquireCapacity, AcquireCancelled, VerifyBinding, CallTransport,
       TransportReturns, WorkerPanics, PersistResult, PersistFails, FinishError, WorkerEnds, WorkerStep
  <2>3. ASSUME NEW h \in Handlers, DecideStep(h), ~ StopDone(h) PROVE settled' = settled
    BY <2>3 DEF DecideStep, CommitApproval, ApprovalFails, StartApproved, StartRefused, AbortStart,
       StartSync, RecordRejection, StopSnapshot, StopCancelOne, StopListPending, StopRejectOne,
       StopFails
  <2>4. ASSUME NEW h \in Handlers, Request(h) PROVE settled' = settled
    BY <2>4 DEF Request, BeginApprove, Reject, StopBegin
  <2>5. CASE Environment
    BY <2>5 DEF Environment, EditHost, Shutdown, Crash, AwaitCancelled, CallerGone,
       CancelTaskExecution, CLIKilled
  <2> QED
    BY <2>1, <2>2, <2>3, <2>4, <2>5 DEF Next
<1> QED
  BY <1>4, <1>5, <1>6

-----------------------------------------------------------------------------
\* The inductive invariant holds of every reachable state.
THEOREM Invariance == Spec => []IInv
<1>1. Init => IInv
  <2> SUFFICES ASSUME Init PROVE IInv
    OBVIOUS
  <2>1. TypeOK
    <3>1. handler \in [Handlers -> HandlerState]
      BY IdleHandlerType DEF Init
    <3>2. hostVersion \in Versions /\ crashes \in 0 .. MaxCrashes
      BY BoundsAssumption DEF Init, Versions
    <3> QED
      BY <3>1, <3>2
         DEF Init, TypeOK, RunStatus, ApprovalStatus, SubmitPC, WorkerPC, Route
  <2>2. \A r \in Runs : SubmitInv(r) /\ WorkerInv(r) /\ RowsAgree(r)
    BY DEF Init, SubmitInv, WorkerInv, RowsAgree
  <2>3. \A h \in Handlers : handler[h].pc = "idle"
    BY DEF Init, IdleHandler
  <2>4. LiveExecutionsRegistered /\ StopSettlesPending
    BY DEF Init, LiveExecutionsRegistered, StopSettlesPending
  <2> QED
    BY <2>1, <2>2, <2>3, <2>4 DEF IInv, HandlerInv, StopInv, HandlersApart, DecisionGovernsRun
<1>2. IInv /\ [Next]_vars => IInv'
  <2> SUFFICES ASSUME IInv, [Next]_vars PROVE IInv'
    OBVIOUS
  <2>1. TypeOK'  BY TypingStep
  <2>2. \A r \in Runs : RunInv(r)'  BY RunStep
  <2>3. \A h \in Handlers : HandlerInv(h)' /\ StopInv(h)'  BY <2>1, HandlerStep
  <2>4. HandlersApart'  BY <2>1, ApartStep
  <2>5. LiveExecutionsRegistered'  BY <2>1, RegistryStep
  <2>6. StopSettlesPending'  BY SettledStep
  <2> QED
    BY <2>1, <2>2, <2>3, <2>4, <2>5, <2>6 DEF IInv, RunInv, DecisionGovernsRun
<1> QED
  BY <1>1, <1>2, PTL DEF Spec

\* Every variable keeps its type.
THEOREM Typing == Spec => []TypeOK
<1>1. IInv => TypeOK
  BY DEF IInv
<1> QED
  BY <1>1, Invariance, PTL

\* For any number of handlers, restarts and host edits, a run reaches the
\* transport at most once, and only approved or where no approval was asked for.
THEOREM ExecutedOnce == Spec => []ExecutedOnceAndOnlyIfAuthorized
<1>1. IInv => ExecutedOnceAndOnlyIfAuthorized
  BY DEF IInv, TypeOK, WorkerInv, Route, ExecutedOnceAndOnlyIfAuthorized
<1> QED
  BY <1>1, Invariance, PTL

\* The row of a run agrees with the row of its approval after every step.
THEOREM RowsConsistent == Spec => []DecisionGovernsRun
<1>1. IInv => DecisionGovernsRun
  BY DEF IInv
<1> QED
  BY <1>1, Invariance, PTL

\* The connection in use is the one the request was bound to.
THEOREM Binding == Spec => []BindingHolds
<1>1. IInv => BindingHolds
  BY DEF IInv, WorkerInv, BindingHolds
<1> QED
  BY <1>1, Invariance, PTL

\* The registry a stop request looks into is exact.
THEOREM Registered == Spec => []LiveExecutionsRegistered
<1>1. IInv => LiveExecutionsRegistered
  BY DEF IInv
<1> QED
  BY <1>1, Invariance, PTL

\* An answered stop request has left no approval it covered undecided.
THEOREM StopSettles == Spec => []StopSettlesPending
<1>1. IInv => StopSettlesPending
  BY DEF IInv
<1> QED
  BY <1>1, Invariance, PTL

\* A final status is written once, because until then the run is running and
\* nobody but its own worker or its own handler writes it.
LEMMA FinalStep ==
  ASSUME IInv, [Next]_vars
  PROVE  \A q \in Runs : run[q] \in FinalStatus => run'[q] = run[q]
<1> SUFFICES ASSUME NEW q \in Runs, run[q] \in FinalStatus PROVE run'[q] = run[q]
  OBVIOUS
<1> USE DEF rowVars, submitVars, workerVars, registryVars, handlerVars, envVars, FinalStatus
<1>0. /\ run \in [Runs -> RunStatus] /\ handler \in [Handlers -> HandlerState]
      /\ worker \in [Runs -> WorkerPC] /\ via \in [Runs -> Route]
      /\ \A r \in Runs : SubmitInv(r) /\ WorkerInv(r) /\ RowsAgree(r)
      /\ \A h \in Handlers : HandlerInv(h)
  BY DEF IInv, TypeOK, DecisionGovernsRun
<1> USE <1>0 DEF SubmitInv, WorkerInv, RowsAgree
<1>1. CASE UNCHANGED vars
  BY <1>1 DEF vars
<1>2. ASSUME NEW r \in Runs, SubmitStep(r) PROVE run'[q] = run[q]
  <2> USE DEF Return
  <2>1. CASE BindRequest(r)  BY <2>1 DEF BindRequest
  <2>2. CASE SubmitDirect(r)  BY <2>2 DEF SubmitDirect
  <2>3. CASE SubmitAutoRejected(r)  BY <2>3 DEF SubmitAutoRejected
  <2>4. CASE SubmitCreateRun(r)  BY <2>4 DEF SubmitCreateRun
  <2>5. CASE SubmitCreateApproval(r)  BY <2>5 DEF SubmitCreateApproval
  <2>6. CASE SubmitFails(r)  BY <2>6 DEF SubmitFails
  <2>7. CASE AwaitReadApproval(r)  BY <2>7 DEF AwaitReadApproval
  <2>8. CASE AwaitReadRun(r)  BY <2>8 DEF AwaitReadRun
  <2>9. CASE DirectReturns(r)  BY <2>9 DEF DirectReturns
  <2> QED
    BY <1>2, <2>1, <2>2, <2>3, <2>4, <2>5, <2>6, <2>7, <2>8, <2>9 DEF SubmitStep
<1>3. ASSUME NEW r \in Runs, ExecuteStep(r) PROVE run'[q] = run[q]
  <2> USE DEF WorkerStep, AfterError
  <2>1. CASE FailBeforeTransport(r)  BY <2>1 DEF FailBeforeTransport
  <2>2. CASE AcquireCapacity(r)  BY <2>2 DEF AcquireCapacity
  <2>3. CASE AcquireCancelled(r)  BY <2>3 DEF AcquireCancelled
  <2>4. CASE VerifyBinding(r)  BY <2>4 DEF VerifyBinding
  <2>5. CASE CallTransport(r)  BY <2>5 DEF CallTransport
  <2>6. CASE TransportReturns(r)  BY <2>6 DEF TransportReturns
  <2>7. CASE WorkerPanics(r)  BY <2>7 DEF WorkerPanics
  <2>8. CASE PersistResult(r)  BY <2>8 DEF PersistResult
  <2>9. CASE PersistFails(r)  BY <2>9 DEF PersistFails
  <2>10. CASE FinishError(r)  BY <2>10 DEF FinishError, RecordError, ErrorRecorded, Unfinished
  <2>11. CASE WorkerEnds(r)  BY <2>11 DEF WorkerEnds
  <2> QED
    BY <1>3, <2>1, <2>2, <2>3, <2>4, <2>5, <2>6, <2>7, <2>8, <2>9, <2>10, <2>11 DEF ExecuteStep
<1>4. ASSUME NEW h \in Handlers, DecideStep(h) PROVE run'[q] = run[q]
  <2>0. handler[h].run \in Runs
    BY <1>4 DEF HandlerState
  <2> USE <2>0 DEF HandlerInv
  <2>1. CASE CommitApproval(h)  BY <2>1 DEF CommitApproval, Approvable, HandlerMoves
  <2>2. CASE ApprovalFails(h)  BY <2>2 DEF ApprovalFails, HandlerMoves
  <2>3. CASE StartApproved(h)  BY <2>3 DEF StartApproved, Starts, Launch, HandlerMoves
  <2>4. CASE StartRefused(h)  BY <2>4 DEF StartRefused, Starts, HandlerMoves
  <2>5. CASE AbortStart(h)  BY <2>5 DEF AbortStart, RecordError, ErrorRecorded, Unfinished, HandlerMoves
  <2>6. CASE StartSync(h)  BY <2>6 DEF StartSync, Starts, Launch, HandlerMoves
  <2>7. CASE RecordRejection(h)  BY <2>7 DEF RecordRejection, HandlerMoves
  <2>8. CASE StopSnapshot(h)  BY <2>8 DEF StopSnapshot
  <2>9. CASE StopCancelOne(h)  BY <2>9 DEF StopCancelOne, CancelApprovedExecution
  <2>10. CASE StopListPending(h)  BY <2>10 DEF StopListPending
  <2>11. CASE StopRejectOne(h)  BY <2>11 DEF StopRejectOne, DecideRejection
  <2>12. CASE StopFails(h)  BY <2>12 DEF StopFails, HandlerMoves
  <2>13. CASE StopDone(h)  BY <2>13 DEF StopDone, HandlerMoves
  <2> QED
    BY <1>4, <2>1, <2>2, <2>3, <2>4, <2>5, <2>6, <2>7, <2>8, <2>9, <2>10, <2>11, <2>12, <2>13 DEF DecideStep
<1>5. ASSUME NEW h \in Handlers, Request(h) PROVE run'[q] = run[q]
  <2>1. ASSUME NEW r \in Runs, NEW mode \in {"async", "sync"}, BeginApprove(h, r, mode)
        PROVE  run'[q] = run[q]
    BY <2>1 DEF BeginApprove
  <2>2. ASSUME NEW r \in Runs, Reject(h, r) PROVE run'[q] = run[q]
    BY <2>2 DEF Reject, DecideRejection
  <2>3. CASE StopBegin(h)  BY <2>3 DEF StopBegin
  <2> QED  BY <1>5, <2>1, <2>2, <2>3 DEF Request
<1>6. CASE Environment
  <2>1. CASE EditHost  BY <2>1 DEF EditHost
  <2>2. CASE Shutdown  BY <2>2 DEF Shutdown
  <2>3. CASE Crash  BY <2>3 DEF Crash
  <2>4. ASSUME NEW r \in Runs, AwaitCancelled(r) PROVE run'[q] = run[q]
    BY <2>4 DEF AwaitCancelled, Return
  <2>5. ASSUME NEW r \in Runs, CallerGone(r) PROVE run'[q] = run[q]
    BY <2>5 DEF CallerGone
  <2>6. ASSUME NEW r \in Runs, CancelTaskExecution(r) PROVE run'[q] = run[q]
    BY <2>6 DEF CancelTaskExecution, CancelApprovedExecution
  <2>7. ASSUME NEW r \in Runs, CLIKilled(r) PROVE run'[q] = run[q]
    BY <2>7 DEF CLIKilled
  <2> QED  BY <1>6, <2>1, <2>2, <2>3, <2>4, <2>5, <2>6, <2>7 DEF Environment
<1> QED
  BY <1>1, <1>2, <1>3, <1>4, <1>5, <1>6 DEF Next

THEOREM FinalStays == Spec => FinalStatusStays
<1>1. IInv /\ [Next]_vars => [\A r \in Runs : run[r] \in FinalStatus => run'[r] = run[r]]_vars
  BY FinalStep
<1> QED
  BY <1>1, Invariance, PTL DEF Spec, FinalStatusStays
-----------------------------------------------------------------------------
\* The status an approved call was given is final and the one of its row.
Carries(r) ==
    submit[r] = "returned" /\ approval[r] = "approved" /\ delivered[r] \in RunStatus
        => delivered[r] \in FinalStatus /\ delivered[r] = run[r]

\* What awaiting calls and the writers of results rely on, for every run.
CallsInv == \A r \in Runs : CallInv(r) /\ EffectInv(r) /\ Carries(r)

\* No step breaks what a call that waits, or a result that is written, relies on.
LEMMA CallStep ==
  ASSUME IInv, CallsInv, [Next]_vars, NEW q \in Runs
  PROVE  CallInv(q)' /\ EffectInv(q)' /\ Carries(q)'
<1> DEFINE Kept == CallInv(q)' /\ EffectInv(q)' /\ Carries(q)'
<1> USE DEF CallInv, EffectInv, Carries, SubmitInv, WorkerInv, RowsAgree, rowVars, submitVars, workerVars,
      registryVars, handlerVars, envVars
<1>0. /\ \A r \in Runs : SubmitInv(r) /\ WorkerInv(r) /\ RowsAgree(r) /\ CallInv(r) /\ EffectInv(r) /\ Carries(r)
      /\ run \in [Runs -> RunStatus] /\ approval \in [Runs -> ApprovalStatus]
      /\ submit \in [Runs -> SubmitPC] /\ bound \in [Runs -> Versions \cup {NoVersion}]
      /\ worker \in [Runs -> WorkerPC] /\ via \in [Runs -> Route]
      /\ outcome \in [Runs -> FinalStatus \cup {"none"}]
      /\ conn \in [Runs -> Versions \cup {NoVersion}] /\ effects \in [Runs -> Nat]
      /\ delivered \in [Runs -> RunStatus \cup {"none", "told_to_wait", "error"}]
  BY DEF IInv, CallsInv, DecisionGovernsRun, TypeOK
<1> USE <1>0
<1>1. CASE UNCHANGED vars
  BY <1>1 DEF vars
<1>2. ASSUME NEW r \in Runs, SubmitStep(r) PROVE Kept
  <2> USE DEF Return
  <2>1. CASE BindRequest(r)  BY <2>1 DEF BindRequest
  <2>2. CASE SubmitDirect(r)  BY <2>2 DEF SubmitDirect
  <2>3. CASE SubmitAutoRejected(r)  BY <2>3 DEF SubmitAutoRejected, RunStatus, FinalStatus
  <2>4. CASE SubmitCreateRun(r)  BY <2>4 DEF SubmitCreateRun
  <2>5. CASE SubmitCreateApproval(r)  BY <2>5 DEF SubmitCreateApproval, RunStatus, FinalStatus
  <2>6. CASE SubmitFails(r)  BY <2>6 DEF SubmitFails, RunStatus, FinalStatus
  <2>7. CASE AwaitReadApproval(r)  BY <2>7 DEF AwaitReadApproval
  <2>8. CASE AwaitReadRun(r)  BY <2>8 DEF AwaitReadRun
  <2>9. CASE DirectReturns(r)  BY <2>9 DEF DirectReturns
  <2> QED
    BY <1>2, <2>1, <2>2, <2>3, <2>4, <2>5, <2>6, <2>7, <2>8, <2>9 DEF SubmitStep
<1>3. ASSUME NEW r \in Runs, ExecuteStep(r) PROVE Kept
  <2> USE DEF WorkerStep, AfterError
  <2>1. CASE FailBeforeTransport(r)  BY <2>1 DEF FailBeforeTransport, FinalStatus
  <2>2. CASE AcquireCapacity(r)  BY <2>2 DEF AcquireCapacity
  <2>3. CASE AcquireCancelled(r)  BY <2>3 DEF AcquireCancelled
  <2>4. CASE VerifyBinding(r)  BY <2>4 DEF VerifyBinding
  <2>5. CASE CallTransport(r)  BY <2>5 DEF CallTransport
  <2>6. CASE TransportReturns(r)  BY <2>6 DEF TransportReturns
  <2>7. CASE WorkerPanics(r)  BY <2>7 DEF WorkerPanics
  <2>8. CASE PersistResult(r)  BY <2>8 DEF PersistResult, FinalStatus
  <2>9. CASE PersistFails(r)  BY <2>9 DEF PersistFails
  <2>10. CASE FinishError(r)  BY <2>10 DEF FinishError, RecordError, ErrorRecorded, Unfinished, FinalStatus
  <2>11. CASE WorkerEnds(r)  BY <2>11 DEF WorkerEnds
  <2> QED
    BY <1>3, <2>1, <2>2, <2>3, <2>4, <2>5, <2>6, <2>7, <2>8, <2>9, <2>10, <2>11 DEF ExecuteStep
<1>4. ASSUME NEW h \in Handlers, DecideStep(h) PROVE Kept
  <2>0. handler[h].run \in Runs /\ handler[h].todo \subseteq Runs /\ HandlerInv(h)
    BY <1>4 DEF IInv, TypeOK, HandlerState
  <2> USE <2>0 DEF HandlerInv
  <2>1. CASE CommitApproval(h)  BY <2>1 DEF CommitApproval, Approvable, HandlerMoves
  <2>2. CASE ApprovalFails(h)  BY <2>2 DEF ApprovalFails, HandlerMoves
  <2>3. CASE StartApproved(h)  BY <2>3 DEF StartApproved, Starts, Launch, HandlerMoves
  <2>4. CASE StartRefused(h)  BY <2>4 DEF StartRefused, Starts, HandlerMoves
  <2>5. CASE AbortStart(h)  BY <2>5 DEF AbortStart, RecordError, ErrorRecorded, Unfinished, HandlerMoves, FinalStatus
  <2>6. CASE StartSync(h)  BY <2>6 DEF StartSync, Starts, Launch, HandlerMoves
  <2>7. CASE RecordRejection(h)  BY <2>7 DEF RecordRejection, HandlerMoves
  <2>8. CASE StopSnapshot(h)  BY <2>8 DEF StopSnapshot
  <2>9. CASE StopCancelOne(h)  BY <2>9 DEF StopCancelOne, CancelApprovedExecution
  <2>10. CASE StopListPending(h)  BY <2>10 DEF StopListPending
  <2>11. CASE StopRejectOne(h)  BY <2>11 DEF StopRejectOne, DecideRejection
  <2>12. CASE StopFails(h)  BY <2>12 DEF StopFails, HandlerMoves
  <2>13. CASE StopDone(h)  BY <2>13 DEF StopDone, HandlerMoves
  <2> QED
    BY <1>4, <2>1, <2>2, <2>3, <2>4, <2>5, <2>6, <2>7, <2>8, <2>9, <2>10, <2>11, <2>12, <2>13 DEF DecideStep
<1>5. ASSUME NEW h \in Handlers, Request(h) PROVE Kept
  <2>1. ASSUME NEW r \in Runs, NEW mode \in {"async", "sync"}, BeginApprove(h, r, mode)
        PROVE  Kept
    BY <2>1 DEF BeginApprove
  <2>2. ASSUME NEW r \in Runs, Reject(h, r) PROVE Kept
    BY <2>2 DEF Reject, DecideRejection
  <2>3. CASE StopBegin(h)  BY <2>3 DEF StopBegin
  <2> QED  BY <1>5, <2>1, <2>2, <2>3 DEF Request
<1>6. CASE Environment
  <2>1. CASE EditHost  BY <2>1 DEF EditHost
  <2>2. CASE Shutdown  BY <2>2 DEF Shutdown
  <2>3. CASE Crash  BY <2>3 DEF Crash, RunStatus, FinalStatus
  <2>4. ASSUME NEW r \in Runs, AwaitCancelled(r) PROVE Kept
    BY <2>4 DEF AwaitCancelled, Return, RunStatus, FinalStatus
  <2>5. ASSUME NEW r \in Runs, CallerGone(r) PROVE Kept
    BY <2>5 DEF CallerGone
  <2>6. ASSUME NEW r \in Runs, CancelTaskExecution(r) PROVE Kept
    BY <2>6 DEF CancelTaskExecution, CancelApprovedExecution
  <2>7. ASSUME NEW r \in Runs, CLIKilled(r) PROVE Kept
    BY <2>7 DEF CLIKilled
  <2> QED  BY <1>6, <2>1, <2>2, <2>3, <2>4, <2>5, <2>6, <2>7 DEF Environment
<1> QED
  BY <1>1, <1>2, <1>3, <1>4, <1>5, <1>6 DEF Next

THEOREM Calls == Spec => [](IInv /\ CallsInv)
<1>1. Init => CallsInv
  BY DEF Init, CallsInv, CallInv, EffectInv, Carries
<1>2. IInv /\ CallsInv /\ [Next]_vars => CallsInv'
  BY CallStep DEF CallsInv
<1> QED
  BY <1>1, <1>2, Invariance, PTL DEF Spec

\* A tool call that resumes after an approval carries the final status of its run.
THEOREM CallCarriesResult == Spec => []ApprovedCallCarriesResult
<1>1. CallsInv => ApprovedCallCarriesResult
  BY DEF CallsInv, Carries, ApprovedCallCarriesResult
<1> QED
  BY <1>1, Calls, PTL

\* startApprovedExecution is the only one that registers, and it looks at
\* executionClosed under the same lock.
THEOREM ShutdownShrinks == Spec => NothingStartsAfterShutdown
<1> DEFINE Shrinks == closed /\ closed' => cancels' \subseteq cancels
<1>1. ASSUME [Next]_vars PROVE Shrinks
  <2> USE DEF registryVars
  <2>1. CASE UNCHANGED vars
    BY <2>1 DEF vars
  <2>2. ASSUME NEW r \in Runs, SubmitStep(r) \/ ExecuteStep(r) PROVE Shrinks
    BY <2>2 DEF SubmitStep, BindRequest, SubmitDirect, SubmitAutoRejected, SubmitCreateRun,
       SubmitCreateApproval, SubmitFails, AwaitReadApproval, AwaitReadRun, DirectReturns, ExecuteStep,
       FailBeforeTransport, AcquireCapacity, AcquireCancelled, VerifyBinding, CallTransport,
       TransportReturns, WorkerPanics, PersistResult, PersistFails, FinishError, WorkerEnds
  <2>3. ASSUME NEW h \in Handlers, DecideStep(h) PROVE Shrinks
    BY <2>3 DEF DecideStep, CommitApproval, ApprovalFails, StartApproved, StartRefused, AbortStart,
       StartSync, RecordRejection, StopSnapshot, StopCancelOne, StopListPending, StopRejectOne,
       StopFails, StopDone, CancelApprovedExecution
  <2>4. ASSUME NEW h \in Handlers, Request(h) PROVE Shrinks
    BY <2>4 DEF Request, BeginApprove, Reject, StopBegin
  <2>5. CASE Environment
    BY <2>5 DEF Environment, EditHost, Shutdown, Crash, AwaitCancelled, CallerGone,
       CancelTaskExecution, CancelApprovedExecution, CLIKilled
  <2> QED
    BY <1>1, <2>1, <2>2, <2>3, <2>4, <2>5 DEF Next
<1>2. [Next]_vars => [Shrinks]_vars
  BY <1>1
<1> QED
  BY <1>2, PTL DEF Spec, NothingStartsAfterShutdown

-----------------------------------------------------------------------------
(* The refinement of ApprovalPromise *)

\* What the promise sees of a run, here and after a step.
LEMMA PromiseSees ==
  ASSUME NEW r \in Runs, WorkerInv(r), RowsAgree(r), EffectInv(r)
  PROVE  /\ approval[r] = "pending" => decisionOf[r] = "waiting"
         /\ approval[r] = "approved" \/ via[r] = "direct" => decisionOf[r] = "granted"
         /\ approval[r] = "rejected" => decisionOf[r] = "refused"
         /\ (approval[r] = "absent" /\ via[r] # "direct" /\ run[r] = "rejected") =>
               decisionOf[r] = "refused"
         /\ (approval[r] = "absent" /\ via[r] # "direct" /\ run[r] # "rejected") =>
               decisionOf[r] = "none"
         /\ run[r] \in FinalStatus => recordOf[r] = run[r]
         /\ run[r] \notin FinalStatus => recordOf[r] = "open"
BY DEF decisionOf, recordOf, WorkerInv, RowsAgree, EffectInv

LEMMA PromiseSeesNext ==
  ASSUME NEW r \in Runs, WorkerInv(r)', RowsAgree(r)', EffectInv(r)'
  PROVE  /\ approval'[r] = "pending" => decisionOf'[r] = "waiting"
         /\ approval'[r] = "approved" \/ via'[r] = "direct" => decisionOf'[r] = "granted"
         /\ approval'[r] = "rejected" => decisionOf'[r] = "refused"
         /\ (approval'[r] = "absent" /\ via'[r] # "direct" /\ run'[r] = "rejected") =>
               decisionOf'[r] = "refused"
         /\ (approval'[r] = "absent" /\ via'[r] # "direct" /\ run'[r] # "rejected") =>
               decisionOf'[r] = "none"
         /\ run'[r] \in FinalStatus => recordOf'[r] = run'[r]
         /\ run'[r] \notin FinalStatus => recordOf'[r] = "open"
BY DEF decisionOf, recordOf, WorkerInv, RowsAgree, EffectInv

\* A step that writes neither rows nor routes nor effects is none of the promise.
Aside == UNCHANGED <<run, approval, via, effects>>

LEMMA AsideStutters == Aside => UNCHANGED Promise!promiseVars
BY DEF Aside, decisionOf, performedOf, recordOf, Promise!promiseVars

\* Nor does a step of one run show in the others.
Only(r) ==
    \A q \in Runs \ {r} :
        /\ run'[q] = run[q] /\ approval'[q] = approval[q]
        /\ via'[q] = via[q] /\ effects'[q] = effects[q]

LEMMA OnlyOne ==
  ASSUME NEW r \in Runs, Only(r)
  PROVE  /\ decisionOf' = [decisionOf EXCEPT ![r] = decisionOf'[r]]
         /\ recordOf' = [recordOf EXCEPT ![r] = recordOf'[r]]
         /\ effects'[r] = effects[r] => performedOf' = performedOf
         /\ effects[r] = 0 /\ effects'[r] > 0 => performedOf' = performedOf \cup {r} /\ r \notin performedOf
         /\ decisionOf'[r] = decisionOf[r] => decisionOf' = decisionOf
         /\ recordOf'[r] = recordOf[r] => recordOf' = recordOf
<1>1. /\ DOMAIN decisionOf = Runs /\ decisionOf' = [q \in Runs |-> decisionOf'[q]]
      /\ DOMAIN recordOf = Runs /\ recordOf' = [q \in Runs |-> recordOf'[q]]
      /\ decisionOf = [q \in Runs |-> decisionOf[q]] /\ recordOf = [q \in Runs |-> recordOf[q]]
  BY DEF decisionOf, recordOf
<1>2. \A q \in Runs \ {r} : decisionOf'[q] = decisionOf[q]
  BY DEF Only, decisionOf
<1>3. \A q \in Runs \ {r} : recordOf'[q] = recordOf[q]
  BY DEF Only, recordOf
<1>4. \A q \in Runs \ {r} : q \in performedOf' <=> q \in performedOf
  BY DEF Only, performedOf
<1>5. /\ decisionOf' = [decisionOf EXCEPT ![r] = decisionOf'[r]]
      /\ decisionOf'[r] = decisionOf[r] => decisionOf' = decisionOf
  <2> HIDE DEF decisionOf
  <2> QED  BY <1>1, <1>2
<1>6. /\ recordOf' = [recordOf EXCEPT ![r] = recordOf'[r]]
      /\ recordOf'[r] = recordOf[r] => recordOf' = recordOf
  BY <1>1, <1>3
<1>7. performedOf \subseteq Runs /\ performedOf' \subseteq Runs
  BY DEF performedOf
<1>8. (r \in performedOf <=> effects[r] > 0) /\ (r \in performedOf' <=> effects'[r] > 0)
  BY DEF performedOf
<1>9. effects'[r] = effects[r] => performedOf' = performedOf
  BY <1>4, <1>7, <1>8
<1>10. effects[r] = 0 /\ effects'[r] > 0 => performedOf' = performedOf \cup {r} /\ r \notin performedOf
  BY <1>4, <1>7, <1>8
<1> QED
  BY <1>5, <1>6, <1>9, <1>10

PromiseMoves == [Promise!PromiseNext]_(Promise!promiseVars)

\* Every step of the workflow is a step of the promise, or none of its business.
LEMMA PromiseStep ==
  ASSUME IInv, CallsInv, IInv', CallsInv', [Next]_vars
  PROVE  PromiseMoves
<1> USE DEF rowVars, submitVars, workerVars, registryVars, handlerVars, envVars
<1>0. /\ run \in [Runs -> RunStatus] /\ approval \in [Runs -> ApprovalStatus]
      /\ worker \in [Runs -> WorkerPC] /\ via \in [Runs -> Route] /\ effects \in [Runs -> Nat]
      /\ outcome \in [Runs -> FinalStatus \cup {"none"}]
      /\ handler \in [Handlers -> HandlerState]
      /\ \A r \in Runs : SubmitInv(r) /\ WorkerInv(r) /\ RowsAgree(r) /\ EffectInv(r)
      /\ \A r \in Runs : WorkerInv(r)' /\ RowsAgree(r)' /\ EffectInv(r)'
      /\ \A h \in Handlers : HandlerInv(h)
      /\ \A h \in Handlers : handler[h].run \in Runs
  BY DEF IInv, CallsInv, DecisionGovernsRun, TypeOK, HandlerState
<1> USE <1>0
<1> HIDE DEF IInv, CallsInv
<1>a. Aside => PromiseMoves
  BY AsideStutters DEF PromiseMoves
<1>b. ASSUME NEW r \in Runs, Promise!PromiseNext PROVE PromiseMoves
  BY <1>b DEF PromiseMoves
\* The error path: nothing, or the outcome of a run that was still running.
<1>c. ASSUME NEW r \in Runs, RecordError(r), approval[r] = "approved" \/ via[r] = "direct",
             outcome[r] \in {"failed", "interrupted"}, UNCHANGED <<approval, via, effects>>
      PROVE  PromiseMoves
  <2>1. CASE run[r] \in Unfinished /\ run' = [run EXCEPT ![r] = outcome[r]]
    <3>1. Only(r)  BY <1>c, <2>1 DEF Only
    <3>2. /\ decisionOf[r] = "granted" /\ decisionOf'[r] = "granted"
          /\ recordOf[r] = "open" /\ recordOf'[r] = outcome[r]
      BY <1>c, <2>1, PromiseSees, PromiseSeesNext DEF Unfinished, FinalStatus
    <3>3. Promise!Record(r, outcome[r])
      BY <1>c, <3>1, <3>2, OnlyOne DEF Promise!Record, Promise!Failures
    <3> QED  BY <1>b, <1>c, <3>3 DEF Promise!PromiseNext, Promise!Failures
  <2>2. CASE UNCHANGED run
    BY <1>a, <1>c, <2>2 DEF Aside
  <2> QED  BY <1>c, <2>1, <2>2 DEF RecordError, ErrorRecorded
<1>1. CASE UNCHANGED vars
  BY <1>1, <1>a DEF vars, Aside
<1>2. ASSUME NEW r \in Runs, SubmitStep(r) PROVE PromiseMoves
  <2> USE DEF SubmitInv
  <2>1. CASE BindRequest(r)  BY <2>1, <1>a DEF BindRequest, Aside
  <2>2. CASE SubmitDirect(r)
    <3>1. Only(r) /\ UNCHANGED effects  BY <2>2 DEF SubmitDirect, Only
    <3>2. /\ decisionOf[r] = "none" /\ decisionOf'[r] = "granted"
          /\ recordOf[r] = "open" /\ recordOf'[r] = "open"
      BY <2>2, PromiseSees, PromiseSeesNext DEF SubmitDirect, FinalStatus
    <3>3. Promise!Grant(r)
      BY <3>1, <3>2, OnlyOne DEF Promise!Grant, Promise!Decide
    <3> QED  BY <1>b, <3>3 DEF Promise!PromiseNext
  <2>3. CASE SubmitAutoRejected(r)
    <3>1. Only(r) /\ UNCHANGED effects  BY <2>3 DEF SubmitAutoRejected, Only
    <3>2. /\ decisionOf[r] = "none" /\ decisionOf'[r] = "refused"
          /\ recordOf[r] = "open" /\ recordOf'[r] = "rejected"
      BY <2>3, PromiseSees, PromiseSeesNext DEF SubmitAutoRejected, FinalStatus
    <3>3. Promise!RefuseAtOnce(r)
      BY <3>1, <3>2, OnlyOne DEF Promise!RefuseAtOnce, Promise!Decide
    <3> QED  BY <1>b, <3>3 DEF Promise!PromiseNext
  <2>4. CASE SubmitCreateRun(r)
    <3>1. Only(r) /\ UNCHANGED effects  BY <2>4 DEF SubmitCreateRun, Only
    <3>2. /\ decisionOf[r] = "none" /\ decisionOf'[r] = "none"
          /\ recordOf[r] = "open" /\ recordOf'[r] = "open"
      BY <2>4, PromiseSees, PromiseSeesNext DEF SubmitCreateRun, FinalStatus
    <3> QED  BY <3>1, <3>2, OnlyOne DEF PromiseMoves, Promise!promiseVars
  <2>5. CASE SubmitCreateApproval(r)
    <3>1. Only(r) /\ UNCHANGED effects  BY <2>5 DEF SubmitCreateApproval, Only
    <3>2. /\ decisionOf[r] = "none" /\ decisionOf'[r] = "waiting"
          /\ recordOf[r] = "open" /\ recordOf'[r] = "open"
      BY <2>5, PromiseSees, PromiseSeesNext DEF SubmitCreateApproval, FinalStatus
    <3>3. Promise!Ask(r)
      BY <3>1, <3>2, OnlyOne DEF Promise!Ask, Promise!Decide
    <3> QED  BY <1>b, <3>3 DEF Promise!PromiseNext
  <2>6. CASE SubmitFails(r)  BY <2>6, <1>a DEF SubmitFails, Aside
  <2>7. CASE AwaitReadApproval(r)  BY <2>7, <1>a DEF AwaitReadApproval, Aside
  <2>8. CASE AwaitReadRun(r)  BY <2>8, <1>a DEF AwaitReadRun, Aside
  <2>9. CASE DirectReturns(r)  BY <2>9, <1>a DEF DirectReturns, Aside
  <2> QED
    BY <1>2, <2>1, <2>2, <2>3, <2>4, <2>5, <2>6, <2>7, <2>8, <2>9 DEF SubmitStep
<1>3. ASSUME NEW r \in Runs, ExecuteStep(r) PROVE PromiseMoves
  <2> USE DEF WorkerStep
  <2>0. worker[r] # "none" => approval[r] = "approved" \/ via[r] = "direct"
    BY DEF WorkerInv, Route
  <2>1. CASE FailBeforeTransport(r)
    <3>1. CASE run' = [run EXCEPT ![r] = "failed"]
      <4>1. Only(r) /\ UNCHANGED <<approval, via, effects>>
        BY <2>1, <3>1 DEF FailBeforeTransport, Only
      <4>2. worker[r] \in {"acquire", "verify"} /\ run[r] = "running"
        BY <2>1 DEF FailBeforeTransport, WorkerInv
      <4>3. /\ decisionOf[r] = "granted" /\ decisionOf'[r] = "granted"
            /\ recordOf[r] = "open" /\ recordOf'[r] = "failed"
        BY <2>0, <3>1, <4>1, <4>2, PromiseSees, PromiseSeesNext DEF FinalStatus
      <4>4. Promise!Record(r, "failed")
        BY <4>1, <4>3, OnlyOne DEF Promise!Record, Promise!Failures
      <4> QED  BY <1>b, <4>4 DEF Promise!PromiseNext, Promise!Failures
    <3>2. CASE UNCHANGED run
      BY <1>a, <2>1, <3>2 DEF FailBeforeTransport, Aside
    <3> QED  BY <2>1, <3>1, <3>2 DEF FailBeforeTransport
  <2>2. CASE AcquireCapacity(r)  BY <2>2, <1>a DEF AcquireCapacity, Aside
  <2>3. CASE AcquireCancelled(r)  BY <2>3, <1>a DEF AcquireCancelled, Aside
  <2>4. CASE VerifyBinding(r)  BY <2>4, <1>a DEF VerifyBinding, Aside
  <2>5. CASE CallTransport(r)
    <3>1. Only(r) /\ UNCHANGED <<run, approval, via>> /\ effects[r] = 0 /\ effects'[r] > 0
      BY <2>5 DEF CallTransport, Only, WorkerInv
    <3>2. run[r] = "running" /\ (approval[r] = "approved" \/ via[r] = "direct")
      BY <2>0, <2>5 DEF CallTransport, WorkerInv
    <3>3. /\ decisionOf[r] = "granted" /\ decisionOf'[r] = "granted"
          /\ recordOf[r] = "open" /\ recordOf'[r] = "open"
      BY <3>1, <3>2, PromiseSees, PromiseSeesNext DEF FinalStatus
    <3>4. Promise!Perform(r)
      BY <3>1, <3>3, OnlyOne DEF Promise!Perform
    <3> QED  BY <1>b, <3>4 DEF Promise!PromiseNext
  <2>6. CASE TransportReturns(r)  BY <2>6, <1>a DEF TransportReturns, Aside
  <2>7. CASE WorkerPanics(r)  BY <2>7, <1>a DEF WorkerPanics, Aside
  <2>8. CASE PersistResult(r)
    <3>1. /\ Only(r) /\ UNCHANGED <<approval, via, effects>>
          /\ run' = [run EXCEPT ![r] = outcome[r]] /\ worker[r] = "persist"
      BY <2>8 DEF PersistResult, Only
    <3>2. /\ run[r] = "running" /\ effects[r] = 1
          /\ outcome[r] \in {"completed", "partial", "failed", "interrupted"}
      BY <3>1 DEF WorkerInv, EffectInv
    <3>3. /\ decisionOf[r] = "granted" /\ decisionOf'[r] = "granted"
          /\ recordOf[r] = "open" /\ recordOf'[r] = outcome[r] /\ r \in performedOf
      BY <2>0, <3>1, <3>2, PromiseSees, PromiseSeesNext DEF FinalStatus, performedOf
    <3>4. Promise!Record(r, outcome[r])
      BY <3>1, <3>2, <3>3, OnlyOne DEF Promise!Record, Promise!Failures, Promise!Completions
    <3> QED
      BY <1>b, <3>2, <3>4 DEF Promise!PromiseNext, Promise!Failures, Promise!Completions
  <2>9. CASE PersistFails(r)  BY <2>9, <1>a DEF PersistFails, Aside
  <2>10. CASE FinishError(r)
    BY <1>c, <2>0, <2>10 DEF FinishError, WorkerInv
  <2>11. CASE WorkerEnds(r)  BY <2>11, <1>a DEF WorkerEnds, Aside
  <2> QED
    BY <1>3, <2>1, <2>2, <2>3, <2>4, <2>5, <2>6, <2>7, <2>8, <2>9, <2>10, <2>11 DEF ExecuteStep
\* store.DecideApproval, by whichever handler.
<1>4. ASSUME NEW r \in Runs, DecideRejection(r), UNCHANGED <<run, via, effects>> PROVE PromiseMoves
  <2>1. Only(r)  BY <1>4 DEF DecideRejection, Only
  <2>2. /\ decisionOf[r] = "waiting" /\ decisionOf'[r] = "refused"
        /\ recordOf[r] = "open" /\ recordOf'[r] = "open"
    BY <1>4, PromiseSees, PromiseSeesNext DEF DecideRejection, RowsAgree, FinalStatus
  <2>3. Promise!Refuse(r)
    BY <1>4, <2>1, <2>2, OnlyOne DEF Promise!Refuse, Promise!Decide
  <2> QED  BY <1>b, <2>3 DEF Promise!PromiseNext
<1>5. ASSUME NEW h \in Handlers, DecideStep(h) PROVE PromiseMoves
  <2> DEFINE r == handler[h].run
  <2>1. CASE CommitApproval(h)
    <3>1. Only(r) /\ UNCHANGED <<via, effects>>  BY <2>1 DEF CommitApproval, Only
    <3>2. /\ decisionOf[r] = "waiting" /\ decisionOf'[r] = "granted"
          /\ recordOf[r] = "open" /\ recordOf'[r] = "open"
      BY <2>1, PromiseSees, PromiseSeesNext DEF CommitApproval, Approvable, FinalStatus
    <3>3. Promise!Grant(r)
      BY <3>1, <3>2, OnlyOne DEF Promise!Grant, Promise!Decide
    <3> QED  BY <1>b, <3>3 DEF Promise!PromiseNext
  <2>2. CASE ApprovalFails(h)  BY <2>2, <1>a DEF ApprovalFails, Aside
  <2>3. CASE StartApproved(h) \/ StartSync(h)
    <3>1. Only(r) /\ UNCHANGED <<run, approval, effects>> /\ handler[h].pc = "starting"
      BY <2>3 DEF StartApproved, StartSync, Starts, Launch, Only
    <3>2. approval[r] = "approved" /\ run[r] = "running"  BY <3>1 DEF HandlerInv
    <3>3. decisionOf'[r] = decisionOf[r] /\ recordOf'[r] = recordOf[r]
      BY <3>1, <3>2, PromiseSees, PromiseSeesNext DEF FinalStatus
    <3> QED  BY <3>1, <3>3, OnlyOne DEF PromiseMoves, Promise!promiseVars
  <2>4. CASE StartRefused(h)  BY <2>4, <1>a DEF StartRefused, Aside
  <2>5. CASE AbortStart(h)  BY <1>c, <2>5 DEF AbortStart, HandlerInv
  <2>6. CASE RecordRejection(h)
    <3>0. approval[r] = "rejected" /\ UNCHANGED <<approval, via, effects>>
      BY <2>6 DEF RecordRejection, HandlerInv
    <3>1. CASE run' = [run EXCEPT ![r] = "rejected"] /\ run[r] = "approval_required"
      <4>1. Only(r)  BY <3>0, <3>1 DEF Only
      <4>2. /\ decisionOf[r] = "refused" /\ decisionOf'[r] = "refused"
            /\ recordOf[r] = "open" /\ recordOf'[r] = "rejected"
        BY <3>0, <3>1, PromiseSees, PromiseSeesNext DEF FinalStatus
      <4>3. Promise!Record(r, "rejected")
        BY <3>0, <4>1, <4>2, OnlyOne DEF Promise!Record
      <4> QED  BY <1>b, <4>3 DEF Promise!PromiseNext
    <3>2. CASE UNCHANGED run
      BY <1>a, <3>0, <3>2 DEF Aside
    <3>3. run[r] \in {"approval_required", "rejected"}
      BY <3>0 DEF RowsAgree
    <3> QED  BY <2>6, <3>1, <3>2, <3>3 DEF RecordRejection
  <2>7. CASE StopSnapshot(h)  BY <2>7, <1>a DEF StopSnapshot, Aside
  <2>8. CASE StopCancelOne(h)  BY <2>8, <1>a DEF StopCancelOne, Aside
  <2>9. CASE StopListPending(h)  BY <2>9, <1>a DEF StopListPending, Aside
  <2>10. CASE StopRejectOne(h)
    <3>1. PICK q \in handler[h].todo : DecideRejection(q) \/ UNCHANGED approval
      BY <2>10 DEF StopRejectOne
    <3>2. q \in Runs /\ UNCHANGED <<run, via, effects>>
      BY <2>10 DEF StopRejectOne, HandlerState
    <3> QED  BY <1>4, <1>a, <3>1, <3>2 DEF Aside
  <2>11. CASE StopFails(h)  BY <2>11, <1>a DEF StopFails, Aside
  <2>12. CASE StopDone(h)  BY <2>12, <1>a DEF StopDone, Aside
  <2> QED
    BY <1>5, <2>1, <2>2, <2>3, <2>4, <2>5, <2>6, <2>7, <2>8, <2>9, <2>10, <2>11, <2>12
    DEF DecideStep
<1>6. ASSUME NEW h \in Handlers, Request(h) PROVE PromiseMoves
  <2>1. ASSUME NEW r \in Runs, NEW mode \in {"async", "sync"}, BeginApprove(h, r, mode)
        PROVE  PromiseMoves
    BY <2>1, <1>a DEF BeginApprove, Aside
  <2>2. ASSUME NEW r \in Runs, Reject(h, r) PROVE PromiseMoves
    BY <2>2, <1>4 DEF Reject
  <2>3. CASE StopBegin(h)  BY <2>3, <1>a DEF StopBegin, Aside
  <2> QED  BY <1>6, <2>1, <2>2, <2>3 DEF Request
<1>7. CASE Environment
  BY <1>7, <1>a DEF Environment, EditHost, Shutdown, Crash, AwaitCancelled, CallerGone,
     CancelTaskExecution, CLIKilled, Aside
<1> QED
  BY <1>1, <1>2, <1>3, <1>5, <1>6, <1>7 DEF Next

\* Service.Submit, Approve, Reject and execute implement the promise: one decision, at
\* most one execution after it, one recorded outcome that agrees with both.
THEOREM PromiseKept == Spec => KeepsPromise
<1>1. Init => Promise!PromiseInit
  BY DEF Init, Promise!PromiseInit, decisionOf, performedOf, recordOf, FinalStatus
<1>2. IInv /\ CallsInv /\ (IInv /\ CallsInv)' /\ [Next]_vars => [Promise!PromiseNext]_(Promise!promiseVars)
  BY PromiseStep DEF PromiseMoves
<1> QED
  BY <1>1, <1>2, Calls, PTL DEF Spec, KeepsPromise, Promise!PromiseSpec
=============================================================================
