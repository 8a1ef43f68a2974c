------------------------ MODULE BackgroundTask_proofs ------------------------
(***************************************************************************)
(* Proofs about BackgroundTask, for any tasks and any number of crashes.   *)
(*                                                                         *)
(* The three invariants of the runs are not inductive: that a row tells    *)
(* the truth about its run depends on what the goroutine carries between   *)
(* its look at the rows and its write, and on a run that is completed or   *)
(* rejected not moving any more; that an active row has an owner depends   *)
(* on when the map s.tasks loses its entry.  RowsInv, StageInv, OwnerInv   *)
(* and ReportInv say so.                                                   *)
(***************************************************************************)
EXTENDS BackgroundTask, TLAPS

\* The invariants of the runs, of one task.
Reaches(t) ==
    t \in known /\ canceller[t] \in {"record", "write", "done"} =>
        /\ approval[t] # "pending"
        /\ exec[t] = "starting" => t \in markers
        /\ exec[t] = "running"  => t \in execCancelled

Agrees(t) == row[t] \in {"completed", "rejected"} => run[t] = row[t]

Owned(t) ==
    row[t] \in Active /\ canceller[t] = "idle" => t \in live \/ main[t] \in {"stored", "write_final"}

TaskInv(t) ==
    RowsInv(t) /\ StageInv(t) /\ OwnerInv(t) /\ ReportInv(t) /\ Reaches(t) /\ Agrees(t) /\ Owned(t)

LEMMA InvariantOfTasks == IInv <=> TypeOK /\ \A t \in Tasks : TaskInv(t)
BY DEF IInv, TaskInv, Reaches, Agrees, Owned, CancelReachesExecution, TaskAgreesWithRun,
       ActiveRowHasOwner, TypeOK

\* Every step leaves every variable well typed.
LEMMA TypingStep == ASSUME TypeOK, [Next]_vars PROVE TypeOK'
<1> USE TaskBounds DEF TypeOK, TaskStatus, RunFinal, Active, MainPC, CancelPC, taskVars, mainVars, rowVars,
      execVars, procVars, Goto, CancelMoves
<1>1. CASE UNCHANGED vars
  BY <1>1 DEF vars
<1>2. ASSUME NEW t \in Tasks, GoroutineStep(t) PROVE TypeOK'
  <2>1. CASE Register(t)  BY <2>1 DEF Register
  <2>2. CASE SubmitFails(t)  BY <2>2 DEF SubmitFails
  <2>3. CASE SubmitExecutes(t)  BY <2>3 DEF SubmitExecutes
  <2>4. CASE SubmitCreatesRun(t)  BY <2>4 DEF SubmitCreatesRun
  <2>5. CASE SubmitAsks(t)  BY <2>5 DEF SubmitAsks
  <2>6. CASE DirectEnds(t)  BY <2>6 DEF DirectEnds
  <2>7. CASE WriteOutput(t)  BY <2>7 DEF WriteOutput, WriteSnapshot
  <2>8. CASE FinishTask(t)  BY <2>8 DEF FinishTask, Update
  <2>9. CASE WriteFinal(t)  BY <2>9 DEF WriteFinal, WriteSnapshot
  <2>10. CASE RecordApproval(t)  BY <2>10 DEF RecordApproval, Update
  <2>11. CASE WriteAsked(t)  BY <2>11 DEF WriteAsked, WriteSnapshot
  <2>12. CASE RejectOrphan(t)  BY <2>12 DEF RejectOrphan, Decide
  <2>13. CASE RecordOrphan(t)  BY <2>13 DEF RecordOrphan
  <2>14. CASE TrackApproval(t)  BY <2>14 DEF TrackApproval
  <2>15. CASE TrackRun(t)  BY <2>15 DEF TrackRun, Tracked, Update
  <2>16. CASE WriteTracked(t)  BY <2>16 DEF WriteTracked, WriteSnapshot
  <2>17. CASE TrackTick(t)  BY <2>17 DEF TrackTick
  <2>18. CASE TrackInterrupted(t)  BY <2>18 DEF TrackInterrupted, Update
  <2> QED
    BY <1>2, <2>1, <2>2, <2>3, <2>4, <2>5, <2>6, <2>7, <2>8, <2>9, <2>10, <2>11, <2>12, <2>13, <2>14, <2>15, <2>16, <2>17, <2>18 DEF GoroutineStep
<1>3. ASSUME NEW t \in Tasks, CancelStep(t) PROVE TypeOK'
  <2>1. CASE CancelContext(t)  BY <2>1 DEF CancelContext
  <2>2. CASE CancelCheck(t)  BY <2>2 DEF CancelCheck, CancelExecution
  <2>3. CASE CancelReject(t)  BY <2>3 DEF CancelReject, Decide, CancelExecution
  <2>4. CASE CancelRecord(t)  BY <2>4 DEF CancelRecord
  <2>5. CASE CancelWrite(t)  BY <2>5 DEF CancelWrite
  <2> QED
    BY <1>3, <2>1, <2>2, <2>3, <2>4, <2>5 DEF CancelStep
<1>4. ASSUME NEW t \in Tasks, ServerStep(t) PROVE TypeOK'
  <2>1. CASE Start(t)  BY <2>1 DEF Start
  <2>2. CASE ExecutionEnds(t)  BY <2>2 DEF ExecutionEnds
  <2>3. CASE ElsewhereEnds(t)  BY <2>3 DEF ElsewhereEnds
  <2>4. CASE OperatorRecords(t)  BY <2>4 DEF OperatorRecords
  <2> QED
    BY <1>4, <2>1, <2>2, <2>3, <2>4 DEF ServerStep
<1>5. ASSUME NEW t \in Tasks,
             \/ StartTask(t) \/ Output(t) \/ CancelTask(t)
             \/ Approve(t) \/ ApproveElsewhere(t) \/ OperatorRejects(t) \/ OperatorDies(t)
      PROVE  TypeOK'
  <2>1. CASE StartTask(t)  BY <2>1 DEF StartTask
  <2>2. CASE Output(t)  BY <2>2 DEF Output, Update
  <2>3. CASE CancelTask(t)  BY <2>3 DEF CancelTask
  <2>4. CASE Approve(t)  BY <2>4 DEF Approve
  <2>5. CASE ApproveElsewhere(t)  BY <2>5 DEF ApproveElsewhere
  <2>6. CASE OperatorRejects(t)  BY <2>6 DEF OperatorRejects, Decide
  <2>7. CASE OperatorDies(t)  BY <2>7 DEF OperatorDies
  <2> QED
    BY <1>5, <2>1, <2>2, <2>3, <2>4, <2>5, <2>6, <2>7
<1>6. CASE Shutdown
  BY <1>6 DEF Shutdown
<1>7. CASE Crash
  <2>1. row' \in [Tasks -> TaskStatus]
    BY <1>7 DEF Crash, Recovered
  <2>2. main' \in [Tasks -> MainPC]
    BY <1>7 DEF Crash
  <2>3. canceller' \in [Tasks -> CancelPC]
    BY <1>7 DEF Crash
  <2>4. exec' \in [Tasks -> {"none", "starting", "running", "elsewhere", "done"}]
    BY <1>7 DEF Crash
  <2>5. crashes' \in 0 .. MaxCrashes
    BY <1>7 DEF Crash
  <2> QED
    BY <1>7, <2>1, <2>2, <2>3, <2>4, <2>5 DEF Crash
<1> QED
  BY <1>1, <1>2, <1>3, <1>4, <1>5, <1>6, <1>7 DEF Next

\* No step of any task, of the operator or of the environment spoils what is known of
\* a task.
LEMMA TaskStep ==
  ASSUME TypeOK, \A t \in Tasks : TaskInv(t), [Next]_vars, NEW q \in Tasks
  PROVE  TaskInv(q)'
<1> USE DEF TypeOK, TaskInv, RowsInv, StageInv, OwnerInv, ReportInv, Reaches, Agrees, Owned, Active, RunFinal,
      taskVars, mainVars, rowVars, execVars, procVars, Goto, CancelMoves
<1>1. CASE UNCHANGED vars
  BY <1>1 DEF vars
<1>2. ASSUME NEW t \in Tasks, GoroutineStep(t) PROVE TaskInv(q)'
  <2>1. CASE Register(t)  BY <2>1 DEF Register
  <2>2. CASE SubmitFails(t)  BY <2>2 DEF SubmitFails
  <2>3. CASE SubmitExecutes(t)  BY <2>3 DEF SubmitExecutes
  <2>4. CASE SubmitCreatesRun(t)  BY <2>4 DEF SubmitCreatesRun
  <2>5. CASE SubmitAsks(t)  BY <2>5 DEF SubmitAsks
  <2>6. CASE DirectEnds(t)  BY <2>6 DEF DirectEnds
  <2>7. CASE WriteOutput(t)  BY <2>7 DEF WriteOutput, WriteSnapshot
  <2>8. CASE FinishTask(t)  BY <2>8 DEF FinishTask, Update
  <2>9. CASE WriteFinal(t)  BY <2>9 DEF WriteFinal, WriteSnapshot
  <2>10. CASE RecordApproval(t)  BY <2>10 DEF RecordApproval, Update
  <2>11. CASE WriteAsked(t)  BY <2>11 DEF WriteAsked, WriteSnapshot
  <2>12. CASE RejectOrphan(t)  BY <2>12 DEF RejectOrphan, Decide
  <2>13. CASE RecordOrphan(t)  BY <2>13 DEF RecordOrphan
  <2>14. CASE TrackApproval(t)  BY <2>14 DEF TrackApproval
  <2>15. CASE TrackRun(t)  BY <2>15 DEF TrackRun, Tracked, Update
  <2>16. CASE WriteTracked(t)  BY <2>16 DEF WriteTracked, WriteSnapshot
  <2>17. CASE TrackTick(t)  BY <2>17 DEF TrackTick
  <2>18. CASE TrackInterrupted(t)  BY <2>18 DEF TrackInterrupted, Update
  <2> QED
    BY <1>2, <2>1, <2>2, <2>3, <2>4, <2>5, <2>6, <2>7, <2>8, <2>9, <2>10, <2>11, <2>12, <2>13, <2>14, <2>15, <2>16, <2>17, <2>18 DEF GoroutineStep
<1>3. ASSUME NEW t \in Tasks, CancelStep(t) PROVE TaskInv(q)'
  <2>1. CASE CancelContext(t)  BY <2>1 DEF CancelContext
  <2>2. CASE CancelCheck(t)  BY <2>2 DEF CancelCheck, CancelExecution
  <2>3. CASE CancelReject(t)  BY <2>3 DEF CancelReject, Decide, CancelExecution
  <2>4. CASE CancelRecord(t)  BY <2>4 DEF CancelRecord
  <2>5. CASE CancelWrite(t)  BY <2>5 DEF CancelWrite
  <2> QED
    BY <1>3, <2>1, <2>2, <2>3, <2>4, <2>5 DEF CancelStep
<1>4. ASSUME NEW t \in Tasks, ServerStep(t) PROVE TaskInv(q)'
  <2>1. CASE Start(t)  BY <2>1 DEF Start
  <2>2. CASE ExecutionEnds(t)  BY <2>2 DEF ExecutionEnds
  <2>3. CASE ElsewhereEnds(t)  BY <2>3 DEF ElsewhereEnds
  <2>4. CASE OperatorRecords(t)  BY <2>4 DEF OperatorRecords
  <2> QED
    BY <1>4, <2>1, <2>2, <2>3, <2>4 DEF ServerStep
<1>5. ASSUME NEW t \in Tasks,
             \/ StartTask(t) \/ Output(t) \/ CancelTask(t)
             \/ Approve(t) \/ ApproveElsewhere(t) \/ OperatorRejects(t) \/ OperatorDies(t)
      PROVE  TaskInv(q)'
  <2>1. CASE StartTask(t)  BY <2>1 DEF StartTask
  <2>2. CASE Output(t)  BY <2>2 DEF Output, Update
  <2>3. CASE CancelTask(t)  BY <2>3 DEF CancelTask
  <2>4. CASE Approve(t)  BY <2>4 DEF Approve
  <2>5. CASE ApproveElsewhere(t)  BY <2>5 DEF ApproveElsewhere
  <2>6. CASE OperatorRejects(t)  BY <2>6 DEF OperatorRejects, Decide
  <2>7. CASE OperatorDies(t)  BY <2>7 DEF OperatorDies
  <2> QED
    BY <1>5, <2>1, <2>2, <2>3, <2>4, <2>5, <2>6, <2>7
<1>6. CASE Shutdown
  BY <1>6 DEF Shutdown
<1>7. CASE Crash
  BY <1>7 DEF Crash, Recovered
<1> QED
  BY <1>1, <1>2, <1>3, <1>4, <1>5, <1>6, <1>7 DEF Next

-----------------------------------------------------------------------------
\* The inductive invariant holds of every reachable state.
THEOREM Invariance == Spec => []IInv
<1>1. Init => TypeOK /\ \A t \in Tasks : TaskInv(t)
  <2> SUFFICES ASSUME Init PROVE TypeOK /\ \A t \in Tasks : TaskInv(t)
    OBVIOUS
  <2>1. TypeOK
    <3>1. live \subseteq Tasks /\ known \subseteq Tasks /\ ctxDone \subseteq Tasks /\ recording \subseteq Tasks
      BY DEF Init
    <3>2. execCancelled \subseteq Tasks /\ markers \subseteq Tasks /\ closed \in BOOLEAN /\ lost \subseteq Tasks
      BY DEF Init
    <3>3. /\ mem \in [Tasks -> TaskStatus] /\ row \in [Tasks -> TaskStatus]
          /\ snapshot \in [Tasks -> TaskStatus]
      BY DEF Init, TaskStatus
    <3>4. main \in [Tasks -> MainPC] /\ canceller \in [Tasks -> CancelPC]
      BY DEF Init, MainPC, CancelPC
    <3>5. /\ sawApproval \in [Tasks -> {"absent", "pending", "approved", "rejected"}]
          /\ approval \in [Tasks -> {"absent", "pending", "approved", "rejected"}]
          /\ run \in [Tasks -> {"absent"} \cup Active \cup RunFinal]
          /\ exec \in [Tasks -> {"none", "starting", "running", "elsewhere", "done"}]
      BY DEF Init
    <3>6. crashes \in 0 .. MaxCrashes
      BY TaskBounds DEF Init
    <3> QED
      BY <3>1, <3>2, <3>3, <3>4, <3>5, <3>6 DEF TypeOK
  <2>2. \A t \in Tasks : TaskInv(t)
    BY DEF Init, TaskInv, RowsInv, StageInv, OwnerInv, ReportInv, Reaches, Agrees, Owned, Active
  <2> QED
    BY <2>1, <2>2
<1>2. TypeOK /\ (\A t \in Tasks : TaskInv(t)) /\ [Next]_vars => (TypeOK /\ \A t \in Tasks : TaskInv(t))'
  BY TypingStep, TaskStep
<1> QED
  BY <1>1, <1>2, InvariantOfTasks, PTL DEF Spec

\* CancelTask leaves no execution of this process undisturbed whose approval the
\* task had recorded.
THEOREM CancelReaches == Spec => []CancelReachesExecution
<1>1. IInv => CancelReachesExecution
  BY DEF IInv
<1> QED
  BY <1>1, Invariance, PTL

\* A row claims completed or rejected only of a run that is.
THEOREM RowsTellTheTruth == Spec => []TaskAgreesWithRun
<1>1. IInv => TaskAgreesWithRun
  BY DEF IInv
<1> QED
  BY <1>1, Invariance, PTL

\* An active row has a goroutine that will finish it, also after restarts.
THEOREM ActiveRowsOwned == Spec => []ActiveRowHasOwner
<1>1. IInv => ActiveRowHasOwner
  BY DEF IInv
<1> QED
  BY <1>1, Invariance, PTL
=============================================================================
