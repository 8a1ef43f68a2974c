------------------------ MODULE ApprovalExplanation ------------------------
(***************************************************************************)
(* The model's opinion on a request: in auto mode it routes the request, in *)
(* the other mode an explanation is worked out beside the human decision.   *)
(* Explanations queue for a slot and a reviewer, an operator may ask for a   *)
(* new one, and a decision is to cancel whatever is under way.              *)
(***************************************************************************)
EXTENDS Integers, FiniteSets

CONSTANTS Approvals, MaxRetries, Slots, Sems   \* bound on retries; the two limits of the code

None == "none"
NoTask == <<>>
Tasks == Approvals \X (0 .. MaxRetries)
Retries == Approvals \X (1 .. MaxRetries)
Of(t) == t[1]
NoReview == <<>>                     \* reviews: <<"pending">>, Skipped, a task, or <<"auto", opinion>>
Skipped == <<"skipped">>
First(t) == t[2] = 0                 \* the explanation that submit starts

VARIABLES
    row,            \* the request: its approval's status, or what auto mode made of it
    submit, decider,\* where submit and the decision are
    review,         \* ai_review_json of the run: who wrote it
    active,         \* explanationActive
    slots, sem, autoSem,
    pc, cancelled   \* the tasks, and those whose context is cancelled

vars == <<row, submit, decider, review, active, slots, sem, autoSem, pc, cancelled>>
tasks == <<active, slots, sem, pc, cancelled>>

Init ==
    /\ row = [a \in Approvals |-> None] /\ submit = [a \in Approvals |-> "new"]
    /\ decider = [a \in Approvals |-> None] /\ review = [a \in Approvals |-> NoReview]
    /\ active = [a \in Approvals |-> NoTask]
    /\ slots = {} /\ sem = {} /\ autoSem = {}
    /\ pc = [t \in Tasks |-> "idle"] /\ cancelled = {}

Goto(t, from, to) == pc[t] = from /\ pc' = [pc EXCEPT ![t] = to]

\* What the subagent answered, and what the two Review functions and
\* normalizeCommandReview make of it.
Replies == {"failed", "malformed", "incomplete", "other", "allow", "reject", "manual"}
Opinion(status, decision) == [status |-> status, decision |-> decision]
ReviewOf(reply) ==
    CASE reply = "failed" -> Opinion("unavailable", "none")
      [] reply \in {"allow", "reject", "manual"} -> Opinion("completed", reply)
      [] OTHER -> Opinion("degraded", "none")

Route(opinion) ==
    CASE opinion = Opinion("completed", "allow") -> "running"
      [] opinion = Opinion("completed", "reject") -> "rejected"
      [] OTHER -> "pending"

SubmitExplained(a) ==
    /\ submit[a] = "new" /\ submit' = [submit EXCEPT ![a] = "starting"]
    /\ row' = [row EXCEPT ![a] = "pending"]
    /\ review' = [review EXCEPT ![a] = <<"pending">>]
    /\ UNCHANGED <<decider, autoSem, tasks>>

SubmitAuto(a) ==
    /\ submit[a] = "new" /\ Cardinality(autoSem) < Sems
    /\ submit' = [submit EXCEPT ![a] = "asking"]
    /\ autoSem' = autoSem \cup {a}
    /\ UNCHANGED <<row, decider, review, tasks>>

\* A reply, or the deadline while it waits for its turn or for the model.
AutoReviewed(a) == \E reply \in Replies :
    /\ \/ submit[a] = "asking"
       \/ submit[a] = "new" /\ reply = "failed" /\ Cardinality(autoSem) = Sems
    /\ submit' = [submit EXCEPT ![a] = "done"]
    /\ autoSem' = autoSem \ {a}
    /\ row' = [row EXCEPT ![a] = Route(ReviewOf(reply))]
    /\ review' = [review EXCEPT ![a] = <<"auto", ReviewOf(reply)>>]
    /\ UNCHANGED <<decider, tasks>>

\* registerApprovalExplanation: the task before it is cancelled.
Register(t) ==
    /\ active' = [active EXCEPT ![Of(t)] = t]
    /\ cancelled' = cancelled \cup ({active[Of(t)]} \ {NoTask})

\* UpdatePendingApprovalExplanation writes only while the decision is open.
WriteAlways(a, value) ==
    /\ row[a] # None
    /\ review' = [review EXCEPT ![a] = value]
WritePending(a, value) ==
    /\ row[a] = "pending"
    /\ review' = [review EXCEPT ![a] = value]

\* startPendingApprovalExplanation, once the approval can be seen.
StartExplanation(a) ==
    /\ submit[a] = "starting" /\ submit' = [submit EXCEPT ![a] = "done"]
    /\ IF Cardinality(slots) < Slots
       THEN /\ slots' = slots \cup {<<a, 0>>}
            /\ Register(<<a, 0>>) /\ Goto(<<a, 0>>, "idle", "waiting")
            /\ UNCHANGED <<review, sem>>
       ELSE /\ WritePending(a, Skipped) \/ UNCHANGED review
            /\ UNCHANGED tasks
    /\ UNCHANGED <<row, decider, autoSem>>

\* RetryApprovalExplanation up to its registration, which comes after a
\* read of the approval and is followed by another.
RetryBegins(t) ==
    /\ ~First(t) /\ row[Of(t)] = "pending"
    /\ Cardinality({r \in Retries : pc[r] # "idle"}) < MaxRetries
    /\ Goto(t, "idle", "register")
    /\ UNCHANGED <<row, submit, decider, review, active, slots, sem, autoSem, cancelled>>

RetryRegisters(t) ==
    /\ Goto(t, "register", "recheck") /\ Register(t)
    /\ UNCHANGED <<row, submit, decider, review, slots, sem, autoSem>>

StillOpenAssumed(t) == t \notin cancelled
StillOpen(t) == t \notin cancelled /\ row[Of(t)] = "pending"

RetryRechecks(t) ==
    /\ Goto(t, "recheck", IF StillOpen(t) THEN "erase" ELSE "end")
    /\ UNCHANGED <<row, submit, decider, review, active, slots, sem, autoSem, cancelled>>

\* UpdateRunAIReview, whatever the status of the approval is by now.
RetryErases(t) ==
    /\ \/ t \notin cancelled /\ Goto(t, "erase", "waiting")
          /\ review' = [review EXCEPT ![Of(t)] = NoReview]
       \/ Goto(t, "erase", "end") /\ UNCHANGED review
    /\ UNCHANGED <<row, submit, decider, active, slots, sem, autoSem, cancelled>>

TakeReviewer(t) ==
    /\ Cardinality(sem) < Sems /\ sem' = sem \cup {t}
    /\ Goto(t, "waiting", "reviewing")
    /\ UNCHANGED <<row, submit, decider, review, active, slots, autoSem, cancelled>>

\* The wait ends for a cancelled task; a deadline ends a retry, and a first
\* explanation reports it.
StopWaiting(t) ==
    /\ \/ Goto(t, "waiting", "end") /\ (t \in cancelled \/ ~First(t))
       \/ First(t) /\ t \notin cancelled /\ Goto(t, "waiting", "persist")
    /\ UNCHANGED <<row, submit, decider, review, active, slots, sem, autoSem, cancelled>>

\* The reviewer answers, fails or runs out of time; what it says after a
\* cancellation is dropped.
Reviewed(t) ==
    /\ Goto(t, "reviewing", IF t \in cancelled THEN "end" ELSE "persist")
    /\ UNCHANGED <<row, submit, decider, review, active, slots, sem, autoSem, cancelled>>

\* A first explanation is written under a context of its own, a retry's
\* under the one that may be cancelled.
Persist(t) ==
    /\ Goto(t, "persist", "end")
    /\ \/ (First(t) \/ t \notin cancelled) /\ WritePending(Of(t), t)
       \/ UNCHANGED review
    /\ UNCHANGED <<row, submit, decider, active, slots, sem, autoSem, cancelled>>

\* The deferred calls; clearApprovalExplanation spares another task's entry.
ClearAny(t) == active' = [active EXCEPT ![Of(t)] = NoTask]
Clear(t) == active' = [active EXCEPT ![Of(t)] = IF @ = t THEN NoTask ELSE @]

EndTask(t) ==
    /\ Goto(t, "end", "ended") /\ Clear(t)
    /\ cancelled' = cancelled \cup {t}
    /\ slots' = slots \ {t} /\ sem' = sem \ {t}
    /\ UNCHANGED <<row, submit, decider, review, autoSem>>

\* The operator who asked again goes away.
Disconnect(t) ==
    /\ ~First(t) /\ pc[t] \notin {"idle", "ended"} /\ t \notin cancelled
    /\ cancelled' = cancelled \cup {t}
    /\ UNCHANGED <<row, submit, decider, review, active, slots, sem, autoSem, pc>>

\* Approve or reject: the decision, then the task's cancellation, and the
\* review erased when there was one.
Decide(a) ==
    /\ row[a] = "pending" /\ row' = [row EXCEPT ![a] = "decided"]
    /\ decider' = [decider EXCEPT ![a] = "cancel"]
    /\ UNCHANGED <<submit, review, autoSem, tasks>>

CancelExplanation(a) ==
    /\ decider[a] = "cancel"
    /\ decider' = [decider EXCEPT ![a] = IF active[a] = NoTask THEN "done" ELSE "erase"]
    /\ active' = [active EXCEPT ![a] = NoTask]
    /\ cancelled' = cancelled \cup ({active[a]} \ {NoTask})
    /\ UNCHANGED <<row, submit, review, slots, sem, autoSem, pc>>

EraseReview(a) ==
    /\ decider[a] = "erase" /\ decider' = [decider EXCEPT ![a] = "done"]
    /\ review' = [review EXCEPT ![a] = NoReview] \/ UNCHANGED review
    /\ UNCHANGED <<row, submit, autoSem, tasks>>

SubmitGoesOn(a) == AutoReviewed(a) \/ StartExplanation(a)
DecideGoesOn(a) == CancelExplanation(a) \/ EraseReview(a)
TaskGoesOn(t) ==
    \/ RetryRegisters(t) \/ RetryRechecks(t) \/ RetryErases(t)
    \/ StopWaiting(t) \/ Reviewed(t) \/ Persist(t) \/ EndTask(t)

Next ==
    \/ \E a \in Approvals : \/ SubmitExplained(a) \/ SubmitAuto(a) \/ SubmitGoesOn(a)
                           \/ Decide(a) \/ DecideGoesOn(a)
    \/ \E t \in Tasks : RetryBegins(t) \/ TakeReviewer(t) \/ Disconnect(t) \/ TaskGoesOn(t)

\* Every goroutine goes on; reviewers answer by their deadline, and the
\* deadline ends a wait.
Fair ==
    /\ \A a \in Approvals : WF_vars(SubmitGoesOn(a)) /\ WF_vars(DecideGoesOn(a))
    /\ \A t \in Tasks : WF_vars(TaskGoesOn(t))

Spec == Init /\ [][Next]_vars
FairSpec == Spec /\ Fair

-----------------------------------------------------------------------------
Working == {"waiting", "reviewing", "persist"}
Registered == {"recheck", "erase"} \cup Working

Reviews ==
    {NoReview, <<"pending">>, Skipped} \cup Tasks
        \cup {<<"auto", ReviewOf(reply)>> : reply \in Replies}

\* The values of every variable.
TypeOK ==
    /\ row \in [Approvals -> {None, "pending", "decided", "running", "rejected"}]
    /\ submit \in [Approvals -> {"new", "asking", "starting", "done"}]
    /\ decider \in [Approvals -> {None, "cancel", "erase", "done"}]
    /\ review \in [Approvals -> Reviews]
    /\ active \in [Approvals -> Tasks \cup {NoTask}]
    /\ slots \subseteq Tasks /\ sem \subseteq Tasks /\ autoSem \subseteq Approvals
    /\ pc \in [Tasks -> {"idle", "register", "end", "ended"} \cup Registered]
    /\ cancelled \subseteq Tasks

\* The queue and the reviewers are bounded, and exactly the tasks that are
\* under way hold them: neither a cancellation nor a deadline leaks one.
LimitsHold ==
    /\ Cardinality(slots) <= Slots /\ Cardinality(sem) <= Sems /\ Cardinality(autoSem) <= Sems
    /\ slots = {t \in Tasks : First(t) /\ pc[t] \notin {"idle", "ended"}}
    /\ \A t \in sem : pc[t] \in {"reviewing", "persist", "end"}
    /\ \A t \in Tasks : pc[t] = "reviewing" => t \in sem

\* The registry (explanationActive) holds every explanation under way that
\* nothing has cancelled yet: whoever decides or asks again finds it.
WorkCanBeCancelled ==
    \A t \in Tasks : pc[t] \in Registered /\ t \notin cancelled => active[Of(t)] = t

\* When a decision has returned, no retry of its explanation works on
\* uncancelled, whenever it read the approval.
NoRetryOutlivesDecision ==
    \A t \in Tasks : ~First(t) /\ decider[Of(t)] \in {"erase", "done"} /\ pc[t] \in Working
                     => t \in cancelled

\* The same from the step on by which a retry erases the review, and what that
\* rests on: a request is routed once, and its decision is final.
RetriesStop ==
    \A t \in Tasks : ~First(t) /\ decider[Of(t)] \in {"erase", "done"} /\ pc[t] \in {"erase"} \cup Working
                     => t \in cancelled
DecisionsAreFinal ==
    \A a \in Approvals :
        /\ submit[a] \in {"new", "asking"} => row[a] = None
        /\ decider[a] # None => row[a] = "decided"

CountsInv ==
    /\ IsFiniteSet(slots) /\ IsFiniteSet(sem) /\ IsFiniteSet(autoSem)
    /\ Cardinality(slots) <= Slots /\ Cardinality(sem) <= Sems /\ Cardinality(autoSem) <= Sems
HoldersInv ==
    /\ slots = {t \in Tasks : First(t) /\ pc[t] \notin {"idle", "ended"}}
    /\ \A t \in sem : pc[t] \in {"reviewing", "persist", "end"}
    /\ \A t \in Tasks : pc[t] = "reviewing" => t \in sem

\* The inductive invariant.
IInv ==
    /\ TypeOK /\ CountsInv /\ HoldersInv
    /\ WorkCanBeCancelled /\ RetriesStop /\ DecisionsAreFinal

\* A review is written to a run only while its approval is pending, however
\* late the reviewer answers.
WrittenWhilePending ==
    \A a \in Approvals : review'[a] \in Tasks \/ review'[a] = Skipped
                          => review'[a] = review[a] \/ row[a] = "pending"
LateReviewsAreDropped == [][WrittenWhilePending]_vars

\* Every explanation ends, and with it its slot and its turn.
ExplanationsEnd == \A t \in Tasks : []<>(pc[t] \in {"idle", "ended"})

\* "Explanation work is ... canceled as soon as its approval is no longer
\* pending" (service.go, startPendingApprovalExplanation).
WorkStopsAtDecision ==
    \A t \in Tasks : decider[Of(t)] = "done" /\ pc[t] \in Working => t \in cancelled
=============================================================================
