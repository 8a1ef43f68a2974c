-------------------------- MODULE ApprovalPromise --------------------------
(***************************************************************************)
(* What the approval workflow promises of one request, whoever decides it  *)
(* and whatever fails on the way: it is decided at most once, performed at *)
(* most once and only after it was granted, and its recorded outcome is    *)
(* recorded once, agrees with the decision, and claims a completion only   *)
(* of what was performed.                                                  *)
(***************************************************************************)
CONSTANT Requests

VARIABLES
    decision,   \* none, waiting for an operator, granted or refused
    performed,  \* the requests that were handed to the host
    record      \* open, or the outcome that was recorded

promiseVars == <<decision, performed, record>>

Completions == {"completed", "partial"}
Failures    == {"failed", "interrupted"}

PromiseTypeOK ==
    /\ decision \in [Requests -> {"none", "waiting", "granted", "refused"}]
    /\ performed \subseteq Requests
    /\ record \in [Requests -> {"open", "rejected"} \cup Completions \cup Failures]

PromiseInit ==
    /\ decision = [q \in Requests |-> "none"]
    /\ performed = {}
    /\ record = [q \in Requests |-> "open"]

Decide(q, from, to) ==
    /\ decision[q] \in from
    /\ decision' = [decision EXCEPT ![q] = to]

Ask(q)    == Decide(q, {"none"}, "waiting") /\ UNCHANGED <<performed, record>>
Grant(q)  == Decide(q, {"none", "waiting"}, "granted") /\ UNCHANGED <<performed, record>>
Refuse(q) == Decide(q, {"waiting"}, "refused") /\ UNCHANGED <<performed, record>>

\* The automatic reviewer decides and records in one step.
RefuseAtOnce(q) ==
    /\ Decide(q, {"none"}, "refused")
    /\ record' = [record EXCEPT ![q] = "rejected"]
    /\ UNCHANGED performed

Perform(q) ==
    /\ decision[q] = "granted"
    /\ q \notin performed
    /\ record[q] = "open"
    /\ performed' = performed \cup {q}
    /\ UNCHANGED <<decision, record>>

Record(q, status) ==
    /\ record[q] = "open"
    /\ \/ decision[q] = "refused" /\ status = "rejected"
       \/ decision[q] = "granted" /\ status \in Failures
       \/ decision[q] = "granted" /\ status \in Completions /\ q \in performed
    /\ record' = [record EXCEPT ![q] = status]
    /\ UNCHANGED <<decision, performed>>

PromiseNext ==
    \E q \in Requests :
        \/ Ask(q) \/ Grant(q) \/ Refuse(q) \/ RefuseAtOnce(q) \/ Perform(q)
        \/ \E status \in {"rejected"} \cup Completions \cup Failures : Record(q, status)

PromiseSpec == PromiseInit /\ [][PromiseNext]_promiseVars
=============================================================================
