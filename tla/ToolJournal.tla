----------------------------- MODULE ToolJournal -----------------------------
(***************************************************************************)
(* The tool calls of one conversation and the journal of them that the     *)
(* console and the next turns read (chat_tool_calls).  Tools run detached  *)
(* from the turn that called them, in the turn's execution scope, and      *)
(* their row is written by four parties: the tool's own goroutine, the     *)
(* turn's event loop, the turn's settlement when it fails, and whoever     *)
(* executes the run behind an approval.  FinishChatToolCall is a read and  *)
(* a later write.  The process may crash; recovery settles the rows.       *)
(***************************************************************************)
EXTENDS Integers, FiniteSets

CONSTANTS
    Calls,        \* tool calls
    Kinds,        \* what the calls may be: functions from Calls to Kind
    Turns,        \* turns, numbered in their order
    Buffer,       \* length of a subscriber's channel (256)
    MaxFaults     \* bound: crashes and failed journal writes together

\* A plain tool; one that waits for a run behind an approval; one that only
\* starts a background task with such a run; a call that is never made.
Kind == {"plain", "run", "background", "unused"}

VARIABLES
    kind,        \* of each call
    turn,        \* the active turn, 0 when there is none
    stage,       \* of each turn: "none", "run", "list", "ids", "settle", "end", "over"
    registered,  \* turns whose scope is in Runtime.toolScopes
    modelEnd,    \* turns whose scope was told that the model ended
    cancelled,   \* scopes cancelled by the user
    closed,      \* scopes closed because they were idle
    pc,          \* of each tool goroutine
    of,          \* the turn that called the tool
    result,      \* the status its result or its error stands for
    listed,      \* running calls the settlement found in the list
    row,         \* chat_tool_calls.status
    pending,     \* writes that FinishChatToolCall has decided and not made: <<writer, call, status>>
    run,         \* status of the run behind the call; "abandoned": left running by a crash
    publisher,   \* the executor's place in publishExecutionEvent, per call
    channel,     \* events in the channel of the turn's subscription
    subscribed,  \* the turn's subscription is open
    crashes, failures

scopes == <<registered, modelEnd, cancelled, closed>>
tools == <<pc, of, result>>
events == <<channel, subscribed>>
bounds == <<crashes, failures>>
vars == <<kind, turn, stage, scopes, tools, listed, row, pending, run, publisher, events, bounds>>

Runs == {c \in Calls : kind[c] \in {"run", "background"}}
Background == {c \in Calls : kind[c] = "background"}
Terminal == {"completed", "failed", "interrupted", "rejected", "unknown"}
InScope(c) == pc[c] \in {"scoped", "called", "finish", "write", "release"}
Active(t) == {c \in Calls : InScope(c) /\ of[c] = t}

Init ==
    /\ kind \in Kinds
    /\ turn = 0 /\ stage = [t \in Turns |-> "none"]
    /\ registered = {} /\ modelEnd = {} /\ cancelled = {} /\ closed = {}
    /\ pc = [c \in Calls |-> "idle"] /\ of = [c \in Calls |-> 0]
    /\ result = [c \in Calls |-> "none"]
    /\ listed = {}
    /\ row = [c \in Calls |-> "none"] /\ pending = {}
    /\ run = [c \in Calls |-> "none"] /\ publisher = [c \in Calls |-> "none"]
    /\ channel = 0 /\ subscribed = FALSE
    /\ crashes = 0 /\ failures = 0

Goto(c, from, to) == pc[c] = from /\ pc' = [pc EXCEPT ![c] = to]
Stage(from, to) == turn # 0 /\ stage[turn] = from /\ stage' = [stage EXCEPT ![turn] = to]

-----------------------------------------------------------------------------
(* FinishChatToolCall *)

Decides(c, status) == row[c] = "running" \/ row[c] = status
FinishRead(w, c, status) ==
    pending' = IF Decides(c, status) THEN pending \cup {<<w, c, status>>} ELSE pending
FinishWrite(w, c) ==
    LET mine == {p \in pending : p[1] = w /\ p[2] = c} IN
    /\ pending' = pending \ mine
    /\ row' = [row EXCEPT ![c] = IF mine = {} THEN @ ELSE (CHOOSE p \in mine : TRUE)[3]]

-----------------------------------------------------------------------------
(* Turns: beginSession, the run, the settlement, endSession *)

BeginTurn ==
    /\ turn = 0
    /\ \E t \in Turns :
        /\ stage[t] = "none" /\ \A u \in Turns : u < t => stage[u] # "none"
        /\ turn' = t /\ stage' = [stage EXCEPT ![t] = "run"]
        /\ registered' = registered \cup {t}
    /\ subscribed' = TRUE /\ channel' = 0
    /\ UNCHANGED <<modelEnd, cancelled, closed, tools, listed, row, pending, run, publisher, bounds>>

\* The event loop is through: only after the tools have returned their results.
TurnCompletes ==
    /\ turn # 0 /\ Active(turn) = {} /\ turn \notin cancelled
    /\ \A c \in Calls : of[c] = turn => pc[c] # "loop"
    /\ Stage("run", "end")
    /\ UNCHANGED <<turn, scopes, tools, listed, row, pending, run, publisher, events, bounds>>

\* The turn was steered, failed at a model request or could not persist a
\* result, or it was cancelled, which leaves the tools behind and ends a write of
\* the event loop that was on its way.
TurnFails ==
    /\ turn # 0
    /\ turn \in cancelled \/ (Active(turn) = {} /\ ~ \E p \in pending : p[1] = "loop")
    /\ Stage("run", "list")
    /\ pc' = [c \in Calls |-> IF of[c] = turn /\ pc[c] = "loop" THEN "done" ELSE pc[c]]
    /\ pending' = {p \in pending : p[1] # "loop"}
    /\ UNCHANGED <<turn, scopes, of, result, listed, row, run, publisher, events, bounds>>

Unsubscribe ==
    /\ turn # 0 /\ stage[turn] \in {"list", "end"} /\ subscribed
    /\ subscribed' = FALSE /\ channel' = 0
    /\ UNCHANGED <<turn, stage, scopes, tools, listed, row, pending, run, publisher, bounds>>

\* Mutant: the active calls are looked up before the list is read.
SettleIdsFirst ==
    /\ ~subscribed
    /\ \/ /\ Stage("list", "ids") /\ listed' = Calls \ Active(turn)
       \/ /\ Stage("ids", "settle")
          /\ listed' = {c \in listed : of[c] = turn /\ row[c] = "running"}
    /\ UNCHANGED <<turn, scopes, tools, row, pending, run, publisher, events, bounds>>

\* ListChatToolCalls, then activeToolCallIDs.
SettleList ==
    /\ ~subscribed
    /\ \/ /\ Stage("list", "ids")
          /\ listed' = {c \in Calls : of[c] = turn /\ row[c] = "running"}
       \/ /\ Stage("ids", "settle") /\ listed' = listed \ Active(turn)
    /\ UNCHANGED <<turn, scopes, tools, row, pending, run, publisher, events, bounds>>

Settle(c) ==
    /\ turn # 0 /\ stage[turn] = "settle" /\ c \in listed
    /\ ~ \E p \in pending : p[1] = "settle"
    /\ FinishRead("settle", c, IF turn \in cancelled THEN "interrupted" ELSE "unknown")
    /\ listed' = IF pending' = pending THEN listed \ {c} ELSE listed
    /\ UNCHANGED <<turn, stage, scopes, tools, row, run, publisher, events, bounds>>

SettleWrite(c) ==
    /\ \E p \in pending : p[1] = "settle" /\ p[2] = c
    /\ FinishWrite("settle", c) /\ listed' = listed \ {c}
    /\ UNCHANGED <<turn, stage, scopes, tools, run, publisher, events, bounds>>

Settled == listed = {} /\ Stage("settle", "end")
    /\ UNCHANGED <<turn, scopes, tools, listed, row, pending, run, publisher, events, bounds>>

\* endSession: out of Runtime.active, then modelFinished tells the scope.
EndSession ==
    /\ turn # 0 /\ ~subscribed /\ Stage("end", "over")
    /\ turn' = 0
    /\ modelEnd' = modelEnd \cup {turn}
    /\ IF Active(turn) = {} THEN closed' = closed \cup {turn} /\ registered' = registered \ {turn}
                            ELSE UNCHANGED <<closed, registered>>
    /\ UNCHANGED <<cancelled, tools, listed, row, pending, run, publisher, events, bounds>>

\* CancelSession: the turn and every scope of the conversation, also those of
\* earlier turns whose tools still run.
CancelSession ==
    /\ registered \ cancelled # {}
    /\ cancelled' = cancelled \cup registered
    /\ UNCHANGED <<turn, stage, registered, modelEnd, closed, tools, listed, row, pending, run, publisher, events, bounds>>

-----------------------------------------------------------------------------
(* The tool's goroutine: normalizeToolCallErrors *)

\* One call at a time (ExecuteSequentially); a cancelled turn's graph may still
\* reach its next call while the turn settles.
ToolScoped(c) ==
    /\ turn # 0 /\ stage[turn] \in {"run", "list", "ids", "settle"}
    /\ stage[turn] # "run" => turn \in cancelled
    /\ Active(turn) = {} /\ \A d \in Calls : of[d] = turn => pc[d] # "loop"
    /\ kind[c] # "unused" /\ Goto(c, "idle", "scoped")
    /\ of' = [of EXCEPT ![c] = turn]
    /\ UNCHANGED <<turn, stage, scopes, result, listed, row, pending, run, publisher, events, bounds>>

\* notifyToolStarted: StartChatToolCall, which does not replace an existing row.
ToolStarted(c) ==
    /\ Goto(c, "scoped", "called")
    /\ row' = [row EXCEPT ![c] = IF @ = "none" THEN "running" ELSE @]
    /\ UNCHANGED <<turn, stage, scopes, of, result, listed, pending, run, publisher, events, bounds>>

\* submit creates the run, binds the call to it, and the tool waits.
RunSubmitted(c) ==
    /\ c \in Runs /\ pc[c] = "called" /\ run[c] = "none"
    /\ run' = [run EXCEPT ![c] = "approval_required"]
    /\ UNCHANGED <<turn, stage, scopes, tools, listed, row, pending, publisher, events, bounds>>

Returns(c, status) ==
    /\ Goto(c, "called", "finish")
    /\ result' = [result EXCEPT ![c] = status]
    /\ UNCHANGED <<turn, stage, scopes, of, listed, row, pending, run, publisher, events, bounds>>

\* A plain tool has a result, or a background task was started or not.
ToolReturns(c) ==
    \/ c \notin Runs /\ \E status \in {"completed", "failed"} : Returns(c, status)
    \/ c \in Background /\ Returns(c, IF run[c] = "none" THEN "failed" ELSE "completed")

\* The run it waits for has ended and was published.
RunReturns(c) ==
    /\ c \in Runs \ Background /\ run[c] \in Terminal /\ publisher[c] = "none"
    /\ Returns(c, run[c])

\* Its context was cancelled with the scope.
ToolCancelled(c) ==
    /\ of[c] \in cancelled \cup closed
    /\ Returns(c, "interrupted")

\* The deferred notification: FinishChatToolCall with the status of the result.
ToolFinishes(c) ==
    /\ Goto(c, "finish", "write")
    /\ FinishRead("tool", c, result[c])
    /\ UNCHANGED <<turn, stage, scopes, of, result, listed, row, run, publisher, events, bounds>>

ToolWrites(c) ==
    /\ Goto(c, "write", "release") /\ FinishWrite("tool", c)
    /\ UNCHANGED <<turn, stage, scopes, of, result, listed, run, publisher, events, bounds>>

\* The journal cannot be written within five seconds: logged, and no more.
ToolWriteFails(c) ==
    /\ crashes + failures < MaxFaults /\ failures' = failures + 1
    /\ Goto(c, "write", "release")
    /\ pending' = {p \in pending : p[1] # "tool" \/ p[2] # c}
    /\ UNCHANGED <<turn, stage, scopes, of, result, listed, row, run, publisher, events, crashes>>

\* Mutant: an empty scope is closed while its model still runs.
CloseWhenIdle(c) ==
    /\ pc[c] = "release"
    /\ pc' = [pc EXCEPT ![c] = IF turn = of[c] /\ stage[turn] = "run" THEN "loop" ELSE "done"]
    /\ IF Active(of[c]) = {c}
         THEN closed' = closed \cup {of[c]} /\ registered' = registered \ {of[c]}
         ELSE UNCHANGED <<closed, registered>>
    /\ UNCHANGED <<turn, stage, modelEnd, cancelled, of, result, listed, row, pending, run, publisher, events, bounds>>

\* The deferred release: the scope's finished().  The result goes to the loop.
ToolReleases(c) ==
    /\ pc[c] = "release"
    /\ pc' = [pc EXCEPT ![c] = IF turn = of[c] /\ stage[turn] = "run" THEN "loop" ELSE "done"]
    /\ IF of[c] \in modelEnd /\ Active(of[c]) = {c}
         THEN closed' = closed \cup {of[c]} /\ registered' = registered \ {of[c]}
         ELSE UNCHANGED <<closed, registered>>
    /\ UNCHANGED <<turn, stage, modelEnd, cancelled, of, result, listed, row, pending, run, publisher, events, bounds>>

\* persistChatToolResult in the event loop.  A write that fails fails the turn.
LoopPersists(c) ==
    /\ turn # 0 /\ pc[c] = "loop" /\ of[c] = turn /\ stage[turn] = "run"
    /\ \/ /\ ~ \E p \in pending : p[1] = "loop"
          /\ FinishRead("loop", c, result[c])
          /\ pc' = IF pending' = pending THEN [pc EXCEPT ![c] = "done"] ELSE pc
          /\ UNCHANGED <<stage, row, failures>>
       \/ /\ \E p \in pending : p[1] = "loop"
          /\ FinishWrite("loop", c) /\ pc' = [pc EXCEPT ![c] = "done"]
          /\ UNCHANGED <<stage, failures>>
       \/ /\ crashes + failures < MaxFaults /\ failures' = failures + 1
          /\ pending' = {p \in pending : p[1] # "loop"}
          /\ pc' = [pc EXCEPT ![c] = "done"] /\ stage' = [stage EXCEPT ![turn] = "list"]
          /\ UNCHANGED row
    /\ UNCHANGED <<turn, scopes, of, result, listed, run, publisher, events, crashes>>

-----------------------------------------------------------------------------
(* The run behind the call *)

Approve(c) ==
    /\ run[c] = "approval_required"
    /\ run' = [run EXCEPT ![c] = "running"]
    /\ UNCHANGED <<turn, stage, scopes, tools, listed, row, pending, publisher, events, bounds>>

\* The run gets its final status; publishExecutionEvent tells everyone else.
RunEnds(c) ==
    /\ \/ run[c] = "running" /\ \E s \in {"completed", "failed", "interrupted"} : run' = [run EXCEPT ![c] = s]
       \/ run[c] = "approval_required" /\ run' = [run EXCEPT ![c] = "rejected"]
    /\ publisher' = [publisher EXCEPT ![c] = "read"]
    /\ UNCHANGED <<turn, stage, scopes, tools, listed, row, pending, events, bounds>>

\* Mutant: the end of a background task is taken for the end of the call.
PublishBackground(c) ==
    /\ publisher[c] = "read" /\ publisher' = [publisher EXCEPT ![c] = "write"]
    /\ IF row[c] \notin Terminal
         THEN FinishRead("exec", c, run[c]) ELSE UNCHANGED pending
    /\ UNCHANGED <<turn, stage, scopes, tools, listed, row, run, events, bounds>>

\* UpdateChatToolCallByRun, not for a background call.
PublishRead(c) ==
    /\ publisher[c] = "read" /\ publisher' = [publisher EXCEPT ![c] = "write"]
    /\ IF c \notin Background /\ row[c] \notin Terminal
         THEN FinishRead("exec", c, run[c]) ELSE UNCHANGED pending
    /\ UNCHANGED <<turn, stage, scopes, tools, listed, row, run, events, bounds>>

\* The subscription was looked up before; it may be closed by now.
PublishWrite(c) ==
    /\ publisher[c] = "write" /\ FinishWrite("exec", c)
    /\ publisher' = [publisher EXCEPT ![c] = IF subscribed THEN "send" ELSE "none"]
    /\ UNCHANGED <<turn, stage, scopes, tools, listed, run, events, bounds>>

\* Mutant: a full channel is waited for, whether anybody reads it or not.
SendAlways(c) ==
    /\ publisher[c] = "send" /\ subscribed /\ channel < Buffer
    /\ channel' = channel + 1
    /\ publisher' = [publisher EXCEPT ![c] = "none"]
    /\ UNCHANGED <<turn, stage, scopes, tools, listed, row, pending, run, subscribed, bounds>>

\* Into the channel, or past it when the subscriber is done.
Send(c) ==
    /\ publisher[c] = "send" /\ (subscribed => channel < Buffer)
    /\ channel' = IF subscribed THEN channel + 1 ELSE channel
    /\ publisher' = [publisher EXCEPT ![c] = "none"]
    /\ UNCHANGED <<turn, stage, scopes, tools, listed, row, pending, run, subscribed, bounds>>

\* The turn's reader of the subscription, until the turn's own context ends.
Receive ==
    /\ subscribed /\ channel > 0 /\ turn \notin cancelled /\ channel' = channel - 1
    /\ UNCHANGED <<turn, stage, scopes, tools, listed, row, pending, run, publisher, subscribed, bounds>>

-----------------------------------------------------------------------------
(* A crash, and recoverChatToolCalls when the process is up again *)

\* Mutant: a call whose run waits for an approval is settled like any other.
RecoveredAll(c) == IF run[c] \in Terminal THEN run[c] ELSE "unknown"

Recovered(c) ==
    CASE run[c] = "approval_required" -> "running"
      [] run[c] \in Terminal -> run[c]
      [] OTHER -> "unknown"

Crash ==
    /\ crashes + failures < MaxFaults /\ crashes' = crashes + 1
    /\ turn' = 0 /\ stage' = [t \in Turns |-> IF stage[t] = "none" THEN "none" ELSE "over"]
    /\ registered' = {} /\ modelEnd' = {} /\ cancelled' = {} /\ closed' = {}
    /\ pc' = [c \in Calls |-> IF pc[c] = "idle" THEN "idle" ELSE "done"]
    /\ listed' = {} /\ pending' = {}
    /\ publisher' = [c \in Calls |-> "none"] /\ channel' = 0 /\ subscribed' = FALSE
    /\ row' = [c \in Calls |-> IF row[c] = "running" THEN Recovered(c) ELSE row[c]]
    /\ run' = [c \in Calls |-> IF run[c] = "running" THEN "abandoned" ELSE run[c]]
    /\ UNCHANGED <<of, result, failures>>

-----------------------------------------------------------------------------
Tool(c) ==
    \/ ToolStarted(c) \/ RunSubmitted(c) \/ ToolReturns(c) \/ RunReturns(c) \/ ToolCancelled(c)
    \/ ToolFinishes(c) \/ ToolWrites(c) \/ ToolReleases(c) \/ LoopPersists(c)
Executor(c) == PublishRead(c) \/ PublishWrite(c) \/ Send(c)
Turn ==
    \/ TurnCompletes \/ TurnFails \/ Unsubscribe \/ SettleList \/ Settled \/ EndSession
    \/ \E c \in Calls : Settle(c) \/ SettleWrite(c)

Next ==
    /\ \/ BeginTurn \/ CancelSession \/ Turn \/ Receive \/ Crash
       \/ \E c \in Calls : Tool(c) \/ Executor(c) \/ ToolScoped(c) \/ ToolWriteFails(c) \/ Approve(c) \/ RunEnds(c)
    /\ UNCHANGED kind

\* Turns, tools that can go on, runs that execute and the publisher end; nobody
\* has to approve, to cancel or to call a tool.
Fair ==
    /\ WF_vars(Turn /\ UNCHANGED kind) /\ WF_vars(Receive /\ UNCHANGED kind)
    /\ \A c \in Calls : /\ WF_vars(Tool(c) /\ UNCHANGED kind)
                        /\ WF_vars(Executor(c) /\ UNCHANGED kind)
                        /\ WF_vars(run[c] = "running" /\ RunEnds(c) /\ UNCHANGED kind)
Spec == Init /\ [][Next]_vars
FairSpec == Spec /\ Fair

-----------------------------------------------------------------------------
(* Properties *)

TypeOK ==
    /\ kind \in Kinds
    /\ turn \in Turns \cup {0}
    /\ stage \in [Turns -> {"none", "run", "list", "ids", "settle", "end", "over"}]
    /\ registered \subseteq Turns /\ modelEnd \subseteq Turns /\ cancelled \subseteq Turns /\ closed \subseteq Turns
    /\ pc \in [Calls -> {"idle", "scoped", "called", "finish", "write", "release", "loop", "done"}]
    /\ of \in [Calls -> Turns \cup {0}] /\ result \in [Calls -> Terminal \cup {"none"}]
    /\ listed \subseteq Calls /\ row \in [Calls -> Terminal \cup {"none", "running"}]
    /\ pending \subseteq {"tool", "loop", "settle", "exec"} \X Calls \X Terminal
    /\ run \in [Calls -> Terminal \cup {"none", "approval_required", "running", "abandoned"}]
    /\ publisher \in [Calls -> {"none", "read", "write", "send"}]
    /\ channel \in 0 .. Buffer /\ subscribed \in BOOLEAN
    /\ crashes \in 0 .. MaxFaults /\ failures \in 0 .. MaxFaults

\* A failing turn settles only what nobody works on: never the row of a call
\* whose goroutine still runs and will report its own end.
SettlementSparesRunningCalls ==
    \A p \in pending : p[1] = "settle" => row[p[2]] # "running" \/ ~InScope(p[2])

\* The journal does not contradict the run behind a call: what it calls
\* completed, failed or rejected is how the run ended, and a call that waits for
\* an approval is not settled before the decision, unless its turn was stopped.
JournalAgreesWithRun ==
    \A c \in Runs \ Background :
        /\ row[c] \in {"completed", "failed", "rejected"} => run[c] = row[c]
        /\ row[c] = "unknown" => run[c] # "approval_required"

\* The row of a background call tells how the call went, not the task; only
\* recovery, which knows no better, takes the task's end.
BackgroundRowIsOfTheCall ==
    crashes = 0 => \A c \in Background : row[c] \in {"none", "running", "interrupted", "unknown", result[c]}

\* While its turn runs a tool's context ends only with the user's stop; a tool
\* that outlives its turn can still be reached by one.
ScopeLivesWithTools ==
    /\ turn # 0 => turn \in registered /\ turn \notin closed
    /\ \A c \in Calls : InScope(c) => of[c] \in registered \cup closed

\* Once written, a terminal status stays (the journal's readers were told).
TerminalStatusStays == [][\A c \in Calls : row[c] \in Terminal => row'[c] = row[c]]_row

\* A running row gets its end: from the tool, from the turn, from the run or,
\* after a crash, from recovery.  What stays open is a call that waits for an
\* approval, one whose own report could not be written after its turn had gone,
\* and a background call that crashed while its run waited: recovery leaves it to
\* a decision that then passes it over.
RowsSettle ==
    \A c \in Calls :
        []<>(row[c] # "running" \/ run[c] = "approval_required" \/ (failures > 0 /\ pc[c] = "done")
             \/ (crashes > 0 /\ c \in Background))

\* Whoever executes a run is not held up for ever by a console that reads slowly
\* or has gone, and a scope leaves with the last of its tools.
PublishersGoOn ==
    /\ \A c \in Calls : []<>(publisher[c] = "none")
    /\ \A t \in Turns :
           []<>(t \in modelEnd /\ t \in registered =>
                   \E c \in Runs : of[c] = t /\ run[c] = "approval_required")

-----------------------------------------------------------------------------
(* The inductive invariant of the proofs *)

\* A turn is open from its begin to its end, its scope is registered and knows its
\* model, and turns to come have left no trace.
TurnInv ==
    /\ \A t \in Turns : t # turn => stage[t] \in {"none", "over"}
    /\ turn # 0 => turn \in registered \ modelEnd /\ stage[turn] \notin {"none", "over"}
    /\ registered \cap closed = {}
    /\ \A t \in Turns : stage[t] = "none" => t \notin registered \cup modelEnd \cup cancelled \cup closed

\* A call has a turn once it is made, the scope stays while the call is in it, and the
\* journal knows the call once it was notified.
CallInv ==
    \A c \in Calls :
        /\ pc[c] = "idle" <=> of[c] = 0
        /\ of[c] # 0 => stage[of[c]] # "none"
        /\ InScope(c) => of[c] \in registered
        /\ pc[c] \in {"idle", "scoped"} => row[c] = "none"
        /\ pc[c] \in {"finish", "write", "release", "loop"} => result[c] # "none"

\* What the settlement found is its turn's and, once it knows who works, unattended.
ListInv ==
    /\ listed # {} => turn # 0 /\ stage[turn] \in {"ids", "settle"}
    /\ \A c \in listed : of[c] = turn /\ (stage[turn] = "settle" => ~InScope(c))

\* What is published is an end.  A call that waited for its run returns how the run ended, or its turn was stopped.
ResultInv ==
    /\ \A c \in Calls : publisher[c] # "none" => run[c] \in Terminal
    /\ \A c \in Runs \ Background :
         /\ result[c] \in {"none", "interrupted", run[c]}
         /\ turn # 0 /\ of[c] = turn /\ pc[c] \notin {"idle", "scoped", "called"} =>
              turn \in cancelled \/ run[c] \in Terminal

\* What a writer may have decided to write.
Decided(p) ==
    LET c == p[2] IN
    /\ row[c] # "none"
    /\ p[1] \in {"tool", "loop"} => p[3] = result[c] /\ pc[c] \notin {"idle", "scoped", "called"}
    /\ p[1] = "settle" => /\ turn # 0 /\ stage[turn] = "settle" /\ c \in listed
                          /\ p[3] \in {"interrupted", "unknown"}
                          /\ p[3] = "unknown" /\ c \in Runs \ Background => run[c] \in Terminal
    /\ p[1] = "exec" => c \notin Background /\ p[3] = run[c]
PendingInv == \A p \in pending : Decided(p)

\* What a row may say of the run and of the call.
Agrees(c) ==
    /\ pc[c] = "called" => \/ row[c] \in {"none", "running"}
                           \/ c \notin Background /\ row[c] \in Terminal /\ row[c] = run[c]
    /\ c \in Runs \ Background =>
         /\ row[c] \in {"none", "running", "interrupted", "unknown", run[c]}
         /\ row[c] = "unknown" => run[c] # "approval_required"
    /\ c \in Background /\ crashes = 0 =>
         row[c] \in {"none", "running", "interrupted", "unknown", result[c]}
RowInv == \A c \in Calls : Agrees(c)

IInv == TypeOK /\ TurnInv /\ CallInv /\ ListInv /\ ResultInv /\ PendingInv /\ RowInv
=============================================================================
