---------------------------- MODULE MCPActivity ----------------------------
(***************************************************************************)
(* What the application tells its operators about the calls that external  *)
(* MCP clients make to its own tools: mcpserver.trackToolCalls, the rows   *)
(* of mcp_tool_calls, publishMCPActivity, and the application WebSocket    *)
(* that subscribes to them and sends a snapshot and then every change.     *)
(*                                                                         *)
(* A call may start a run that outlives it: a call that needs an approval  *)
(* returns approval_required, and the run goes on when it is approved.     *)
(* All calls here are of one client session.                               *)
(***************************************************************************)
EXTENDS Naturals, Sequences

CONSTANTS
    Calls,         \* bound: tools/call requests
    Buffer,        \* capacity of a subscriber's channel
    MaxCommands,   \* bound: subscribe commands of the WebSocket's client
    MaxConnects,   \* bound: connections of that client
    MaxCrashes     \* bound: restarts of the server

Subscriptions == {"mcp", "other"}     \* whether mcp_activity is among the topics
Ended         == {"completed", "failed", "interrupted"}

VARIABLES
    up, crashes,
    status, linked, operation,    \* rows of mcp_tool_calls: run_id # '', operation_status
    handler, result,              \* trackToolCalls and what the tool returned
    run, publisher,               \* the run of a call, its status events on their way
    ws, slot, serving, wanted,    \* serveApplicationWebSocket, its updates channel
    channel, open, informed, view,           \* its subscription and what its client knows
    commands, connects

rows   == <<status, linked, operation>>
socket == <<ws, slot, serving, wanted, informed, view, commands, connects>>
feed   == <<channel, open>>
vars   == <<up, crashes, rows, handler, result, run, publisher, socket, feed>>

NoResult == [status |-> "running", linked |-> FALSE, operation |-> ""]

Init ==
    /\ up = TRUE /\ crashes = 0
    /\ status = [c \in Calls |-> "none"]
    /\ linked = [c \in Calls |-> FALSE] /\ operation = [c \in Calls |-> ""]
    /\ handler = [c \in Calls |-> "idle"] /\ result = [c \in Calls |-> NoResult]
    /\ run = [c \in Calls |-> ""]
    /\ publisher = [c \in Calls |-> [s \in {"approval_required", "completed"} |-> "idle"]]
    /\ ws = "off" /\ slot = "none" /\ serving = "none" /\ wanted = "none"
    /\ channel = <<>> /\ open = FALSE
    /\ informed = FALSE /\ view = [c \in Calls |-> "none"]
    /\ commands = 0 /\ connects = 0

-----------------------------------------------------------------------------
(* publishMCPActivity *)

\* Mutant: an event that does not fit is dropped.
PublishOrDrop(event) ==
    /\ channel' = IF open /\ Len(channel) < Buffer THEN Append(channel, event) ELSE channel
    /\ UNCHANGED open

\* A subscriber that does not keep up loses its channel and with it the
\* connection, which starts over with a snapshot.
Publish(event) ==
    IF open /\ Len(channel) < Buffer
      THEN channel' = Append(channel, event) /\ UNCHANGED open
      ELSE open' = FALSE /\ UNCHANGED channel

(* trackToolCalls, BeginMCPToolCall, FinishMCPToolCall *)

StartMCPToolCall(c) ==
    /\ up /\ handler[c] = "idle" /\ status[c] = "none"
    /\ status' = [status EXCEPT ![c] = "running"]
    /\ handler' = [handler EXCEPT ![c] = "inserted"]
    /\ UNCHANGED <<up, crashes, linked, operation, result, run, publisher, socket, feed>>

CallStarted(c) ==
    /\ handler[c] = "inserted"
    /\ Publish(<<"call_started", c, "running">>)
    /\ handler' = [handler EXCEPT ![c] = "working"]
    /\ UNCHANGED <<up, crashes, rows, result, run, publisher, socket>>

\* The tool submits a run, which waits for an approval or is executed at once.
SubmitRun(c, s) ==
    /\ handler[c] = "working" /\ run[c] = ""
    /\ run' = [run EXCEPT ![c] = s]
    /\ publisher' = [publisher EXCEPT ![c][s] = "bind"]
    /\ UNCHANGED <<up, crashes, rows, handler, result, socket, feed>>

ApproveRun(c) ==
    /\ up /\ run[c] = "approval_required"
    /\ run' = [run EXCEPT ![c] = "completed"]
    /\ publisher' = [publisher EXCEPT ![c]["completed"] = "bind"]
    /\ UNCHANGED <<up, crashes, rows, handler, result, socket, feed>>

\* mcpCallOutcome: a tool that fails, or whose caller is gone, has no
\* structured content, hence no run.
ToolReturns(c, outcome) ==
    /\ handler[c] = "working"
    /\ result' = [result EXCEPT ![c] =
          [status |-> outcome,
           linked |-> outcome = "completed" /\ run[c] # "",
           operation |-> IF outcome = "completed" THEN run[c] ELSE ""]]
    /\ handler' = [handler EXCEPT ![c] = "returned"]
    /\ UNCHANGED <<up, crashes, rows, run, publisher, socket, feed>>

\* The row takes what the tool returned, over anything bound meanwhile.
FinishMCPToolCall(c) ==
    /\ handler[c] = "returned"
    /\ status' = [status EXCEPT ![c] = result[c].status]
    /\ linked' = [linked EXCEPT ![c] = result[c].linked]
    /\ operation' = [operation EXCEPT ![c] = result[c].operation]
    /\ handler' = [handler EXCEPT ![c] = "recorded"]
    /\ UNCHANGED <<up, crashes, result, run, publisher, socket, feed>>

FinishFails(c) ==
    /\ handler[c] = "returned"
    /\ handler' = [handler EXCEPT ![c] = "unrecorded"]
    /\ UNCHANGED <<up, crashes, rows, result, run, publisher, socket, feed>>

CallFinished(c) ==
    /\ handler[c] = "recorded"
    /\ Publish(<<"call_finished", c, result[c].status>>)
    /\ handler' = [handler EXCEPT ![c] = "done"]
    /\ UNCHANGED <<up, crashes, rows, result, run, publisher, socket>>

\* publishMCPExecutionEvent: the row is linked to its run, then the event is told.
BindMCPToolCallOperation(c, s) ==
    /\ up /\ publisher[c][s] = "bind"
    /\ linked' = [linked EXCEPT ![c] = TRUE]
    /\ operation' = [operation EXCEPT ![c] = s]
    /\ publisher' = [publisher EXCEPT ![c][s] = "publish"]
    /\ UNCHANGED <<up, crashes, status, handler, result, run, socket, feed>>

OperationStatus(c, s) ==
    /\ up /\ publisher[c][s] = "publish"
    /\ Publish(<<"operation_status", c, s>>)
    /\ publisher' = [publisher EXCEPT ![c][s] = "done"]
    /\ UNCHANGED <<up, crashes, rows, handler, result, run, socket>>

-----------------------------------------------------------------------------
(* serveApplicationWebSocket and readApplicationWebSocket *)

service == <<up, crashes, rows, handler, result, run, publisher>>

Connect ==
    /\ up /\ ws = "off" /\ connects < MaxConnects
    /\ ws' = "idle" /\ connects' = connects + 1
    /\ slot' = "none" /\ serving' = "none" /\ wanted' = "none" /\ informed' = FALSE
    /\ UNCHANGED <<service, view, commands, feed>>

\* Mutant: a command that finds the channel full is forgotten.
KeepFirst(s) == IF slot = "none" THEN s ELSE slot

\* The updates channel holds one command; a newer one replaces it.
Newest(s) == s

Command(s) ==
    /\ ws # "off" /\ commands < MaxCommands
    /\ commands' = commands + 1 /\ wanted' = s
    /\ slot' = Newest(s)
    /\ UNCHANGED <<service, ws, serving, informed, view, connects, feed>>

\* The old subscription ends; the new one begins before its snapshot is read.
TakeUpdate ==
    /\ ws = "idle" /\ slot # "none"
    /\ serving' = slot /\ slot' = "none"
    /\ channel' = <<>> /\ open' = (slot = "mcp")
    /\ informed' = FALSE
    /\ ws' = IF slot = "mcp" THEN "subscribed" ELSE "idle"
    /\ UNCHANGED <<service, wanted, view, commands, connects>>

SendSnapshot ==
    /\ ws = "subscribed" /\ ws' = "idle"
    /\ informed' = TRUE /\ view' = status
    /\ UNCHANGED <<service, slot, serving, wanted, commands, connects, feed>>

\* An error is sent in its place, and the connection goes on.
SnapshotFails ==
    /\ ws = "subscribed" /\ ws' = "idle"
    /\ UNCHANGED <<service, slot, serving, wanted, informed, view, commands, connects, feed>>

\* The client takes over what an event says about the call.
SendEvent ==
    /\ ws = "idle" /\ channel # <<>>
    /\ channel' = Tail(channel)
    /\ LET event == Head(channel) IN
       view' = IF event[1] = "operation_status" THEN view ELSE [view EXCEPT ![event[2]] = event[3]]
    /\ UNCHANGED <<service, ws, slot, serving, wanted, informed, commands, connects, open>>

Close ==
    /\ ws' = "off" /\ slot' = "none" /\ serving' = "none" /\ wanted' = "none"
    /\ informed' = FALSE /\ channel' = <<>> /\ open' = FALSE
    /\ UNCHANGED <<view, commands, connects>>

ChannelClosed ==
    /\ ws = "idle" /\ serving = "mcp" /\ ~open /\ channel = <<>>
    /\ Close /\ UNCHANGED service

Disconnect ==
    /\ ws # "off"
    /\ Close /\ UNCHANGED service

-----------------------------------------------------------------------------
Crash ==
    /\ up /\ crashes < MaxCrashes
    /\ up' = FALSE /\ crashes' = crashes + 1
    /\ handler' = [c \in Calls |-> IF handler[c] = "idle" THEN "idle" ELSE "dead"]
    /\ publisher' = [c \in Calls |-> [s \in DOMAIN publisher[c] |-> "idle"]]
    /\ Close
    /\ UNCHANGED <<rows, result, run>>

\* Mutant: the rows are left as they are.
InterruptNone == UNCHANGED rows

InterruptRunningMCPToolCalls ==
    /\ status' = [c \in Calls |-> IF status[c] = "running" THEN "interrupted" ELSE status[c]]
    /\ operation' = [c \in Calls |-> IF status[c] = "running" /\ operation[c] = ""
                                       THEN "interrupted" ELSE operation[c]]
    /\ UNCHANGED linked

Restart ==
    /\ ~up /\ up' = TRUE
    /\ InterruptRunningMCPToolCalls
    /\ UNCHANGED <<crashes, handler, result, run, publisher, socket, feed>>

Next ==
    \/ \E c \in Calls : \/ StartMCPToolCall(c) \/ CallStarted(c) \/ ApproveRun(c)
                        \/ FinishMCPToolCall(c) \/ FinishFails(c) \/ CallFinished(c)
                        \/ \E s \in {"approval_required", "completed"} :
                             SubmitRun(c, s) \/ BindMCPToolCallOperation(c, s) \/ OperationStatus(c, s)
                        \/ \E outcome \in Ended : ToolReturns(c, outcome)
    \/ Connect \/ (\E s \in Subscriptions : Command(s)) \/ TakeUpdate \/ SendSnapshot
    \/ SnapshotFails \/ SendEvent \/ ChannelClosed \/ Disconnect
    \/ Crash \/ Restart

\* The connection's goroutines run, and a client that can read is sent to.
Fair ==
    /\ WF_vars(TakeUpdate) /\ WF_vars(SendEvent) /\ WF_vars(ChannelClosed)
    /\ WF_vars((SendSnapshot \/ SnapshotFails))

Spec     == Init /\ [][Next]_vars
FairSpec == Spec /\ Fair

-----------------------------------------------------------------------------
Event == {"call_started", "call_finished"} \X Calls \X ({"running"} \cup Ended)
         \cup {"operation_status"} \X Calls \X {"approval_required", "completed"}

TypeOK ==
    /\ up \in BOOLEAN /\ open \in BOOLEAN /\ informed \in BOOLEAN
    /\ status \in [Calls -> {"none", "running"} \cup Ended]
    /\ view \in [Calls -> {"none", "running"} \cup Ended]
    /\ linked \in [Calls -> BOOLEAN]
    /\ operation \in [Calls -> {"", "approval_required", "completed", "interrupted"}]
    /\ handler \in [Calls -> {"idle", "inserted", "working", "returned", "recorded",
                              "unrecorded", "done", "dead"}]
    /\ result \in [Calls -> [status : {"running"} \cup Ended, linked : BOOLEAN,
                             operation : {"", "approval_required", "completed"}]]
    /\ run \in [Calls -> {"", "approval_required", "completed"}]
    /\ ws \in {"off", "idle", "subscribed"}
    /\ {slot, serving, wanted} \subseteq Subscriptions \cup {"none"}
    /\ channel \in Seq(Event) /\ Len(channel) <= Buffer

(* Once a connection has sent its snapshot and everything that waited in   *)
(* its channel, its client knows the status of every call whose handler    *)
(* has nothing left to tell; a connection that lost events is ended.       *)
ToldIsStored ==
    informed /\ open /\ channel = <<>> =>
        \A c \in Calls : handler[c] \notin {"inserted", "recorded"} => view[c] = status[c]

(* A call is shown as running only while its request is being served; what *)
(* a crash cut off is settled before the server answers again.  (A call    *)
(* whose result cannot be written stays until the next start.)             *)
RunningIsServed ==
    up => \A c \in Calls : status[c] = "running" =>
            handler[c] \in {"inserted", "working", "returned", "unrecorded"}

(* A connection that stays comes to serve the last subscription its client *)
(* sent, however many arrive while it is busy.                             *)
LastCommandIsServed == <>[](ws = "off" \/ serving = wanted)

(* When nothing is on its way any more, the row of a call has the status   *)
(* of its run.  It need not: the row of a call that returned before its    *)
(* run was approved is written over what the approval had bound.           *)
RowHasTheRunsStatus ==
    \A c \in Calls : handler[c] = "done" /\ run[c] = "completed"
                       /\ (\A s \in DOMAIN publisher[c] : publisher[c][s] \in {"idle", "done"})
        => operation[c] = "completed" /\ linked[c]

-----------------------------------------------------------------------------
(* The inductive invariant *)

\* A call's row follows its handler: it is made before the call is told of, has what
\* the tool returned when its end is told, and a crash leaves no handler behind.
CallInv ==
    \A c \in Calls :
        /\ handler[c] = "idle" <=> status[c] = "none"
        /\ handler[c] = "inserted" => status[c] = "running"
        /\ handler[c] = "returned" => result[c].status \in Ended
        /\ handler[c] = "recorded" => status[c] = result[c].status
        /\ handler[c] \in {"recorded", "done"} => status[c] \in Ended
        /\ handler[c] = "dead" /\ up => status[c] # "running"
        /\ ~up => handler[c] \in {"idle", "dead"}

SocketInv == (~up => ws = "off") /\ (ws = "off" => ~open)

\* The event says what the status of the call is.
Tells(event, c) == event[1] # "operation_status" /\ event[2] = c

\* The last of the events that says so says s.
LastTells(events, c, s) ==
    \E i \in 1 .. Len(events) :
        /\ Tells(events[i], c) /\ events[i][3] = s
        /\ \A j \in 1 .. Len(events) : j > i => ~Tells(events[j], c)

NoneTells(events, c) == \A i \in 1 .. Len(events) : ~Tells(events[i], c)

\* What the client will believe once it has read its channel is what is stored, of every
\* call whose handler has nothing left to tell.
FeedInv ==
    open => \A c \in Calls : handler[c] \notin {"inserted", "recorded"} =>
        \/ LastTells(channel, c, status[c])
        \/ NoneTells(channel, c) /\ (informed => view[c] = status[c])

IInv == TypeOK /\ CallInv /\ SocketInv /\ FeedInv
=============================================================================
