------------------------------ MODULE MCPClient ------------------------------
(***************************************************************************)
(* One external MCP server: its row with the encrypted secrets, the session *)
(* the agent's tools call, and the OAuth flows that authorise it.  Requests *)
(* of the console, the flows and the sessions' own token refreshes work on  *)
(* the three at once; mcpSecretsMu, mcpMu and mcpOAuthMu each cover one.    *)
(***************************************************************************)
EXTENDS Integers, FiniteSets

CONSTANTS Workers, Urls, MaxRefreshes   \* console requests; addresses; bound on refreshes

None == "none"
Requests == {"save", "enable", "disable", "delete", "retry", "test", "authorize", "clear"}

VARIABLES
    row,                \* the stored server; its secrets are headers and oauth
    runtime,            \* the entry of mcpRuntime
    open,               \* sessions that are connected, named for who opened them
    op, pc,             \* what a worker asks for and where it is
    read,               \* the row as a worker read it
    byServer, states,   \* mcpOAuthByServer; flows whose state can be called back
    cancelled, callback,\* flows whose context ended; flows that were called back
    secretsMu,
    headersSaved,       \* the headers saved last
    refreshes

vars == <<row, runtime, open, op, pc, read, byServer, states, cancelled, callback,
          secretsMu, headersSaved, refreshes>>
store == <<row, secretsMu, headersSaved>>
flows == <<byServer, states, cancelled, callback>>

NoRow == [exists |-> FALSE, enabled |-> FALSE, url |-> None, headers |-> None, oauth |-> None]
Gone == [status |-> "absent", session |-> None]
State(status, session) == [status |-> status, session |-> session]

Init ==
    /\ row \in [exists : {TRUE}, enabled : BOOLEAN, url : Urls, headers : {"first"}, oauth : {None} \cup Urls]
    /\ row.oauth \in {None, row.url}
    /\ runtime = State("disconnected", None) /\ open = {}
    /\ op = [w \in Workers |-> None] /\ pc = [w \in Workers |-> "idle"]
    /\ read = [w \in Workers |-> NoRow]
    /\ byServer = None /\ states = {} /\ cancelled = {} /\ callback = {}
    /\ secretsMu = None /\ headersSaved = "first" /\ refreshes = 0

Goto(w, from, to) == pc[w] = from /\ pc' = [pc EXCEPT ![w] = to]

\* setMCPRuntime: the session that was there is closed.
SetRuntime(state, opened) ==
    /\ runtime' = state
    /\ open' = (open \cup opened) \ ({runtime.session} \ {state.session})

Begin(w, request) ==
    /\ Goto(w, "idle", CASE request = "save" -> "cancel" [] request = "clear" -> "lock"
                         [] request \in {"retry", "test"} -> "read" [] OTHER -> "begin")
    /\ op' = [op EXCEPT ![w] = request]
    /\ UNCHANGED <<row, runtime, open, read, flows, secretsMu, headersSaved, refreshes>>

\* cancelMCPOAuthFlow.
CancelFlow ==
    /\ byServer' = None
    /\ states' = states \ {byServer}
    /\ cancelled' = cancelled \cup ({byServer} \ {None})

CancelBefore(w) ==
    /\ \/ op[w] = "save" /\ Goto(w, "cancel", "lock")
       \/ op[w] \in {"disable", "delete", "clear"} /\ Goto(w, "cancel", "disconnect")
    /\ CancelFlow
    /\ UNCHANGED <<store, runtime, open, op, read, callback, refreshes>>

\* SetMCPServerEnabled writes the column; DeleteMCPServer only looks.
SetEnabled(w) ==
    /\ op[w] \in {"enable", "disable"}
    /\ IF row.exists THEN /\ Goto(w, "begin", IF op[w] = "enable" THEN "read" ELSE "cancel")
                          /\ row' = [row EXCEPT !.enabled = op[w] = "enable"]
                     ELSE Goto(w, "begin", "done") /\ UNCHANGED row
    /\ UNCHANGED <<runtime, open, op, read, flows, secretsMu, headersSaved, refreshes>>
DeleteBegins(w) ==
    /\ op[w] = "delete" /\ Goto(w, "begin", IF row.exists THEN "cancel" ELSE "done")
    /\ UNCHANGED <<store, runtime, open, op, read, flows, refreshes>>

-----------------------------------------------------------------------------
(* Secrets are read, changed and written under mcpSecretsMu. *)

Locked(w) == IF row.exists THEN "write" ELSE IF op[w] = "authorize" THEN "failed" ELSE "done"
\* A flow keeps the address it was begun for.
ReadSecrets(w) ==
    read' = [read EXCEPT ![w] = IF op[w] = "authorize" THEN [row EXCEPT !.url = read[w].url] ELSE row]

\* Mutant: without the lock.
LockNone(w) ==
    /\ Goto(w, "lock", Locked(w)) /\ ReadSecrets(w)
    /\ UNCHANGED <<store, runtime, open, op, flows, refreshes>>

Lock(w) ==
    /\ secretsMu = None /\ Goto(w, "lock", Locked(w)) /\ ReadSecrets(w)
    /\ secretsMu' = IF Locked(w) = "write" THEN w ELSE None
    /\ UNCHANGED <<row, headersSaved, runtime, open, op, flows, refreshes>>

Unlock(w) == secretsMu' = IF secretsMu = w THEN None ELSE secretsMu

\* storeMCPServerConfig: a new address drops the authorization; headers that are
\* not given are kept.  The upsert brings a row that was deleted meanwhile back.
SaveWrites(w) ==
    /\ op[w] = "save" /\ Unlock(w)
    /\ \E url \in Urls, headers \in {w, read[w].headers}, enabled \in BOOLEAN :
         /\ Goto(w, "write", IF enabled THEN "read" ELSE "disconnect")
         /\ row' = [exists |-> TRUE, enabled |-> enabled, url |-> url, headers |-> headers,
                    oauth |-> IF url = read[w].url THEN read[w].oauth ELSE None]
         /\ headersSaved' = IF headers = w THEN w ELSE headersSaved
    /\ UNCHANGED <<runtime, open, op, read, flows, refreshes>>

UpdateSecrets(w, oauth) ==
    row' = IF row.exists THEN [row EXCEPT !.headers = read[w].headers, !.oauth = oauth] ELSE row

\* ClearMCPOAuth, then the flow is cancelled and the server reconnected.
ClearWrites(w) ==
    /\ op[w] = "clear" /\ Unlock(w) /\ UpdateSecrets(w, None)
    /\ Goto(w, "write", IF row.exists THEN "clearFlow" ELSE "done")
    /\ UNCHANGED <<headersSaved, runtime, open, op, read, flows, refreshes>>
ClearCancels(w) ==
    /\ Goto(w, "clearFlow", IF read[w].enabled THEN "read" ELSE "disconnect") /\ CancelFlow
    /\ UNCHANGED <<store, runtime, open, op, read, callback, refreshes>>

\* persistMCPOAuthSession of a flow that got its token.
TokenWrites(w) ==
    /\ op[w] = "authorize" /\ Unlock(w) /\ UpdateSecrets(w, read[w].url)
    /\ Goto(w, "write", IF row.exists THEN "connected" ELSE "failed")
    /\ UNCHANGED <<headersSaved, runtime, open, op, read, flows, refreshes>>

\* A session whose token was refreshed stores it, whatever its address was.
Refresh(s) ==
    /\ refreshes < MaxRefreshes /\ refreshes' = refreshes + 1
    /\ s \in open /\ secretsMu = None /\ row.exists /\ read[s].oauth # None
    /\ row' = [row EXCEPT !.oauth = read[s].url]
    /\ UNCHANGED <<secretsMu, headersSaved, runtime, open, op, pc, read, flows>>

-----------------------------------------------------------------------------
(* Connections *)

\* ReconnectMCPServer and TestMCPServer read the row first.
ReadRow(w) ==
    /\ read' = [read EXCEPT ![w] = row]
    /\ Goto(w, "read", IF op[w] = "test" /\ row.exists THEN "connect"
                       ELSE IF row.exists /\ row.enabled THEN "swap" ELSE "done")
    /\ UNCHANGED <<store, runtime, open, op, flows, refreshes>>

Swap(w) ==
    /\ Goto(w, "swap", "connect") /\ SetRuntime(State("connecting", None), {})
    /\ UNCHANGED <<store, op, read, flows, refreshes>>

\* At any time up to mcpConnectTimeout.
Connected(w) ==
    /\ Goto(w, "connect", "connected") /\ open' = open \cup {w}
    /\ UNCHANGED <<store, runtime, op, read, flows, refreshes>>
ConnectFails(w) ==
    /\ Goto(w, "connect", "done")
    /\ IF op[w] = "test" THEN UNCHANGED <<runtime, open>> ELSE SetRuntime(State("error", None), {})
    /\ UNCHANGED <<store, op, read, flows, refreshes>>

\* Mutant: the runtime is replaced without a look at what it held.
InstallOver(w) ==
    /\ op[w] \notin {"test", "authorize"} /\ Goto(w, "connected", "done")
    /\ runtime' = State("ready", w)
    /\ UNCHANGED <<open, store, op, read, flows, refreshes>>

Install(w) ==
    /\ op[w] \notin {"test", "authorize"} /\ Goto(w, "connected", "done")
    /\ SetRuntime(State("ready", w), {})
    /\ UNCHANGED <<store, op, read, flows, refreshes>>
TestCloses(w) ==
    /\ op[w] = "test" /\ Goto(w, "connected", "done") /\ open' = open \ {w}
    /\ UNCHANGED <<store, runtime, op, read, flows, refreshes>>

Disconnect(w) ==
    /\ Goto(w, "disconnect", IF op[w] = "delete" THEN "deleteRow" ELSE "done")
    /\ SetRuntime(State("disabled", None), {})
    /\ UNCHANGED <<store, op, read, flows, refreshes>>
DeleteRow(w) ==
    /\ Goto(w, "deleteRow", IF row.exists THEN "deleteState" ELSE "done") /\ row' = NoRow
    /\ UNCHANGED <<secretsMu, headersSaved, runtime, open, op, read, flows, refreshes>>
\* The entry goes, and a session it may hold by now with it, unclosed.
DeleteState(w) ==
    /\ Goto(w, "deleteState", "done") /\ runtime' = Gone
    /\ UNCHANGED <<store, open, op, read, flows, refreshes>>

-----------------------------------------------------------------------------
(* OAuth flows *)

BeginMCPOAuth(w) ==
    /\ op[w] = "authorize" /\ read' = [read EXCEPT ![w] = row]
    /\ IF row.exists /\ row.enabled
       THEN /\ Goto(w, "begin", "flow") /\ byServer' = w
            /\ cancelled' = cancelled \cup ({byServer} \ {None})
       ELSE Goto(w, "begin", "done") /\ UNCHANGED <<byServer, cancelled>>
    /\ UNCHANGED <<store, runtime, open, op, states, callback, refreshes>>
FlowStarts(w) ==
    /\ Goto(w, "flow", "url") /\ SetRuntime(State("connecting", None), {})
    /\ UNCHANGED <<store, op, read, flows, refreshes>>

\* publishMCPOAuthURL.
PublishURL(w) ==
    /\ byServer = w /\ Goto(w, "url", "wait") /\ states' = states \cup {w}
    /\ UNCHANGED <<store, runtime, open, op, read, byServer, cancelled, callback, refreshes>>

\* CompleteMCPOAuth.
CallBack(w) ==
    /\ w \in states /\ callback' = callback \cup {w}
    /\ UNCHANGED <<store, runtime, open, op, pc, read, byServer, states, cancelled, refreshes>>
TokenReceived(w) ==
    /\ w \in callback /\ Goto(w, "wait", "lock")
    /\ UNCHANGED <<store, runtime, open, op, read, flows, refreshes>>

\* Mutant: the wait for the callback does not watch the context.
FlowFailsNotWaiting(w) ==
    /\ op[w] = "authorize" /\ pc[w] \in {"url", "connected"} /\ w \notin open
    /\ pc' = [pc EXCEPT ![w] = "failed"] /\ UNCHANGED <<store, runtime, open, op, read, flows, refreshes>>

\* The context ended: the flow was cancelled or its ten minutes are over; or the
\* server refuses.
FlowFails(w) ==
    /\ op[w] = "authorize" /\ pc[w] \in {"url", "wait", "connected"} /\ w \notin open
    /\ pc' = [pc EXCEPT ![w] = "failed"] /\ UNCHANGED <<store, runtime, open, op, read, flows, refreshes>>
FlowError(w) ==
    /\ Goto(w, "failed", "remove")
    /\ IF byServer = w THEN SetRuntime(State("error", None), {}) ELSE UNCHANGED <<runtime, open>>
    /\ UNCHANGED <<store, op, read, flows, refreshes>>

FlowConnected(w) ==
    /\ op[w] = "authorize" /\ Goto(w, "connected", "check") /\ w \notin cancelled
    /\ open' = open \cup {w}
    /\ UNCHANGED <<store, runtime, op, read, flows, refreshes>>

\* The server may have changed during the authorization.
FlowChecks(w) ==
    /\ pc[w] = "check"
    /\ IF row.enabled /\ row.url = read[w].url /\ byServer = w
       THEN Goto(w, "check", "install") /\ UNCHANGED open
       ELSE Goto(w, "check", "remove") /\ open' = open \ {w}
    /\ UNCHANGED <<store, runtime, op, read, flows, refreshes>>
FlowInstalls(w) ==
    /\ Goto(w, "install", "remove") /\ SetRuntime(State("ready", w), {})
    /\ UNCHANGED <<store, op, read, flows, refreshes>>

\* Mutant: only the flow of the server is forgotten, not its state.
RemoveFlowKeepsState(w) ==
    /\ Goto(w, "remove", "done") /\ byServer' = IF byServer = w THEN None ELSE byServer
    /\ cancelled' = cancelled \cup {w}
    /\ UNCHANGED <<store, runtime, open, op, read, states, callback, refreshes>>

\* removeMCPOAuthFlow; flow.cancel.
RemoveFlow(w) ==
    /\ Goto(w, "remove", "done") /\ byServer' = IF byServer = w THEN None ELSE byServer
    /\ states' = states \ {w} /\ cancelled' = cancelled \cup {w}
    /\ UNCHANGED <<store, runtime, open, op, read, callback, refreshes>>

Step(w) ==
    \/ CancelBefore(w) \/ SetEnabled(w) \/ DeleteBegins(w)
    \/ Lock(w) \/ SaveWrites(w) \/ ClearWrites(w) \/ ClearCancels(w) \/ TokenWrites(w)
    \/ ReadRow(w) \/ Swap(w) \/ Connected(w) \/ ConnectFails(w) \/ Install(w) \/ TestCloses(w)
    \/ Disconnect(w) \/ DeleteRow(w) \/ DeleteState(w)
    \/ BeginMCPOAuth(w) \/ FlowStarts(w) \/ PublishURL(w) \/ TokenReceived(w) \/ FlowFails(w)
    \/ FlowError(w) \/ FlowConnected(w) \/ FlowChecks(w) \/ FlowInstalls(w) \/ RemoveFlow(w)

Next == \E w \in Workers : Step(w) \/ CallBack(w) \/ Refresh(w) \/ \E request \in Requests : Begin(w, request)

\* Every request and flow has a timeout; the locks are held for one transaction.
Fair == \A w \in Workers : WF_vars(Step(w))
Spec == Init /\ [][Next]_vars
FairSpec == Spec /\ Fair

-----------------------------------------------------------------------------
(* Properties *)

Pcs == {"idle", "cancel", "begin", "lock", "write", "clearFlow", "read", "swap", "connect", "connected",
        "disconnect", "deleteRow", "deleteState", "flow", "url", "wait", "check", "install",
        "failed", "remove", "done"}
Flows == {"wait", "lock", "write", "connected", "check", "install", "failed", "remove"}
Server == [exists : BOOLEAN, enabled : BOOLEAN, url : {None} \cup Urls,
           headers : {None, "first"} \cup Workers, oauth : {None} \cup Urls]

\* The values of every variable.
TypeOK ==
    /\ row \in Server /\ read \in [Workers -> Server]
    /\ runtime \in [status : {"absent", "disconnected", "connecting", "ready", "error", "disabled"},
                    session : {None} \cup Workers]
    /\ open \subseteq Workers /\ op \in [Workers -> {None} \cup Requests] /\ pc \in [Workers -> Pcs]
    /\ byServer \in {None} \cup Workers /\ states \subseteq Workers
    /\ cancelled \subseteq Workers /\ callback \subseteq Workers
    /\ secretsMu \in {None} \cup Workers /\ headersSaved \in {"first"} \cup Workers
    /\ refreshes \in 0 .. MaxRefreshes

\* Which steps a request takes.
RequestInv ==
    \A w \in Workers :
        /\ op[w] = "authorize" => pc[w] \in Flows \cup {"begin", "flow", "url", "done"}
        /\ pc[w] \in {"flow", "url", "wait", "check", "install", "failed", "remove"} => op[w] = "authorize"
        /\ pc[w] \in {"deleteRow", "deleteState"} => op[w] = "delete"

\* Whoever is to write the secrets holds mcpSecretsMu, and read those saved last.
WriterInv ==
    \A w \in Workers : pc[w] = "write" => secretsMu = w /\ read[w].headers = headersSaved

\* The headers saved last are the stored ones: no authorization, refresh or clear
\* that was under way writes older ones back.
SavedSecretsStay == row.exists => row.headers = headersSaved

\* A connected session is the one the tools call, or whoever opened it is still
\* busy with it; but for a server that is being deleted, none is left behind.
NoSessionForgotten ==
    \A s \in open :
        \/ runtime.session = s \/ pc[s] \in {"connected", "check", "install"}
        \/ \E w \in Workers : op[w] = "delete" /\ pc[w] = "done"

\* A state can be called back only while its flow is there to take it, and every
\* such flow but the server's own has been cancelled.
CallbacksReachFlows ==
    \A f \in states :
        /\ pc[f] \notin {"idle", "done"}
        /\ f = byServer \/ f \in cancelled

\* Flows that can be called back are on their way from the URL to the end.
FlowInv ==
    \A f \in states : op[f] = "authorize" /\ pc[f] \in Flows /\ (f = byServer \/ f \in cancelled)

\* The inductive invariant.
IInv ==
    /\ TypeOK /\ RequestInv /\ WriterInv /\ SavedSecretsStay /\ NoSessionForgotten /\ FlowInv

\* A server that is disabled has no session its tools could call: disabling
\* closes the session (guide.md:331, architecture.md:43).
DisabledServerHasNoSession ==
    (~row.enabled /\ \A w \in Workers : pc[w] \in {"idle", "done"}) => runtime.status # "ready"

\* Every request, and every authorization, comes to its end.
RequestsEnd == \A w \in Workers : []<>(pc[w] \in {"idle", "done"})
=============================================================================
