------------------------------ MODULE MCAgent -------------------------------
(* What goes on in and around a turn of the agent: what it shows and stores, *)
(* the journal of its tool calls, MCP clients, explanations of approvals,    *)
(* web searches, and the streams by which consoles follow all that, checked  *)
(* in one run.  As in MCRemote each behaviour moves one component: focus.    *)
EXTENDS Naturals, Sequences, TLC

CONSTANTS
    Calls, Kinds, Turns, MaxFaults,                              \* ToolJournal
    Workers, Urls, MaxRefreshes,                                 \* MCPClient
    Approvals, MaxRetries, Slots, Sems,                          \* ApprovalExplanation
    Callers, Queries, WebSlots, MaxFlights, MaxSaves,            \* WebSearch
    Readers, MaxRuns, MaxEvents,                                 \* ChatEvents
    ToolRequests, MaxCommands, MaxConnects, MaxCrashes,          \* MCPActivity
    Letters, Markers, MaxText, MaxChunk, MaxOutputs,             \* AgentTurn
    Buffer,                                                      \* of every subscriber's channel
    c1, c2                                                       \* the Calls of the run

ASSUME StreamBounds == MaxRuns \in Nat /\ MaxEvents \in Nat \ {0} /\ Buffer \in Nat

VARIABLES
    focus,       \* the component that moves
    kind, turn, stage, registered, modelEnd, scopesCancelled, scopesClosed, tool, of, toolResult,
    listed, journal, pending, toolRun, toolPublisher, console, subscribed, crashes, failures,
    server, runtime, sessions, op, request, read, byServer, states, flowsCancelled, callback,
    secretsMu, headersSaved, refreshes,
    approval, submit, decider, review, active, explanationSlots, sem, autoSem, task, tasksCancelled,
    settings, saver, saves, flight, webSlots, caller,
    chat, driver, runs, announcing, exists, gen, count, ended, chatChannel, chatOpen, reader,
    replay, done, on, cursor, cursorOf, seen, deleter,
    up, restarts, status, linked, operation, handler, result, run, publisher, ws, slot, serving,
    wanted, channel, open, informed, view, commands, connects,
    phase, candidate, stream, progress, screen, answerRows, outputs, letters, outcome

\* The Kinds of the run: one call of each kind.
MCKinds == {(c1 :> k) @@ (c2 :> "unused") : k \in {"run", "background", "plain"}}

MCMarkers == {<<"[", "p", "p">>, <<"[", "e">>}

T == INSTANCE ToolJournal WITH cancelled <- scopesCancelled,
        closed <- scopesClosed, pc <- tool, result <- toolResult, row <- journal, run <- toolRun,
        publisher <- toolPublisher, channel <- console
M == INSTANCE MCPClient WITH row <- server, open <- sessions, pc <- request,
        cancelled <- flowsCancelled
X == INSTANCE ApprovalExplanation WITH row <- approval, slots <- explanationSlots, pc <- task,
        cancelled <- tasksCancelled
W == INSTANCE WebSearch WITH Slots <- WebSlots, slots <- webSlots
E == INSTANCE ChatEvents WITH row <- chat, channel <- chatChannel, open <- chatOpen
A == INSTANCE MCPActivity WITH Calls <- ToolRequests, crashes <- restarts
Q == INSTANCE AgentTurn WITH pc <- phase, view <- screen, rows <- answerRows, written <- letters

\* The counts of slots and reviewers; no approval is called as an opinion is marked.
ASSUME ExplanationBounds ==
    MaxRetries \in Nat /\ Slots \in Nat /\ Sems \in Nat /\ "auto" \notin Approvals

\* The bounds of the web search, and no request of a console has the name of nobody.
ASSUME SearchBounds == WebSlots \in Nat /\ MaxFlights \in Nat /\ MaxSaves \in Nat
ASSUME ClientBounds == MaxRefreshes \in Nat /\ "none" \notin Workers

\* A text that marks internal context is not empty.
ASSUME TurnBounds ==
    /\ MaxText \in Nat /\ MaxChunk \in Nat /\ MaxOutputs \in Nat
    /\ Markers \subseteq Seq(Letters) \ {<<>>}

\* No turn has the number that stands for none.
ASSUME CallBounds == Turns \subseteq Nat \ {0} /\ Kinds \subseteq [Calls -> T!Kind] /\ MaxFaults \in Nat

toolVars == <<kind, turn, stage, registered, modelEnd, scopesCancelled, scopesClosed, tool, of,
              toolResult, listed, journal, pending, toolRun, toolPublisher, console, subscribed,
              crashes, failures>>
clientVars == <<server, runtime, sessions, op, request, read, byServer, states, flowsCancelled,
                callback, secretsMu, headersSaved, refreshes>>
explanationVars == <<approval, submit, decider, review, active, explanationSlots, sem, autoSem,
                     task, tasksCancelled>>
searchVars == <<settings, saver, saves, flight, webSlots, caller>>
chatVars == <<chat, driver, runs, announcing, exists, gen, count, ended, chatChannel, chatOpen,
              reader, replay, done, on, cursor, cursorOf, seen, deleter>>
activityVars == <<up, restarts, status, linked, operation, handler, result, run, publisher, ws,
                  slot, serving, wanted, channel, open, informed, view, commands, connects>>
turnVars == <<phase, candidate, stream, progress, screen, answerRows, outputs, letters, outcome>>
vars == <<focus, toolVars, clientVars, explanationVars, searchVars, chatVars, activityVars, turnVars>>

\* What does not move starts in one of its initial states; one address is as good
\* as another to start with.
Init ==
    /\ focus \in {"tools", "clients", "explanations", "searches", "chat", "activity", "turn"}
    /\ T!Init /\ (focus # "tools" => kind = CHOOSE k \in Kinds : TRUE)
    /\ M!Init /\ server.url = CHOOSE u \in Urls : TRUE
    /\ (focus # "clients" => server.enabled /\ server.oauth = M!None)
    /\ X!Init /\ W!Init
    /\ E!Init /\ A!Init /\ Q!Init

MoveTools ==
    /\ focus = "tools" /\ T!Next
    /\ UNCHANGED <<focus, clientVars, explanationVars, searchVars, chatVars, activityVars, turnVars>>
MoveClients ==
    /\ focus = "clients" /\ M!Next
    /\ UNCHANGED <<focus, toolVars, explanationVars, searchVars, chatVars, activityVars, turnVars>>
MoveExplanations ==
    /\ focus = "explanations" /\ X!Next
    /\ UNCHANGED <<focus, toolVars, clientVars, searchVars, chatVars, activityVars, turnVars>>
MoveSearches ==
    /\ focus = "searches" /\ W!Next
    /\ UNCHANGED <<focus, toolVars, clientVars, explanationVars, chatVars, activityVars, turnVars>>
MoveChat ==
    /\ focus = "chat" /\ E!Next
    /\ UNCHANGED <<focus, toolVars, clientVars, explanationVars, searchVars, activityVars, turnVars>>
MoveActivity ==
    /\ focus = "activity" /\ A!Next
    /\ UNCHANGED <<focus, toolVars, clientVars, explanationVars, searchVars, chatVars, turnVars>>
MoveTurn ==
    /\ focus = "turn" /\ Q!Next
    /\ UNCHANGED <<focus, toolVars, clientVars, explanationVars, searchVars, chatVars, activityVars>>

Next ==
    \/ MoveTools \/ MoveClients \/ MoveExplanations \/ MoveSearches \/ MoveChat \/ MoveActivity
    \/ MoveTurn

\* The fairness each component states (Fair), for the one that moves.
Spec ==
    /\ Init /\ [][Next]_vars
    /\ WF_toolVars(focus = "tools" /\ T!Turn /\ UNCHANGED kind)
    /\ WF_toolVars(focus = "tools" /\ T!Receive /\ UNCHANGED kind)
    /\ \A c \in Calls : /\ WF_toolVars(focus = "tools" /\ T!Tool(c) /\ UNCHANGED kind)
                        /\ WF_toolVars(focus = "tools" /\ T!Executor(c) /\ UNCHANGED kind)
                        /\ WF_toolVars(focus = "tools" /\ toolRun[c] = "running"
                                          /\ T!RunEnds(c) /\ UNCHANGED kind)
    /\ \A w \in Workers : WF_clientVars(focus = "clients" /\ M!Step(w))
    /\ \A a \in Approvals :
          /\ WF_explanationVars(focus = "explanations" /\ X!SubmitGoesOn(a))
          /\ WF_explanationVars(focus = "explanations" /\ X!DecideGoesOn(a))
    /\ \A t \in X!Tasks : WF_explanationVars(focus = "explanations" /\ X!TaskGoesOn(t))
    /\ \A i \in W!Ids : /\ WF_searchVars(focus = "searches" /\ W!Deadline(i))
                        /\ WF_searchVars(focus = "searches" /\ W!Land(i))
    /\ \A r \in Readers : /\ WF_chatVars(focus = "chat" /\ E!ReplayNext(r))
                          /\ WF_chatVars(focus = "chat" /\ E!Replayed(r))
                          /\ WF_chatVars(focus = "chat" /\ E!Receive(r))
                          /\ WF_chatVars(focus = "chat" /\ E!ChannelClosed(r))
    /\ WF_activityVars(focus = "activity" /\ A!TakeUpdate)
    /\ WF_activityVars(focus = "activity" /\ A!SendEvent)
    /\ WF_activityVars(focus = "activity" /\ A!ChannelClosed)
    /\ WF_activityVars(focus = "activity" /\ (A!SendSnapshot \/ A!SnapshotFails))

-----------------------------------------------------------------------------
(* Properties: each the conjunction of what the components state. *)

\* The journal of tool calls agrees with the calls: a failing turn settles no call
\* that still runs, no row contradicts the run behind it, a background call's
\* row is not its task's, and a scope lives as long as its tools (chat_tool_calls.go,
\* runtime.go, execution_events.go).
ToolCallsRecorded ==
    /\ T!TypeOK /\ T!SettlementSparesRunningCalls /\ T!JournalAgreesWithRun
    /\ T!BackgroundRowIsOfTheCall /\ T!ScopeLivesWithTools

\* The headers saved for an MCP server are not overwritten by a flow, a refresh or a clear
\* that read before, no session is forgotten open except by a delete, and a state can be
\* called back only while its flow is there to take it; callers who share a web search are
\* not mixed up, and its slots come back (mcp.go, mcp_oauth.go, websearch.go).
OutsideCallsSafe ==
    /\ M!TypeOK /\ M!SavedSecretsStay /\ M!NoSessionForgotten /\ M!CallbacksReachFlows
    /\ W!TypeOK /\ W!OneFlightPerRequest /\ W!AnswersAreOwn /\ W!SlotsComeBack /\ W!EnabledHasKey

\* Explanations keep to their limits, can be cancelled as long as they work, no retry
\* works on uncancelled once a decision has returned, and no review is written once its
\* approval is decided, however late the reviewer answers (service.go).
ExplanationsSafe ==
    /\ [](X!TypeOK /\ X!LimitsHold /\ X!WorkCanBeCancelled /\ X!NoRetryOutlivesDecision)
    /\ X!LateReviewsAreDropped

\* A console that follows a conversation misses none of its stream's events from
\* replay to live, and one that follows MCP calls was told of nothing that is not
\* stored, while no row says running that nobody serves; what either was shown of a
\* turn is what is stored, nothing internal is shown, and an answered turn has an
\* answer (chat_events.go, mcp_activity.go, runtime.go).
ClientsMissNothing ==
    /\ E!TypeOK /\ E!SubscribersMissNothing /\ E!HandOffIsSeamless
    /\ A!TypeOK /\ A!ToldIsStored /\ A!RunningIsServed
    /\ Q!TypeOK /\ Q!ShownIsStored /\ Q!NothingInternalIsShown /\ Q!AnsweredMeansAnswer

\* Rows of tool calls settle and who publishes goes on; requests to MCP servers,
\* explanations and web searches end; streams that ended let their readers go; the last
\* subscription of a console comes to be served.
AgentWorkEnds ==
    /\ T!RowsSettle /\ T!PublishersGoOn /\ M!RequestsEnd /\ X!ExplanationsEnd
    /\ W!CallersAreAnswered /\ E!EndedStreamsLetGo /\ A!LastCommandIsServed
=============================================================================
