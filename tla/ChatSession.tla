---------------------------- MODULE ChatSession ----------------------------
(***************************************************************************)
(* One conversation of the chat API: the driver that Server.chat starts,   *)
(* the message queue of chat_queue.go it feeds on, the turns of            *)
(* agent.Runtime, steering, the stop button and manual compression.        *)
(*                                                                         *)
(* Two maps say that a conversation is busy: chatQueue.sessions, which one *)
(* driver holds from begin to finish, and Runtime.active, which every turn *)
(* (or compression) holds on its own.  Between two turns only the first is *)
(* held.  Conversations share nothing but the maps, so one is enough.      *)
(* What a turn does inside, its model and tool calls, is left out.         *)
(***************************************************************************)
EXTENDS Naturals, SequencesExt

CONSTANTS
    Chats,         \* POST /chat requests, each a would-be driver
    MaxMessages,   \* bound: how many messages are queued in all
    MaxQueued      \* maxQueuedChatMessages

ASSUME ChatBounds ==
    /\ MaxMessages \in Nat /\ MaxQueued \in Nat
    /\ {"none", "compress"} \cap Chats = {}

Messages == 1 .. MaxMessages
Holders  == Chats \cup {"none", "compress"}
DriverPC == {"idle", "begin", "turn", "registered", "answered", "steered", "failed",
             "next", "clear", "finish", "done"}

VARIABLES
    driver, items, accepting, ctxDone,        \* chatQueue.sessions
    pc, current,                              \* Server.chat; 0 is its own message
    active, steeredBy, steered, modelCancelled,   \* Runtime.active and its turn
    accepted, mode, fate,                     \* the messages that were answered 202
    steerer, aimed,     \* queueChatMessage after enqueue; who holds the turn's steerCancel
    stopper, compressor

queueVars == <<driver, items, accepting, ctxDone>>
turnVars  == <<active, steeredBy, steered, modelCancelled, aimed>>
msgVars   == <<accepted, mode, fate>>
vars == <<queueVars, pc, current, turnVars, msgVars, steerer, stopper, compressor>>

Init ==
    /\ driver = "none" /\ items = <<>> /\ accepting = FALSE /\ ctxDone = {}
    /\ pc = [c \in Chats |-> "idle"]
    /\ current = [c \in Chats |-> 0]
    /\ active = "none" /\ steeredBy = {} /\ steered = FALSE /\ modelCancelled = FALSE
    /\ accepted = 0
    /\ mode = [m \in Messages |-> "none"]
    /\ fate = [m \in Messages |-> "new"]
    /\ steerer = [m \in Messages |-> "idle"]
    /\ aimed = {}
    /\ stopper = "idle" /\ compressor = "idle"

Goto(c, from, to) == pc[c] = from /\ pc' = [pc EXCEPT ![c] = to]
Discard(q)        == fate' = [m \in Messages |-> IF m \in ToSet(q) THEN "discarded" ELSE fate[m]]

-----------------------------------------------------------------------------
(* chatMessageQueue *)

QueueBegin(c) ==
    /\ Goto(c, "idle", "begin")
    /\ driver = "none"
    /\ driver' = c /\ items' = <<>> /\ accepting' = TRUE
    /\ UNCHANGED <<ctxDone, current, turnVars, msgVars, steerer, stopper, compressor>>

\* Mutant: a steering message goes to the very front.
PositionFirst(how) == IF how = "followup" THEN Len(items) + 1 ELSE 1

\* A steering message goes behind the steering messages at the front.
Position(how) ==
    IF how = "followup" THEN Len(items) + 1
    ELSE CHOOSE p \in 1 .. Len(items) + 1 :
            /\ \A i \in 1 .. p - 1 : mode[items[i]] = "steering"
            /\ p <= Len(items) => mode[items[p]] # "steering"

Enqueue(how) ==
    LET m == accepted + 1 IN
    /\ m \in Messages
    /\ driver # "none" /\ accepting
    /\ Len(items) < MaxQueued
    /\ items' = InsertAt(items, Position(how), m)
    /\ accepted' = m
    /\ mode' = [mode EXCEPT ![m] = how]
    /\ fate' = [fate EXCEPT ![m] = "queued"]
    /\ steerer' = [steerer EXCEPT ![m] = IF how = "steering" THEN "mark" ELSE "done"]
    /\ UNCHANGED <<driver, accepting, ctxDone, pc, current, turnVars, stopper, compressor>>

\* Mutant: an empty queue goes on accepting until finish.
NextKeepsAccepting(c) ==
    /\ pc[c] = "next"
    /\ IF items = <<>>
         THEN /\ pc' = [pc EXCEPT ![c] = "finish"]
              /\ UNCHANGED <<items, accepting, current, fate>>
         ELSE /\ pc' = [pc EXCEPT ![c] = "begin"]
              /\ current' = [current EXCEPT ![c] = Head(items)]
              /\ fate' = [fate EXCEPT ![Head(items)] = "started"]
              /\ items' = Tail(items) /\ UNCHANGED accepting
    /\ UNCHANGED <<driver, ctxDone, turnVars, accepted, mode, steerer, stopper, compressor>>

NextAfterTurn(c) ==
    /\ pc[c] = "next"
    /\ IF items = <<>>
         THEN /\ pc' = [pc EXCEPT ![c] = "finish"]
              /\ accepting' = FALSE
              /\ UNCHANGED <<items, current, fate>>
         ELSE /\ pc' = [pc EXCEPT ![c] = "begin"]
              /\ current' = [current EXCEPT ![c] = Head(items)]
              /\ fate' = [fate EXCEPT ![Head(items)] = "started"]
              /\ items' = Tail(items) /\ UNCHANGED accepting
    /\ UNCHANGED <<driver, ctxDone, turnVars, accepted, mode, steerer, stopper, compressor>>

\* Mutant: the cleared queue is left open.
ClearOnly ==
    /\ items' = <<>> /\ UNCHANGED accepting
    /\ Discard(items)
    /\ ctxDone' = ctxDone \cup {driver}

Clear ==
    /\ items' = <<>> /\ accepting' = FALSE
    /\ Discard(items)
    /\ ctxDone' = ctxDone \cup {driver}

Finish(c) ==
    /\ driver' = "none" /\ items' = <<>> /\ accepting' = FALSE
    /\ ctxDone' = ctxDone \cup {c}

QueueFinish(c) ==
    /\ Goto(c, "finish", "done")
    /\ Finish(c)
    /\ UNCHANGED <<current, turnVars, msgVars, steerer, stopper, compressor>>

-----------------------------------------------------------------------------
(* Server.chat and Runtime.QueryWithAttachments *)

\* Mutant: the turn's context does not follow the queue's.
ModelCancelled(c) == modelCancelled

\* newChatRunContext, and the child context that beginSession makes of it
Cancelled(c) == c \in ctxDone \/ modelCancelled

\* The event stream cannot be started: finish without a turn.
StreamFails(c) ==
    /\ Goto(c, "begin", "done")
    /\ current[c] = 0
    /\ Finish(c)
    /\ Discard(items)
    /\ UNCHANGED <<current, turnVars, accepted, mode, steerer, stopper, compressor>>

\* A new turn has a cancel function of its own; the one of a past turn does nothing.
Take(h) == active' = h /\ steeredBy' = {} /\ steered' = FALSE /\ modelCancelled' = FALSE /\ aimed' = {}
Release == active' = "none" /\ aimed' = {} /\ UNCHANGED <<steeredBy, steered, modelCancelled>>

BeginSession(c) ==
    /\ Goto(c, "begin", "turn")
    /\ active = "none"
    /\ Take(c)
    /\ UNCHANGED <<queueVars, current, msgVars, steerer, stopper, compressor>>

\* Mutant: the deferred endSession runs for a turn that was refused, too.
BusyEnds(c) ==
    /\ Goto(c, "begin", "clear")
    /\ Release
    /\ UNCHANGED <<queueVars, current, msgVars, steerer, stopper, compressor>>

\* ErrSessionBusy, or ErrUnavailable when the model was reconfigured away.
TurnRefused(c) ==
    /\ Goto(c, "begin", "clear")
    /\ UNCHANGED <<queueVars, current, turnVars, msgVars, steerer, stopper, compressor>>

\* Mutant: a steer that came before the registration is forgotten.
RegisterOnly(c) ==
    /\ Goto(c, "turn", "registered")
    /\ UNCHANGED <<queueVars, current, turnVars, msgVars, steerer, stopper, compressor>>

\* registerSteerCancel, after the history was read.
RegisterSteerCancel(c) ==
    /\ Goto(c, "turn", "registered")
    /\ steered' = (steeredBy # {})
    /\ UNCHANGED <<queueVars, current, active, steeredBy, modelCancelled, aimed, msgVars, steerer,
                   stopper, compressor>>

TurnAnswers(c) ==
    /\ Goto(c, "registered", "answered")
    /\ ~Cancelled(c)
    /\ UNCHANGED <<queueVars, current, turnVars, msgVars, steerer, stopper, compressor>>

\* The runner reached the end of its model call or of its current tool calls after
\* its cancel function was called.  Neither has a timeout of the conversation's,
\* and a tool call may wait for an approval for ever: this step is never certain.
SafePoint(c) ==
    /\ Goto(c, "registered", "steered")
    /\ steered
    /\ UNCHANGED <<queueVars, current, turnVars, msgVars, steerer, stopper, compressor>>

TurnFails(c) ==
    /\ pc[c] \in {"turn", "registered"}
    /\ pc' = [pc EXCEPT ![c] = "failed"]
    /\ UNCHANGED <<queueVars, current, turnVars, msgVars, steerer, stopper, compressor>>

EndSession(c) ==
    /\ \/ pc[c] \in {"answered", "steered"} /\ pc' = [pc EXCEPT ![c] = "next"]
       \/ pc[c] = "failed" /\ pc' = [pc EXCEPT ![c] = "clear"]
    /\ Release
    /\ UNCHANGED <<queueVars, current, msgVars, steerer, stopper, compressor>>

ClearAfterError(c) ==
    /\ Goto(c, "clear", "finish")
    /\ Clear
    /\ UNCHANGED <<driver, current, turnVars, accepted, mode, steerer, stopper, compressor>>

-----------------------------------------------------------------------------
(* SteerSession, called for a steering message after it was enqueued *)

SteerMark(m) ==
    /\ steerer[m] = "mark"
    /\ IF active = "none"
         THEN /\ steerer' = [steerer EXCEPT ![m] = "done"]
              /\ UNCHANGED <<aimed, steeredBy>>
         ELSE /\ steeredBy' = steeredBy \cup {m}
              /\ IF active \in Chats /\ pc[active] # "turn"
                   THEN steerer' = [steerer EXCEPT ![m] = "call"] /\ aimed' = aimed \cup {m}
                   ELSE steerer' = [steerer EXCEPT ![m] = "done"] /\ UNCHANGED aimed
    /\ UNCHANGED <<queueVars, pc, current, active, steered, modelCancelled, msgVars, stopper, compressor>>

\* requestAgentSteer, with the lock released: the turn may be over.
SteerCall(m) ==
    /\ steerer[m] = "call"
    /\ steerer' = [steerer EXCEPT ![m] = "done"]
    /\ steered' = (steered \/ m \in aimed)
    /\ aimed' = aimed \ {m}
    /\ UNCHANGED <<queueVars, pc, current, active, steeredBy, modelCancelled, msgVars, stopper, compressor>>

-----------------------------------------------------------------------------
(* cancelChatSession and compressChatContext *)

CancelSession ==
    /\ stopper = "idle" /\ stopper' = "clear"
    /\ modelCancelled' = (modelCancelled \/ active # "none")
    /\ UNCHANGED <<queueVars, pc, current, active, steeredBy, steered, aimed, msgVars, steerer, compressor>>

StopClear ==
    /\ stopper = "clear" /\ stopper' = "done"
    /\ IF driver = "none" THEN UNCHANGED <<items, accepting, ctxDone, fate>> ELSE Clear
    /\ UNCHANGED <<driver, pc, current, turnVars, accepted, mode, steerer, compressor>>

CompressCheck ==
    /\ compressor = "idle" /\ compressor' = "checked"
    /\ driver = "none" /\ active = "none"
    /\ UNCHANGED <<queueVars, pc, current, turnVars, msgVars, steerer, stopper>>

CompressBegin ==
    /\ compressor = "checked"
    /\ IF active = "none"
         THEN compressor' = "working" /\ Take("compress")
         ELSE compressor' = "done" /\ UNCHANGED turnVars
    /\ UNCHANGED <<queueVars, pc, current, msgVars, steerer, stopper>>

CompressEnd ==
    /\ compressor = "working" /\ compressor' = "done"
    /\ Release
    /\ UNCHANGED <<queueVars, pc, current, msgVars, steerer, stopper>>

-----------------------------------------------------------------------------
DriverStep(c) ==
    \/ NextAfterTurn(c) \/ QueueFinish(c) \/ BeginSession(c) \/ RegisterSteerCancel(c)
    \/ EndSession(c) \/ ClearAfterError(c)

Next ==
    \/ \E c \in Chats :
        \/ QueueBegin(c) \/ StreamFails(c) \/ TurnRefused(c) \/ TurnAnswers(c) \/ TurnFails(c)
        \/ SafePoint(c) \/ DriverStep(c)
    \/ \E how \in {"followup", "steering"} : Enqueue(how)
    \/ \E m \in Messages : SteerMark(m) \/ SteerCall(m)
    \/ CancelSession \/ StopClear \/ CompressCheck \/ CompressBegin \/ CompressEnd

Spec == Init /\ [][Next]_vars

\* A turn need not end by itself (it may wait for an approval for ever), nor does a
\* steered one have to reach its safe point; only a cancelled context ends it.
Fairness ==
    /\ \A c \in Chats :
        /\ WF_vars(DriverStep(c))
        /\ WF_vars(Cancelled(c) /\ TurnFails(c))
        /\ WF_vars(active # "none" /\ TurnRefused(c))
    /\ \A m \in Messages : WF_vars(SteerMark(m)) /\ WF_vars(SteerCall(m))
    /\ WF_vars(StopClear) /\ WF_vars(CompressEnd)

FairSpec == Spec /\ Fairness

-----------------------------------------------------------------------------
(* Properties *)

TypeOK ==
    /\ driver \in Chats \cup {"none"}
    /\ items \in Seq(Messages) /\ Len(items) <= MaxQueued
    /\ accepting \in BOOLEAN /\ ctxDone \subseteq Chats
    /\ pc \in [Chats -> DriverPC] /\ current \in [Chats -> 0 .. MaxMessages]
    /\ active \in Holders /\ steeredBy \subseteq Messages
    /\ steered \in BOOLEAN /\ modelCancelled \in BOOLEAN
    /\ accepted \in 0 .. MaxMessages
    /\ mode \in [Messages -> {"none", "followup", "steering"}]
    /\ fate \in [Messages -> {"new", "queued", "started", "discarded"}]
    /\ steerer \in [Messages -> {"idle", "mark", "call", "done"}]
    /\ aimed \subseteq Messages
    /\ stopper \in {"idle", "clear", "done"}
    /\ compressor \in {"idle", "checked", "working", "done"}

\* Runtime.active belongs to the turn or compression that is under way, and only
\* the driver of the conversation runs turns: no two of them ever work on one
\* history, whatever is refused, cancelled or compressed between two turns.
OneTurnAtATime ==
    /\ \A c \in Chats : pc[c] \in {"turn", "registered", "answered", "steered", "failed"} <=> active = c
    /\ compressor = "working" <=> active = "compress"
    /\ \A c \in Chats : pc[c] \notin {"idle", "done"} <=> driver = c

\* TestChatMessageQueuePrioritizesSteeringWithoutReorderingItsMessages: steering
\* messages come first, and each kind is in the order it was accepted in.
QueueOrdered ==
    \A i, j \in 1 .. Len(items) :
        i < j => \/ mode[items[i]] = mode[items[j]] /\ items[i] < items[j]
                 \/ mode[items[i]] = "steering" /\ mode[items[j]] = "followup"

\* A message that was answered 202 is started or discarded by a stop or an
\* error; it never falls between nextAfterTurn's last look and finish.
NoMessageLost ==
    \A m \in Messages : fate[m] = "queued" <=> m \in ToSet(items)

\* Once a driver's queue was cleared by a stop or an error, nobody can queue a
\* message again before that driver has given the conversation free.
StoppedQueueStaysEmpty ==
    driver \in ctxDone => items = <<>>

\* A driver that was stopped gives the conversation free.
StopEndsDriver ==
    \A c \in Chats : (driver = c /\ c \in ctxDone) ~> driver # c

\* A request to steer is never forgotten: the runner of a registered turn that was
\* marked has been told, or a request that holds its cancel function is about to
\* tell it, even where the mark came before the registration.  And a request that
\* comes late, for a turn that is over, never steers a turn that nobody marked.
\* (When the runner then stops is up to its model and tool calls.)
SteerReachesRunner ==
    /\ \A c \in Chats :
          active = c /\ pc[c] = "registered" /\ steeredBy # {} =>
              steered \/ \E m \in aimed : steerer[m] = "call"
    /\ steered => steeredBy # {}

\* docs/architecture.md: steering closes the current turn at its next safe
\* point and then starts the new input; so it never ends that input's own turn.
SteerSparesOwnTurn ==
    \A c \in Chats : pc[c] = "steered" => steeredBy # {current[c]}

-----------------------------------------------------------------------------
(* The inductive invariant *)

\* Without a driver, behind a stopped one and behind one that saw the queue empty,
\* the queue is closed; what is in the queue was accepted in one of two modes.
QueueInv ==
    /\ driver = "none" \/ driver \in ctxDone \/ (\E c \in Chats : pc[c] = "finish")
          => items = <<>> /\ ~accepting
    /\ \A c \in ctxDone : pc[c] # "idle"
    /\ \A i \in 1 .. Len(items) :
          items[i] <= accepted /\ mode[items[i]] \in {"followup", "steering"}

\* Who holds the cancel function of the turn marked this turn, and has yet to call
\* it; only messages that were queued steer.
SteerInv ==
    /\ aimed \subseteq steeredBy
    /\ \A m \in aimed : steerer[m] = "call"
    /\ \A m \in Messages : steerer[m] # "idle" => m <= accepted

IInv ==
    /\ TypeOK /\ OneTurnAtATime
    /\ QueueInv /\ QueueOrdered /\ NoMessageLost /\ StoppedQueueStaysEmpty
    /\ SteerInv /\ SteerReachesRunner
=============================================================================
