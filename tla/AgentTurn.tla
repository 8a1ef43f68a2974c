----------------------------- MODULE AgentTurn -----------------------------
(***************************************************************************)
(* What a turn of the agent shows while the model answers, and what it     *)
(* stores (internal/agent/runtime.go, QueryWithAttachments).               *)
(*                                                                         *)
(* The events of the model arrive one after another: streamed or whole     *)
(* assistant messages, tool results, retries, errors.  Text is shown as it *)
(* arrives, before it is known whether it is the answer, progress before a *)
(* tool call, or nothing that may be shown; what was shown too early is    *)
(* taken back.  Markers of internal context must not be shown, even when   *)
(* they arrive in pieces.                                                  *)
(*                                                                         *)
(* view is what a client has that follows the events; how the events reach *)
(* clients is ChatEvents.tla, what the tool calls store ToolJournal.tla,   *)
(* what later turns are told ModelContext.tla.                             *)
(***************************************************************************)
EXTENDS Naturals, Sequences

CONSTANTS
    Letters,        \* what texts are made of
    Markers,        \* texts that mark internal context
    MaxText,        \* bound on the letters of a turn
    MaxChunk,       \* bound on the letters of a chunk of a stream
    MaxOutputs      \* bound on the outputs of the model in a turn

VARIABLES
    pc,             \* "loop", "stream", "finish" or "over"
    candidate,      \* answerCandidate and answerMessageID
    stream,         \* the stream that is being received
    progress,       \* what the turn has seen: activity, tool results, an interrupt
    view,           \* messages as events show them, in the order of their ids
    rows,           \* rows of the turn in chat_messages
    outputs,        \* number of outputs so far
    written,        \* number of letters so far
    outcome         \* "running", or how QueryWithAttachments returned

vars == <<pc, candidate, stream, progress, view, rows, outputs, written, outcome>>

NoId == 0
Nothing == [text |-> <<>>, id |-> NoId]
NoStream == [id |-> NoId, raw |-> <<>>, pending |-> <<>>, blocked |-> FALSE,
             calls |-> FALSE, reasoned |-> FALSE]

Texts(n) == UNION {[1..k -> Letters] : k \in 0..n}

\* A message has the number of its output, or the next one if the finalizer makes it.
Ids == NoId..MaxOutputs + 1
Absent == [text |-> <<>>, state |-> "none"]

Init ==
    /\ pc = "loop" /\ outcome = "running"
    /\ candidate = Nothing /\ stream = NoStream
    /\ progress = [activity |-> FALSE, tools |-> FALSE, interrupted |-> FALSE]
    /\ view = [id \in Ids |-> Absent] /\ rows = <<>>
    /\ outputs = 0 /\ written = 0

-----------------------------------------------------------------------------
(* assistantOutputGuard. *)

\* The marker stands at n as far as the text goes.
IsAt(marker, text, n) ==
    \A k \in 1..Len(marker) : n + k - 1 <= Len(text) => text[n + k - 1] = marker[k]
Starts(text) ==
    {n \in 1..Len(text) : \E m \in Markers : n + Len(m) - 1 <= Len(text) /\ IsAt(m, text, n)}

\* containsInternalContextMarker
Internal(text) == Starts(text) # {}

\* internalContextMarkerPrefixSuffix: the longest end that may begin a marker.
MaybeMarker(text) ==
    {n \in 1..Len(text) : \E m \in Markers : n + Len(m) - 1 > Len(text) /\ IsAt(m, text, n)}

HeldFrom(text) ==
    LET ends == MaybeMarker(text)
    IN  IF ends = {} THEN Len(text) + 1 ELSE CHOOSE n \in ends : \A k \in ends : n <= k

\* Write: what may be shown now, what is held back, whether a marker was found.
GuardWrite(s, chunk) ==
    LET text == s.pending \o chunk
        starts == Starts(text)
        first == CHOOSE n \in starts : \A k \in starts : n <= k
    IN  IF s.blocked THEN [show |-> <<>>, pending |-> <<>>, blocked |-> TRUE]
        ELSE IF starts # {} THEN [show |-> SubSeq(text, 1, first - 1), pending |-> <<>>, blocked |-> TRUE]
        ELSE [show |-> SubSeq(text, 1, HeldFrom(text) - 1),
              pending |-> SubSeq(text, HeldFrom(text), Len(text)), blocked |-> FALSE]

GuardFinish(s) == IF s.blocked THEN <<>> ELSE s.pending

-----------------------------------------------------------------------------
(* Messages as events tell them.  A message has the number of its output,   *)
(* and only the latest output can start one: the order in which messages   *)
(* start is that of their numbers.                                         *)

\* emitAssistantMessage: message_start with the first content, then content.
Shown(v, id, text) ==
    IF text = <<>> THEN v
    ELSE [v EXCEPT ![id] = [text |-> v[id].text \o text,
                            state |-> IF v[id].state = "none" THEN "open" ELSE v[id].state]]

\* commitAssistantMessage and resetAssistantMessage: nothing for a message that
\* was never started, or is committed or reset already.
Committed(v, id, state) ==
    IF v[id].state = "open" THEN [v EXCEPT ![id].state = state] ELSE v

Reset(v, id) == IF v[id].state = "open" THEN [v EXCEPT ![id] = Absent] ELSE v

\* resetActiveAssistantMessages
ResetAll(v) == [id \in Ids |-> IF v[id].state = "open" THEN Absent ELSE v[id]]

Stored(role, id, text) == rows' = Append(rows, [id |-> id, role |-> role, text |-> text])

\* The deferred calls of QueryWithAttachments take back what is still open.
Ends(how) == pc' = "over" /\ outcome' = how
Fails(v) ==
    /\ Ends("failed")
    /\ view' = ResetAll(v)
    /\ UNCHANGED rows

-----------------------------------------------------------------------------
(* Streamed assistant messages. *)

\* A new output shows that the candidate was not the answer.
CandidateDropped == candidate' = Nothing /\ view' = Reset(view, candidate.id)

StreamBegins ==
    /\ pc = "loop" /\ outputs < MaxOutputs
    /\ outputs' = outputs + 1
    /\ CandidateDropped
    /\ pc' = "stream" /\ stream' = [NoStream EXCEPT !.id = outputs + 1]
    /\ UNCHANGED <<progress, rows, written, outcome>>

Chunk(text) ==
    /\ pc = "stream" /\ text # <<>> /\ written + Len(text) <= MaxText
    /\ written' = written + Len(text)
    /\ LET guard == GuardWrite(stream, text)
       IN  /\ view' = Shown(view, stream.id, guard.show)
           /\ stream' = [stream EXCEPT !.raw = @ \o text, !.pending = guard.pending,
                                       !.blocked = guard.blocked]
    /\ progress' = [progress EXCEPT !.activity = TRUE]
    /\ UNCHANGED <<pc, candidate, rows, outputs, outcome>>

OtherChunk ==
    /\ pc = "stream"
    /\ \/ stream' = [stream EXCEPT !.calls = TRUE]
       \/ stream' = [stream EXCEPT !.reasoned = TRUE]
    /\ progress' = [progress EXCEPT !.activity = TRUE]
    /\ UNCHANGED <<pc, candidate, view, rows, outputs, written, outcome>>

\* The model request is repeated: WillRetryError in the middle of the stream.
StreamRetries ==
    /\ pc = "stream"
    /\ view' = Reset(view, stream.id)
    /\ pc' = "loop" /\ stream' = NoStream
    /\ UNCHANGED <<candidate, progress, rows, outputs, written, outcome>>

StreamBreaks ==
    /\ pc = "stream"
    /\ Fails(Reset(view, stream.id))
    /\ stream' = NoStream
    /\ UNCHANGED <<candidate, progress, outputs, written>>

\* Progress before a tool call is stored and committed, an answer is kept until
\* it is known that nothing follows; either write may fail, and after the first
\* that of the reasoning.
StreamEnds(fault) ==
    LET id == stream.id
        told == Shown(view, id, GuardFinish(stream))
        internal == stream.blocked \/ Internal(stream.raw)
        shows == stream.raw # <<>>
    IN  /\ pc = "stream"
        /\ fault = "progress" => stream.calls /\ ~internal /\ shows
        /\ fault = "reasoning" => stream.reasoned
        /\ stream' = NoStream
        /\ IF fault = "progress" THEN UNCHANGED rows /\ view' = ResetAll(told)
           ELSE LET v == CASE stream.calls /\ shows /\ ~internal -> Committed(told, id, "progress")
                           [] stream.calls /\ (internal \/ ~shows) -> Reset(told, id)
                           [] ~stream.calls /\ stream.blocked -> Reset(told, id)
                           [] OTHER -> told
                IN  /\ view' = IF fault = "none" THEN v ELSE ResetAll(v)
                    /\ IF stream.calls /\ shows /\ ~internal
                       THEN Stored("assistant_progress", id, stream.raw)
                       ELSE UNCHANGED rows
        /\ candidate' = IF ~stream.calls /\ shows THEN [text |-> stream.raw, id |-> id] ELSE candidate
        /\ IF fault = "none" THEN pc' = "loop" /\ UNCHANGED outcome ELSE Ends("failed")
        /\ UNCHANGED <<progress, outputs, written>>

-----------------------------------------------------------------------------
(* Whole messages, tool results and other events. *)

WholeMessage(text, calls, fault) ==
    LET id == outputs + 1
        told == Shown(Reset(view, candidate.id), id, text)
        kept == text # <<>> /\ ~Internal(text)
    IN  /\ pc = "loop" /\ outputs < MaxOutputs /\ written + Len(text) <= MaxText
        /\ outputs' = id /\ written' = written + Len(text)
        /\ fault => calls /\ kept
        /\ progress' = IF calls \/ text # <<>> THEN [progress EXCEPT !.activity = TRUE] ELSE progress
        /\ candidate' = IF kept /\ ~calls THEN [text |-> text, id |-> id] ELSE Nothing
        /\ IF fault THEN Fails(told)
           ELSE /\ view' = IF ~kept THEN Reset(view, candidate.id)
                           ELSE IF calls THEN Committed(told, id, "progress") ELSE told
                /\ IF kept /\ calls THEN Stored("assistant_progress", id, text) ELSE UNCHANGED rows
                /\ UNCHANGED <<pc, outcome>>
        /\ UNCHANGED stream

\* The rows of tools are those of ToolJournal.tla.
ToolResult(fault) ==
    /\ pc = "loop" /\ outputs < MaxOutputs
    /\ outputs' = outputs + 1
    /\ progress' = [progress EXCEPT !.activity = TRUE, !.tools = TRUE]
    /\ candidate' = Nothing
    /\ IF fault THEN Fails(view)
       ELSE view' = Reset(view, candidate.id) /\ UNCHANGED <<pc, rows, outcome>>
    /\ UNCHANGED <<stream, written>>

\* A tool interrupts the run; no answer has been received then.
Interrupted ==
    /\ pc = "loop" /\ candidate = Nothing
    /\ progress' = [progress EXCEPT !.activity = TRUE, !.interrupted = TRUE]
    /\ view' = ResetAll(view)
    /\ UNCHANGED <<pc, candidate, stream, rows, outputs, written, outcome>>

\* An error event: the turn was steered at a safe point, cancelled, or failed.
LoopBreaks(how) ==
    /\ pc = "loop"
    /\ Ends(how)
    /\ view' = ResetAll(view)
    /\ UNCHANGED <<candidate, stream, progress, rows, outputs, written>>

LoopEnds ==
    /\ pc = "loop"
    /\ pc' = "finish"
    /\ UNCHANGED <<candidate, stream, progress, view, rows, outputs, written, outcome>>

-----------------------------------------------------------------------------
(* After the loop. *)

\* A candidate that shows internal context is blocked.
Answer == IF Internal(candidate.text) THEN Nothing ELSE candidate

AnswerStored(v, id, text) ==
    /\ Ends("answered")
    /\ Stored("assistant", id, text)
    /\ view' = Committed(v, id, "completed")

FinishWithAnswer(fault) ==
    /\ pc = "finish" /\ Answer # Nothing
    /\ IF fault THEN Fails(view) ELSE AnswerStored(view, Answer.id, Answer.text)
    /\ UNCHANGED <<candidate, stream, progress, outputs, written>>

FinishInterrupted ==
    /\ pc = "finish" /\ Answer = Nothing /\ progress.interrupted
    /\ Ends("answered") /\ view' = Reset(view, candidate.id)
    /\ UNCHANGED <<candidate, stream, progress, rows, outputs, written>>

\* generateFinalAnswer from the results of the tools.
FinishWithFinalizer(text, fault) ==
    LET v == Reset(view, candidate.id)
        id == outputs + 1
    IN  /\ pc = "finish" /\ Answer = Nothing /\ ~progress.interrupted /\ progress.tools
        /\ text # <<>> /\ ~Internal(text)
        /\ IF fault THEN Fails(Shown(v, id, text)) ELSE AnswerStored(Shown(v, id, text), id, text)
        /\ UNCHANGED <<candidate, stream, progress, outputs, written>>

\* The context was cancelled, there is no answer and no tool result to make one
\* from, or the finalizer failed.
FinishFails ==
    /\ pc = "finish"
    /\ Fails(Reset(view, candidate.id))
    /\ UNCHANGED <<candidate, stream, progress, outputs, written>>

-----------------------------------------------------------------------------
Next ==
    \/ StreamBegins \/ OtherChunk \/ StreamRetries \/ StreamBreaks
    \/ \E text \in Texts(MaxChunk) : Chunk(text)
    \/ \E fault \in {"none", "progress", "reasoning"} : StreamEnds(fault)
    \/ \E text \in Texts(MaxText), calls, fault \in BOOLEAN : WholeMessage(text, calls, fault)
    \/ \E fault \in BOOLEAN : ToolResult(fault) \/ FinishWithAnswer(fault)
    \/ \E how \in {"failed", "steered"} : LoopBreaks(how)
    \/ Interrupted \/ LoopEnds \/ FinishInterrupted \/ FinishFails
    \/ \E text \in Texts(1), fault \in BOOLEAN : FinishWithFinalizer(text, fault)

Spec == Init /\ [][Next]_vars

-----------------------------------------------------------------------------
(* Properties. *)

States == {"none", "open", "progress", "completed"}

TypeOK ==
    /\ pc \in {"loop", "stream", "finish", "over"}
    /\ view \in [Ids -> [text : Seq(Letters), state : States]]
    /\ rows \in Seq([id : Ids, role : {"assistant", "assistant_progress"}, text : Seq(Letters)])
    /\ candidate \in [text : Seq(Letters), id : Ids]
    /\ stream \in [id : Ids, raw : Seq(Letters), pending : Seq(Letters), blocked : BOOLEAN,
                   calls : BOOLEAN, reasoned : BOOLEAN]
    /\ progress \in [activity : BOOLEAN, tools : BOOLEAN, interrupted : BOOLEAN]
    /\ outcome \in {"running", "answered", "failed", "steered"}
    /\ (pc = "over") = (outcome # "running")
    /\ outputs \in 0..MaxOutputs /\ written \in 0..MaxText

Settled(id) == view[id].state \in {"progress", "completed"}

\* What a client was shown for good is what the next reader of the session
\* finds, word for word and in the same order; once the turn is over, however
\* it ended, nothing else is left on the screen (QueryWithAttachments).
ShownIsStored ==
    /\ \A n \in DOMAIN rows :
         view[rows[n].id] = [text |-> rows[n].text,
                             state |-> IF rows[n].role = "assistant" THEN "completed" ELSE "progress"]
    /\ \A id \in Ids : Settled(id) => \E n \in DOMAIN rows : rows[n].id = id
    /\ \A n, k \in DOMAIN rows : n < k => rows[n].id < rows[k].id
    /\ pc = "over" => \A id \in Ids : view[id].state # "open"

\* No client is shown a marker of internal context, in whatever pieces the
\* stream brings it, and none is stored
\* (assistantOutputGuard, containsInternalContextMarker).
NothingInternalIsShown ==
    /\ \A id \in Ids : ~Internal(view[id].text)
    /\ \A n \in DOMAIN rows : ~Internal(rows[n].text)

\* A turn that reports an answer has stored one, the last of its messages, and
\* one that does not has stored none.
AnsweredMeansAnswer ==
    pc = "over" =>
        LET answers == {n \in DOMAIN rows : rows[n].role = "assistant"}
        IN  IF outcome = "answered" /\ ~progress.interrupted THEN answers = {Len(rows)}
            ELSE outcome # "answered" => answers = {}

-----------------------------------------------------------------------------
(* The inductive invariant. *)

\* What is shown of a stream is what has come of it but for what is held back, no marker
\* has come, and none has begun in what is shown; or one has, and nothing more is shown.
StreamInv ==
    LET shown == view[stream.id].text
    IN  IF pc # "stream" THEN stream = NoStream
        ELSE /\ stream.id = outputs /\ outputs > 0 /\ candidate = Nothing
             /\ view[stream.id].state \in {"none", "open"}
             /\ IF stream.blocked THEN stream.pending = <<>> /\ Internal(stream.raw)
                ELSE /\ stream.raw = shown \o stream.pending
                     /\ Starts(stream.raw) = {} /\ \A n \in MaybeMarker(stream.raw) : n > Len(shown)

\* The candidate is shown as it is, after everything that is stored.
CandidateInv ==
    /\ (candidate.id = NoId) = (candidate.text = <<>>)
    /\ pc \in {"loop", "finish"} /\ candidate # Nothing =>
         /\ candidate.id <= outputs /\ \A n \in DOMAIN rows : rows[n].id < candidate.id
         /\ ~Internal(candidate.text) => view[candidate.id] = [text |-> candidate.text, state |-> "open"]

\* What is open is the stream or the candidate; what is not begun has no text.
ViewInv ==
    /\ \A id \in Ids : view[id].state = "open" => id = IF pc = "stream" THEN stream.id ELSE candidate.id
    /\ \A id \in Ids : (view[id].state = "none") = (view[id].text = <<>>)
    /\ view[NoId] = Absent
    /\ pc # "over" => \A id \in Ids : id > outputs => view[id] = Absent

\* Only the last row may be an answer, and is one when the turn reports it.
RowsInv ==
    /\ \A n \in DOMAIN rows : rows[n].role = "assistant" => n = Len(rows) /\ outcome = "answered"
    /\ outcome = "answered" /\ ~progress.interrupted =>
         rows # <<>> /\ rows[Len(rows)].role = "assistant"

IInv ==
    /\ TypeOK /\ ShownIsStored /\ NothingInternalIsShown
    /\ StreamInv /\ CandidateInv /\ ViewInv /\ RowsInv
=============================================================================
