---------------------------- MODULE ModelContext ----------------------------
(***************************************************************************)
(* What a model is told about a conversation: the transcript rows of one  *)
(* session, the turns rebuilt from them (agent/context.go), the durable    *)
(* summary that replaces the older ones (agent/context_summarization.go),  *)
(* and the pruning of failed turns (store.go).  A row's text is its id: a  *)
(* summary, or a model message, is known by the rows its text stands for.  *)
(* Each row counts one byte against the history budget.  No row is empty,  *)
(* and a long result that is told shortened counts as told.                *)
(***************************************************************************)
EXTENDS Integers, Sequences, FiniteSets, SequencesExt

CONSTANTS
  PreserveTurns,   \* contextCompressionPreserveTurns, 2 in the code
  HistoryBudget,   \* modelHistoryMaxBytes, in rows
  MaxRows          \* bound: rows one behaviour writes

VARIABLES
  rows,      \* chat_messages of the session, in rowid order
  written,   \* rows ever written, the source of ids
  summary,   \* chat_context_summaries: text, and the row it goes through
  run,       \* the run of this session, if any
  dropped    \* rows a summary went past though no budget had room for them

vars == <<rows, written, summary, run, dropped>>

NoRow == 0
NoSummary == [text |-> {}, through |-> NoRow]
Idle == [on |-> FALSE, user |-> NoRow, boundary |-> NoRow,
         compressed |-> FALSE, messages |-> <<>>]

Ids(seq) == {seq[i].id : i \in DOMAIN seq}

\* The places of the user messages, in order.
Users(seq) == SelectSeq([i \in DOMAIN seq |-> i], LAMBDA i : seq[i].role = "user")

-----------------------------------------------------------------------------
(* Stored turns. *)

\* Rows a run reads: a pending user message is not part of the history.
Listed == SelectSeq(rows, LAMBDA r : r.status # "pending")

\* groupStoredModelTurns: a turn is a user row and the rows up to the next;
\* rows before the first user row belong to nothing.
Turns(history) ==
  LET users == Users(history)
      End(k) == IF k = Len(users) THEN Len(history) ELSE users[k + 1] - 1
  IN [k \in DOMAIN users |->
        [user |-> history[users[k]],
         outputs |-> SubSeq(history, users[k] + 1, End(k))]]

\* Whether a stored turn has something the operator saw of it.
Visible(turn) == \E i \in DOMAIN turn.outputs :
                    turn.outputs[i].role \in {"text", "tool"}

\* PruneChatTurnsExcludedFromContext deletes failed turns that show nothing.
Excluded(history) ==
  LET turns == Turns(history)
      gone == {k \in DOMAIN turns : turns[k].user.status = "failed"
                                      /\ ~Visible(turns[k])}
  IN UNION {{turns[k].user.id} \cup Ids(turns[k].outputs) : k \in gone}

\* Its transaction is refused by the foreign key of the summary's boundary.
PruneRefused(history) == summary.through \in Excluded(history)
Pruned(history) ==
  LET excluded == Excluded(history)
  IN SelectSeq(history, LAMBDA r : r.id \notin excluded)

-----------------------------------------------------------------------------
(* Model messages of a turn (prepareModelTurn). *)

Message(role, of, calls) == [role |-> role, of |-> of, calls |-> calls]

\* appendAssistant and flushTools: what was said so far becomes one assistant
\* message, with the waiting tool results as its calls, and they follow it.
Flush(acc) ==
  [out |-> acc.out \o <<Message("assistant", acc.said, Ids(acc.batch))>>
             \o [i \in DOMAIN acc.batch |-> Message("tool", {acc.batch[i].id}, {})],
   said |-> {}, batch |-> <<>>]

Step(acc, row) ==
  IF row.role = "tool"
    THEN [acc EXCEPT !.batch = Append(@, row)]
    ELSE LET done == IF acc.batch = <<>> THEN acc ELSE Flush(acc)
         IN [done EXCEPT !.said = @ \cup {row.id}]

\* Mutant of TurnMessages: tool results at the end of a turn are not flushed.
TurnMessagesUnflushed(turn) ==
  LET acc == FoldLeft(Step, [out |-> <<>>, said |-> {}, batch |-> <<>>], turn.outputs)
  IN <<Message("user", {turn.user.id}, {})>> \o acc.out \o
       [i \in DOMAIN acc.batch |-> Message("tool", {acc.batch[i].id}, {})]

TurnMessages(turn) ==
  LET acc == FoldLeft(Step, [out |-> <<>>, said |-> {}, batch |-> <<>>], turn.outputs)
      done == IF acc.batch = <<>> /\ acc.said = {} THEN acc ELSE Flush(acc)
  IN <<Message("user", {turn.user.id}, {})>>
       \o (IF done.out = <<>> THEN <<Message("assistant", {}, {})>> ELSE done.out)

-----------------------------------------------------------------------------
(* buildMultimodalModelContextWithSummaryForProvider. *)

\* A summary whose boundary is not in the history is ignored.
Applies(history) == summary.through \in Ids(history)
Rest(history) ==
  IF Applies(history)
    THEN SelectSeq(history, LAMBDA r : r.id > summary.through)
    ELSE history

Prepared(history) ==
  SelectSeq(Turns(Rest(history)),
            LAMBDA t : ~(t.user.status = "failed" /\ t.outputs = <<>>))

Bytes(turns) == FoldLeft(LAMBDA n, t : n + 1 + Len(t.outputs), 0, turns)

\* Mutant of SelectedFrom: a turn that just fits is left out.
SelectedBelow(turns) ==
  CHOOSE k \in 1..(Len(turns) + 1) :
    /\ Bytes(SubSeq(turns, k, Len(turns))) <= HistoryBudget - 1
    /\ k > 1 => Bytes(SubSeq(turns, k - 1, Len(turns))) > HistoryBudget - 1

\* The most recent turns that fit the budget together.
SelectedFrom(turns) ==
  CHOOSE k \in 1..(Len(turns) + 1) :
    /\ Bytes(SubSeq(turns, k, Len(turns))) <= HistoryBudget
    /\ k > 1 => Bytes(SubSeq(turns, k - 1, Len(turns))) > HistoryBudget
Selected(history) ==
  LET turns == Prepared(history)
  IN SubSeq(turns, SelectedFrom(turns), Len(turns))

LastRow(turn) == IF turn.outputs = <<>> THEN turn.user.id
                 ELSE turn.outputs[Len(turn.outputs)].id

\* The last row of the turn before the preserved ones.
CompressionBoundary(history) ==
  LET chosen == Selected(history)
  IN IF Len(chosen) > PreserveTurns
       THEN LastRow(chosen[Len(chosen) - PreserveTurns]) ELSE NoRow

\* The messages of the history: the summary, then the selected turns.
HistoryMessages(history) ==
  LET chosen == Selected(history)
  IN (IF Applies(history) THEN <<Message("summary", summary.text, {})>> ELSE <<>>)
       \o FlattenSeq([k \in DOMAIN chosen |-> TurnMessages(chosen[k])])

\* Rows that are due to be told but do not fit (modelHistoryMaxBytes).
Cut(history) ==
  LET turns == Prepared(history)
      older == SubSeq(turns, 1, SelectedFrom(turns) - 1)
  IN UNION {{older[k].user.id} \cup Ids(older[k].outputs) : k \in DOMAIN older}

-----------------------------------------------------------------------------
(* Compression. *)

\* Mutant of Retained: the request counts among the preserved turns.
RetainedAlways(hasCurrent) == PreserveTurns

Retained(hasCurrent) == IF hasCurrent THEN PreserveTurns + 1 ELSE PreserveTurns

\* splitContextForSummary: the instruction, what is summarized, what stays.
SuffixStart(messages, hasCurrent) ==
  LET users == Users(messages)
  IN IF Len(users) <= Retained(hasCurrent) THEN 0
     ELSE users[Len(users) - Retained(hasCurrent) + 1]
Splits(messages, hasCurrent) == SuffixStart(messages, hasCurrent) > 2
Source(messages, hasCurrent) == SubSeq(messages, 2, SuffixStart(messages, hasCurrent) - 1)
Suffix(messages, hasCurrent) ==
  SubSeq(messages, SuffixStart(messages, hasCurrent), Len(messages))

Said(messages) == UNION {messages[i].of : i \in DOMAIN messages}

\* finalizeContextSummary and persistSummary.
SaveSummary(messages, hasCurrent, boundary) ==
  /\ summary' = [text |-> Said(Source(messages, hasCurrent)), through |-> boundary]
  /\ dropped' = dropped \cup {id \in Cut(Listed) : id <= boundary}

Instruction == Message("system", {}, {})

-----------------------------------------------------------------------------
(* Operations. *)

TypeOK ==
  /\ \A i \in DOMAIN rows :
       /\ rows[i].id \in 1..written
       /\ rows[i].role \in {"user", "text", "reasoning", "tool"}
       /\ rows[i].status \in {"pending", "completed", "failed"}
       /\ i > 1 => rows[i - 1].id < rows[i].id
  /\ written \in 0..MaxRows
  /\ summary.text \subseteq 1..written /\ summary.through \in 0..written
  /\ run.user \in 0..written /\ run.on = (run.user # NoRow)
  /\ dropped \subseteq 1..written

Init ==
  /\ rows = <<>> /\ written = 0
  /\ summary = NoSummary
  /\ run = Idle
  /\ dropped = {}

NewRow(role, status) == [id |-> written + 1, role |-> role, status |-> status]

\* QueryWithAttachments: prune, read, build, and only then write the request.
\* Control-plane contexts go before the request, or into it.
StartTurn(contexts) ==
  /\ ~run.on /\ written < MaxRows
  /\ ~PruneRefused(rows)
  /\ LET history == SelectSeq(Pruned(rows), LAMBDA r : r.status # "pending")
     IN /\ rows' = Append(Pruned(rows), NewRow("user", "pending"))
        /\ run' = [on |-> TRUE, user |-> written + 1,
                   boundary |-> CompressionBoundary(history), compressed |-> FALSE,
                   messages |-> <<Instruction>> \o HistoryMessages(history)
                     \o contexts \o <<Message("user", {written + 1}, {})>>]
  /\ written' = written + 1
  /\ UNCHANGED <<summary, dropped>>

\* The run stores what the model said or thought.
Say(role) ==
  /\ run.on /\ written < MaxRows
  /\ rows' = Append(rows, NewRow(role, "completed"))
  /\ written' = written + 1
  /\ run' = [run EXCEPT !.messages =
                 Append(@, Message("assistant", {written + 1}, {}))]
  /\ UNCHANGED <<summary, dropped>>

\* The run stores a tool's result, which answers a call of the model.
CallTool ==
  /\ run.on /\ written < MaxRows
  /\ rows' = Append(rows, NewRow("tool", "completed"))
  /\ written' = written + 1
  /\ run' = [run EXCEPT !.messages =
                 @ \o <<Message("assistant", {}, {written + 1}),
                        Message("tool", {written + 1}, {})>>]
  /\ UNCHANGED <<summary, dropped>>

\* BeforeModelRewriteState over its threshold: at most once a run.
AutoCompress ==
  /\ run.on /\ run.boundary # NoRow /\ ~run.compressed
  /\ Splits(run.messages, TRUE)
  /\ SaveSummary(run.messages, TRUE, run.boundary)
  /\ run' = [run EXCEPT !.compressed = TRUE,
       !.messages = <<Instruction, Message("summary", summary'.text, {})>>
                      \o Suffix(run.messages, TRUE)]
  /\ UNCHANGED <<rows, written>>

\* The summary could not be made or saved: the run goes on without it.
AutoCompressFails ==
  /\ run.on /\ run.boundary # NoRow /\ ~run.compressed
  /\ run' = [run EXCEPT !.compressed = TRUE]
  /\ UNCHANGED <<rows, written, summary, dropped>>

\* CompressContext: a request of the operator, between runs.
ManualCompress ==
  LET messages == <<Instruction>> \o HistoryMessages(Listed)
      boundary == CompressionBoundary(Listed)
  IN /\ ~run.on /\ boundary # NoRow
     /\ Splits(messages, FALSE)
     /\ SaveSummary(messages, FALSE, boundary)
     /\ UNCHANGED <<rows, written, run>>

WithStatus(id, status) ==
  [i \in DOMAIN rows |-> IF rows[i].id = id THEN [rows[i] EXCEPT !.status = status]
                         ELSE rows[i]]

\* The run ended well, or was steered.
Complete ==
  /\ run.on
  /\ rows' = WithStatus(run.user, "completed")
  /\ run' = Idle
  /\ UNCHANGED <<written, summary, dropped>>

\* The run failed or was stopped: its turn is pruned when it shows nothing.
Fail ==
  /\ run.on
  /\ LET failed == WithStatus(run.user, "failed")
     IN rows' = IF PruneRefused(failed) THEN failed ELSE Pruned(failed)
  /\ run' = Idle
  /\ UNCHANGED <<written, summary, dropped>>

\* Mutant of FailPending: the request of every turn fails.
FailEvery == [i \in DOMAIN rows |->
  IF rows[i].role = "user" THEN [rows[i] EXCEPT !.status = "failed"] ELSE rows[i]]

\* FailPendingChatMessages.
FailPending == [i \in DOMAIN rows |->
  IF rows[i].status = "pending" THEN [rows[i] EXCEPT !.status = "failed"] ELSE rows[i]]

\* RecoverInterruptedTasks: pending requests failed, then every session is pruned.
Restart ==
  /\ run.on
  /\ rows' = IF PruneRefused(FailPending) THEN FailPending ELSE Pruned(FailPending)
  /\ run' = Idle
  /\ UNCHANGED <<written, summary, dropped>>

Next ==
  \/ \E contexts \in {<<>>, <<Instruction>>} : StartTurn(contexts)
  \/ \E role \in {"text", "reasoning"} : Say(role)
  \/ CallTool
  \/ AutoCompress
  \/ AutoCompressFails
  \/ ManualCompress
  \/ Complete
  \/ Fail
  \/ Restart

Spec == Init /\ [][Next]_vars

-----------------------------------------------------------------------------
(* Properties. *)

\* A summary and the transcript meet at the boundary without a gap and
\* without an overlap: what it goes through is in its text, unless the budget
\* had no room for it, and nothing after the boundary is.
SummaryMeetsTranscript ==
  /\ \A i \in DOMAIN rows : rows[i].id <= summary.through =>
       rows[i].id \in summary.text \cup dropped
  /\ \A id \in summary.text : id <= summary.through

\* The row a summary goes through stays stored: pruning, of a turn that fails
\* or of a restart, never reaches it, and is never refused because of it.
BoundaryStays ==
  /\ summary.through \in {NoRow} \cup Ids(rows)
  /\ ~PruneRefused(rows) /\ ~PruneRefused(FailPending)

\* In the messages of a run every tool result follows the assistant message
\* that called it, and every call has its result.
Paired(messages) ==
  /\ \A i \in DOMAIN messages : messages[i].role = "tool" =>
       \E j \in 1..(i - 1) :
         /\ messages[i].of \subseteq messages[j].calls
         /\ \A k \in (j + 1)..i : messages[k].role = "tool"
  /\ \A j \in DOMAIN messages : \A id \in messages[j].calls :
       \E i \in (j + 1)..Len(messages) :
         messages[i].role = "tool" /\ messages[i].of = {id}

\* A run is told its own request and, once, each row of the turns it is told,
\* however often the history was compressed.
ToldOnce(messages) ==
  /\ run.user \in Said(messages)
  /\ \A i, j \in DOMAIN messages :
       i # j => messages[i].of \cap messages[j].of = {}

\* The rows of the history after the summary, from the turn of a row on.
SinceTurnOf(id) ==
  {i \in DOMAIN rows :
     /\ rows[i].id > summary.through /\ rows[i].id < run.user
     /\ \A j \in i + 1..Len(rows) : rows[j].role = "user" => rows[j].id > id}

\* A run is told every row stored before it, in a turn of its own or in the
\* summary, but for what its turn and the ones after it have no room for
\* together, and what had none when an earlier summary went past it.
ToldAll(messages) ==
  \A i \in DOMAIN rows : rows[i].id < run.user =>
    \/ rows[i].id \in Said(messages) \cup dropped
    \/ Cardinality(SinceTurnOf(rows[i].id)) > HistoryBudget

RunsAreToldAll == run.on => /\ Paired(run.messages) /\ ToldOnce(run.messages)
                            /\ ToldAll(run.messages)
=============================================================================
