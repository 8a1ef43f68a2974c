---------------------------- MODULE ShellJournal ----------------------------
(***************************************************************************)
(* The journal of one interactive shell.  Output, input and status events  *)
(* get consecutive numbers under eventMu, wait in persistEvents and are    *)
(* stored in batches; a web terminal follows them by a subscription, the   *)
(* agent by pages after its cursor; ResizeSSHShell writes the whole row.   *)
(* An event is its number, log its kind.  A write may fail (MaxFailures).  *)
(***************************************************************************)
EXTENDS Integers, Sequences, SequencesExt, FiniteSetsExt

CONSTANTS
    MaxEvents, MaxFailures,       \* bounds of the model
    Batch, Backlog, ChannelSize,  \* maxSSHShellPersistBatch, -Backlog, the channel of a subscriber
    PageSize                      \* max_output_bytes of the agent, in events

VARIABLES
    log,        \* kinds of the events numbered so far
    queue,      \* persistEvents
    stored,     \* ssh_shell_events
    last,       \* last_sequence of the row
    timer,      \* persistTimer is set
    stopped,    \* a reader stopped the timer and its flush failed
    failures,
    worker,     \* "running", "aborted", "final", "record", "ended"
    resize,     \* last_sequence in the copy of the row of a resize, or -1
    web,        \* the web terminal
    agent,      \* the agent's ssh_shell calls
    reader      \* which of the two reads in this behaviour

journal == <<log, queue, stored, last, timer, stopped, failures>>
vars == <<journal, worker, resize, web, agent, reader>>

Kinds == {"out", "input", "agent", "status"}
Sequence == Len(log)
Init ==
    /\ log = <<>> /\ queue = <<>> /\ stored = <<>> /\ last = 0 /\ timer = FALSE /\ stopped = FALSE
    /\ failures = 0 /\ worker = "running" /\ resize = -1
    /\ web = [pc |-> "off", after |-> 0, channel |-> <<>>, overflow |-> FALSE, got |-> {}]
    /\ agent = [pc |-> "idle", after |-> 0, cursor |-> 0, skipped |-> 0, got |-> {}]
    /\ reader \in {"web", "agent"}

-----------------------------------------------------------------------------
(* flushSSHShellEventsLocked, for the queue q *)

Stored(q) ==
    /\ stored' = stored \o q /\ queue' = <<>>
    /\ last' = IF q = <<>> THEN last ELSE Last(q)
    /\ timer' = FALSE /\ stopped' = FALSE
    /\ UNCHANGED failures

\* Mutant: a failed write drops what it should have written.
StoreFailsEmpty(q, again) ==
    /\ q # <<>> /\ failures < MaxFailures /\ failures' = failures + 1
    /\ queue' = <<>> /\ timer' = FALSE /\ stopped' = FALSE
    /\ UNCHANGED <<stored, last>>

\* The caller sets the timer again, unless it is a reader.
StoreFails(q, again) ==
    /\ q # <<>> /\ failures < MaxFailures /\ failures' = failures + 1
    /\ queue' = q /\ timer' = again /\ stopped' = ~again
    /\ UNCHANGED <<stored, last>>

Aborts(q) == Len(q) > Backlog
Live == worker \in {"running", "aborted"}

\* Mutant: the subscription starts when the snapshot was sent.
PublishLate(n) ==
    web' = IF web.pc # "live" THEN web
           ELSE IF Len(web.channel) < ChannelSize THEN [web EXCEPT !.channel = Append(@, n)]
           ELSE [web EXCEPT !.overflow = TRUE]

\* publishSSHShellEvents: a full channel closes overflow and loses the event.
Subscribed == web.pc \in {"flush", "row", "list", "live"}
Publish(n) ==
    web' = IF ~Subscribed THEN web
           ELSE IF Len(web.channel) < ChannelSize THEN [web EXCEPT !.channel = Append(@, n)]
           ELSE [web EXCEPT !.overflow = TRUE]

-----------------------------------------------------------------------------
(* appendSSHShellOutput, queueSSHShellOutputEventsLocked *)

\* Published before it is stored; a full batch is stored at once.
Output ==
    LET n == Sequence + 1
        q == Append(queue, n) IN
    /\ Live /\ Sequence < MaxEvents
    /\ log' = Append(log, "out") /\ Publish(n)
    /\ worker' = IF Aborts(q) THEN "aborted" ELSE worker
    /\ IF Aborts(q) \/ Len(q) < Batch
       THEN /\ queue' = q /\ timer' = (timer \/ ~Aborts(q))
            /\ stopped' = (stopped /\ ~timer') /\ UNCHANGED <<stored, last, failures>>
       ELSE Stored(q) \/ StoreFails(q, TRUE)
    /\ UNCHANGED <<resize, agent>>

\* appendSSHShellEventValuesLocked: stored at once, and published only then.
Record(kind) ==
    LET n == Sequence + 1
        q == Append(queue, n) IN
    /\ log' = Append(log, kind)
    /\ \/ Stored(q) /\ Publish(n) /\ UNCHANGED worker
       \/ /\ StoreFails(q, TRUE) /\ UNCHANGED web
          /\ worker' = IF Live /\ Aborts(q) THEN "aborted" ELSE worker

OperatorInput ==
    /\ worker = "running" /\ Sequence < MaxEvents
    /\ Record("input") /\ UNCHANGED <<resize, agent>>

\* Mutant: a failed write of the timer does not set it again.
TimerGivesUp ==
    /\ timer
    /\ \/ Stored(queue)
       \/ /\ failures < MaxFailures /\ failures' = failures + 1 /\ timer' = FALSE
          /\ UNCHANGED <<queue, stored, last, stopped>>
    /\ UNCHANGED <<log, worker, resize, web, agent>>

TimerFires ==
    /\ timer
    /\ Stored(queue) \/ StoreFails(queue, TRUE)
    /\ UNCHANGED <<log, worker, resize, web, agent>>

-----------------------------------------------------------------------------
(* runSSHShell *)

SessionEnds ==
    /\ Live /\ worker' = "final"
    /\ UNCHANGED <<journal, resize, web, agent>>

\* One more event than MaxEvents: the final status.
FinalStatus ==
    /\ worker = "final" /\ log' = Append(log, "status")
    /\ LET q == Append(queue, Sequence + 1) IN
       \/ Stored(q) /\ Publish(Sequence + 1)
       \/ StoreFails(q, TRUE) /\ UNCHANGED web
    /\ worker' = "record" /\ UNCHANGED <<resize, agent>>

RecordEnd ==
    /\ worker = "record" /\ worker' = "ended" /\ last' = Sequence
    /\ UNCHANGED <<log, queue, stored, timer, stopped, failures, resize, web, agent>>

\* ResizeSSHShell
CopyForResize ==
    /\ worker = "running" /\ resize = -1 /\ resize' = Sequence
    /\ UNCHANGED <<journal, worker, web, agent>>

WriteResized ==
    /\ resize # -1 /\ last' = resize /\ resize' = -1
    /\ UNCHANGED <<log, queue, stored, timer, stopped, failures, worker, web, agent>>

-----------------------------------------------------------------------------
(* getSSHShellSnapshotPage: flush, read the row, list the events *)

\* flushLiveSSHShellEvents finds no shell any more once it ended.
ReaderFlush ==
    \/ worker # "ended" /\ Stored(queue)
    \/ worker = "ended" /\ UNCHANGED <<queue, stored, last, timer, stopped, failures>>
ReaderFlushFails == worker # "ended" /\ StoreFails(queue, FALSE)

\* The rows after n, which are in the order of their numbers.
After(n) ==
    LET first == Min({i \in 1 .. Len(stored) + 1 : i <= Len(stored) => stored[i] > n}) IN
    SubSeq(stored, first, Len(stored))
Reader == UNCHANGED <<journal, worker, resize>>

\* serveSSHShellWebSocket: the client names the last event it saw.
Connect ==
    /\ reader = "web" /\ web.pc = "off" /\ worker # "ended"
    /\ web' = [web EXCEPT !.pc = "flush", !.channel = <<>>, !.overflow = FALSE]
    /\ Reader /\ UNCHANGED agent

WebFlush ==
    /\ web.pc = "flush"
    /\ \/ ReaderFlush /\ web' = [web EXCEPT !.pc = "row"]
       \/ ReaderFlushFails /\ web' = [web EXCEPT !.pc = "off"]
    /\ UNCHANGED <<log, worker, resize, agent>>

\* after_sequence must not exceed last_sequence.
WebRow ==
    /\ web.pc = "row"
    /\ web' = [web EXCEPT !.pc = IF web.after > last THEN "off" ELSE "list"]
    /\ Reader /\ UNCHANGED agent

Send(events, pc) ==
    [web EXCEPT !.pc = pc, !.got = @ \cup ToSet(events),
                !.after = IF events = <<>> THEN @ ELSE Last(events)]

WebList ==
    /\ web.pc = "list" /\ web' = Send(After(web.after), IF worker = "ended" THEN "over" ELSE "live")
    /\ Reader /\ UNCHANGED agent

\* select takes one of the ready cases at random; that it takes ChannelSize (256)
\* events in a row while overflow is closed is left out.
WebReceive ==
    /\ web.pc = "live" /\ web.channel # <<>> /\ ~web.overflow
    /\ LET n == Head(web.channel)
           sent == IF n <= web.after THEN web
                   ELSE Send(<<n>>, IF log[n] = "status" THEN "over" ELSE "live") IN
       web' = [sent EXCEPT !.channel = Tail(@)]
    /\ Reader /\ UNCHANGED agent

\* The channel overflowed, or the client went away; it may come back.
Disconnect ==
    /\ web.pc = "live" /\ web' = [web EXCEPT !.pc = "off", !.channel = <<>>]
    /\ Reader /\ UNCHANGED agent

-----------------------------------------------------------------------------
(* WriteSSHShellPage, QuerySSHShellOutput *)

\* What came before its own input the agent does not ask for again.
AgentInput ==
    /\ reader = "agent" /\ worker = "running" /\ agent.pc = "idle" /\ Sequence < MaxEvents
    /\ Record("agent")
    /\ agent' = [agent EXCEPT !.pc = "flush", !.after = Sequence, !.skipped = Sequence]
    /\ UNCHANGED resize

LastAgentInput == Max({0} \cup {n \in ToSet(stored) : log[n] = "agent"})

AgentQuery ==
    /\ reader = "agent" /\ agent.pc = "idle" /\ Sequence > 0
    /\ agent' = [agent EXCEPT !.pc = "flush", !.after = Max({LastAgentInput, agent.cursor})]
    /\ Reader /\ UNCHANGED web

AgentFlush ==
    /\ agent.pc = "flush"
    /\ \/ ReaderFlush /\ agent' = [agent EXCEPT !.pc = "row"]
       \/ ReaderFlushFails /\ agent' = [agent EXCEPT !.pc = "idle"]
    /\ UNCHANGED <<log, worker, resize, web>>

AgentRow ==
    /\ agent.pc = "row"
    /\ agent' = [agent EXCEPT !.pc = IF agent.after > last THEN "idle" ELSE "list"]
    /\ Reader /\ UNCHANGED web

\* Mutant: the next page starts after the last event of the shell.
NextAfterRow(page) == last

\* With a limit the next page starts where this one ended.
NextSequence(page) == IF page = <<>> THEN agent.after ELSE Last(page)

\* The list, and markSSHShellResponseRead.
AgentPage ==
    LET rest == After(agent.after)
        page == SubSeq(rest, 1, Min({PageSize, Len(rest)})) IN
    /\ agent.pc = "list"
    /\ agent' = [agent EXCEPT !.pc = "idle", !.got = @ \cup ToSet(page),
                              !.cursor = Max({@, NextSequence(page)})]
    /\ Reader /\ UNCHANGED web

-----------------------------------------------------------------------------
Write == Output \/ OperatorInput \/ CopyForResize
Web == WebFlush \/ WebRow \/ WebList \/ WebReceive
Agent == AgentFlush \/ AgentRow \/ AgentPage
Work == FinalStatus \/ RecordEnd \/ WriteResized
Step ==
    \/ Write \/ TimerFires \/ SessionEnds \/ Work
    \/ Connect \/ Web \/ Disconnect \/ AgentInput \/ AgentQuery \/ Agent
Next == Step /\ UNCHANGED reader

\* A timer that is set fires.
Fair ==
    WF_vars(TimerFires /\ UNCHANGED reader)
Spec == Init /\ [][Next]_vars
FairSpec == Spec /\ Fair

-----------------------------------------------------------------------------
(* Properties *)

\* The two readers, of a journal of n events.
WebReader(n) ==
    [pc : {"off", "flush", "row", "list", "live", "over"}, after : 0 .. n,
     channel : Seq(1 .. n), overflow : BOOLEAN, got : SUBSET (1 .. n)]
AgentReader(n) ==
    [pc : {"idle", "flush", "row", "list"}, after : 0 .. n, cursor : 0 .. n, skipped : 0 .. n,
     got : SUBSET (1 .. n)]

TypeOK ==
    /\ log \in Seq(Kinds) /\ queue \in Seq(Nat) /\ stored \in Seq(Nat) /\ last \in 0 .. MaxEvents + 1
    /\ timer \in BOOLEAN /\ stopped \in BOOLEAN /\ failures \in 0 .. MaxFailures
    /\ worker \in {"running", "aborted", "final", "record", "ended"} /\ resize \in -1 .. MaxEvents
    /\ web \in WebReader(Sequence) /\ agent \in AgentReader(Sequence)
    /\ reader \in {"web", "agent"}

\* However batches, timers, failed writes and the flushes of readers interleave,
\* the stored events are the first ones in their order and the others wait.
NoEventLost == stored \o queue = [n \in 1 .. Sequence |-> n]

Outputs(from, to) == {n \in from .. to : log[n] = "out"}

\* Snapshot, live events, overflow and reconnects leave no gap in the output a web
\* terminal has shown.
TerminalHasNoGap == Outputs(1, web.after) \subseteq web.got

\* The agent's cursor passes no output that came after its last input and that no
\* page showed it.
AgentMissesNothing == Outputs(agent.skipped + 1, agent.cursor) \subseteq agent.got

\* Events that wait are stored in the end, also those of a shell that ended, unless
\* a reader whose own flush failed stopped the timer.
QueueIsStored == []<>(queue = <<>> \/ stopped)

\* A web terminal that resumes after the last event it saw is served.
ResumeIsServed == web.pc = "row" => web.after <= last

-----------------------------------------------------------------------------
(* The inductive invariant of the proofs *)

\* What is stored and what waits are the first n numbers, in order.
Numbered(rows, waiting, n) ==
    /\ Len(rows) + Len(waiting) = n
    /\ \A i \in 1 .. Len(rows) : rows[i] = i
    /\ \A i \in 1 .. Len(waiting) : waiting[i] = Len(rows) + i

OrderInv == Numbered(stored, queue, Sequence)

CountInv ==
    /\ Sequence <= MaxEvents + 1
    /\ worker \in {"running", "aborted", "final"} => Sequence <= MaxEvents

\* An output after n is in the channel of the subscriber.
Follows(n) == \A e \in 1 .. Sequence : e > n /\ log[e] = "out" => e \in ToSet(web.channel)

\* A subscriber that lost nothing has in its channel, in order, the output that the list
\* will not give it or did not give it.
WebInv ==
    /\ \A i, j \in 1 .. Len(web.channel) : i < j => web.channel[i] < web.channel[j]
    /\ web.pc \in {"row", "list"} /\ worker # "ended" /\ ~web.overflow => Follows(Len(stored))
    /\ web.pc = "live" /\ ~web.overflow => Follows(web.after)
    /\ TerminalHasNoGap

\* The agent's last input follows what it skips, and a page starts where nothing is
\* missed before.
AgentInv ==
    /\ \A e \in 1 .. Sequence : log[e] = "agent" => e <= agent.skipped + 1
    /\ agent.pc # "idle" => Outputs(agent.skipped + 1, agent.after) \subseteq agent.got
    /\ AgentMissesNothing

IInv == TypeOK /\ OrderInv /\ CountInv /\ WebInv /\ AgentInv
=============================================================================
