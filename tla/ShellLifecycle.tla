--------------------------- MODULE ShellLifecycle ---------------------------
(***************************************************************************)
(* Interactive shells: a start counts the shells of the registry, creates  *)
(* the row, opens the session and leaves it to a worker; clients close and *)
(* resize it; the service is shut down or restarted.  The status in memory *)
(* and the row of ssh_shell_sessions are written by all of them, each from *)
(* a copy of the shell it took under the shell's mutex.                    *)
(***************************************************************************)
EXTENDS Integers, FiniteSets

CONSTANTS
    Shells,      \* requests to start one
    Hosts,
    Clients,     \* requests to close or resize one
    MaxActive, MaxPerHost,   \* maxActiveSSHShells, maxActiveSSHShellsPerHost
    None

VARIABLES
    pc,          \* of the start and then of the worker of a shell
    host,
    status,      \* sshShellState.shell.Status
    row,         \* the status in ssh_shell_sessions
    registry,    \* Service.shells
    session,     \* "none", "open" or "over"
    reason,      \* why it is closing
    cancelled,   \* shells whose context is done
    client,      \* per client: its place, its shell and its copy of the status
    closed,      \* executionClosed
    restarted    \* the process was restarted (once)

shell == <<host, status, registry, session, reason>>
vars == <<pc, shell, row, cancelled, client, closed, restarted>>

Active == {"starting", "running", "stopping"}
Init ==
    /\ pc = [s \in Shells |-> "idle"] /\ host = [s \in Shells |-> None]
    /\ status = [s \in Shells |-> "none"] /\ row = [s \in Shells |-> "none"]
    /\ registry = {} /\ session = [s \in Shells |-> "none"]
    /\ reason = [s \in Shells |-> "none"] /\ cancelled = {}
    /\ client = [c \in Clients |-> [pc |-> "idle", s |-> None, copy |-> "none"]]
    /\ closed = FALSE /\ restarted = FALSE

Goto(s, from, to) == pc[s] = from /\ pc' = [pc EXCEPT ![s] = to]
Done(s) == s \in cancelled \/ closed
Counted == {s \in registry : status[s] \in Active}
Rest == <<client, closed, restarted>>

-----------------------------------------------------------------------------
(* openInteractiveShell *)

\* Mutant: a shell that is being closed does not count any more.
RoomUnlessStopping(h) ==
    LET counted == {s \in Counted : status[s] # "stopping"} IN
    Cardinality(counted) < MaxActive /\ Cardinality({s \in counted : host[s] = h}) < MaxPerHost

Room(h) ==
    Cardinality(Counted) < MaxActive /\ Cardinality({s \in Counted : host[s] = h}) < MaxPerHost

Reserve(s) ==
    /\ Goto(s, "idle", "create")
    /\ \E h \in Hosts : Room(h) /\ host' = [host EXCEPT ![s] = h]
    /\ status' = [status EXCEPT ![s] = "starting"]
    /\ registry' = registry \cup {s}
    /\ UNCHANGED <<row, session, reason, cancelled, Rest>>

CreateRow(s) ==
    /\ Goto(s, "create", "open")
    /\ row' = [row EXCEPT ![s] = "starting"]
    /\ UNCHANGED <<shell, cancelled, Rest>>

CreateFails(s) ==
    /\ Goto(s, "create", "done")
    /\ registry' = registry \ {s} /\ cancelled' = cancelled \cup {s}
    /\ UNCHANGED <<host, status, row, session, reason, Rest>>

\* executionWG.Add, unless the service is closed, and the opener.
OpenFails(s) ==
    /\ Goto(s, "open", "failing")
    /\ cancelled' = cancelled \cup {s}
    /\ UNCHANGED <<shell, row, Rest>>

Opened(s) ==
    /\ Goto(s, "open", "record") /\ ~Done(s)
    /\ session' = [session EXCEPT ![s] = "open"]
    /\ status' = [status EXCEPT ![s] = "running"]
    /\ UNCHANGED <<host, registry, reason, row, cancelled, Rest>>

RecordRunning(s) ==
    /\ Goto(s, "record", "serve")
    /\ row' = [row EXCEPT ![s] = "running"]
    /\ UNCHANGED <<shell, cancelled, Rest>>

\* Mutant: the session that was opened is left open.
RecordFailsOpen(s) ==
    /\ Goto(s, "record", "failing")
    /\ cancelled' = cancelled \cup {s}
    /\ UNCHANGED <<shell, row, Rest>>

RecordFails(s) ==
    /\ Goto(s, "record", "failing")
    /\ cancelled' = cancelled \cup {s}
    /\ session' = [session EXCEPT ![s] = "over"]
    /\ UNCHANGED <<host, status, registry, reason, row, Rest>>

\* failSSHShellStart
FailStart(s) ==
    /\ Goto(s, "failing", "leave")
    /\ status' = [status EXCEPT ![s] = "failed"]
    /\ UNCHANGED <<host, registry, session, reason, row, cancelled, Rest>>

-----------------------------------------------------------------------------
(* runSSHShell *)

\* The remote side ends the session, or the context is done and it is closed.
\* Mutant: the worker waits for the remote side also when the context is done.
WaitForRemote(s) ==
    /\ Goto(s, "serve", "exited")
    /\ session[s] = "over"
    /\ UNCHANGED <<shell, row, cancelled, Rest>>

SessionEnds(s) ==
    /\ Goto(s, "serve", "exited")
    /\ session[s] = "over" \/ Done(s)
    /\ session' = [session EXCEPT ![s] = "over"]
    /\ UNCHANGED <<host, status, registry, reason, row, cancelled, Rest>>

RemoteExit(s) ==
    /\ session[s] = "open" /\ session' = [session EXCEPT ![s] = "over"]
    /\ UNCHANGED <<pc, host, status, registry, reason, row, cancelled, Rest>>

\* Mutant: the worker does not look at its context.
FinalStatusOfSession(s) ==
    CASE reason[s] = "requested_close" -> {"closed"}
      [] reason[s] = "persistence_failed" -> {"failed"}
      [] OTHER -> {"completed", "failed"}

\* A requested close comes before a failed journal, that before the shutdown of
\* the service, and only then counts how the session itself ended.
FinalStatus(s) ==
    CASE reason[s] = "requested_close" -> {"closed"}
      [] reason[s] = "persistence_failed" -> {"failed"}
      [] reason[s] = "none" /\ Done(s) -> {"interrupted"}
      [] OTHER -> {"completed", "failed"}

Conclude(s) ==
    /\ Goto(s, "exited", "leave")
    /\ \E final \in FinalStatus(s) : status' = [status EXCEPT ![s] = final]
    /\ UNCHANGED <<host, registry, session, reason, row, cancelled, Rest>>

\* The row is written from a second copy of the shell, and nobody looks at errors.
RecordEnd(s) ==
    /\ Goto(s, "leave", "unregister")
    /\ row' = [row EXCEPT ![s] = status[s]]
    /\ cancelled' = cancelled \cup {s}
    /\ UNCHANGED <<shell, Rest>>

Unregister(s) ==
    /\ Goto(s, "unregister", "done")
    /\ registry' = registry \ {s}
    /\ UNCHANGED <<host, status, session, reason, row, cancelled, Rest>>

\* abortSSHShellPersistence: the journal cannot keep up.
AbortPersistence(s) ==
    /\ s \in registry /\ pc[s] \in {"open", "record", "serve", "exited"}
    /\ reason[s] = "none" /\ status[s] \in Active
    /\ reason' = [reason EXCEPT ![s] = "persistence_failed"]
    /\ status' = [status EXCEPT ![s] = "stopping"]
    /\ cancelled' = cancelled \cup {s}
    /\ session' = [session EXCEPT ![s] = IF @ = "open" THEN "over" ELSE @]
    /\ UNCHANGED <<pc, host, registry, row, Rest>>

-----------------------------------------------------------------------------
(* CloseSSHShell, ResizeSSHShell *)

Live(s) == s \in registry /\ status[s] = "running"
Client(c, from, change) == client[c].pc = from /\ client' = [client EXCEPT ![c] = change]
Process == <<closed, restarted>>

BeginClose(c, s) ==
    /\ Live(s) /\ Client(c, "idle", [pc |-> "close", s |-> s, copy |-> "none"])
    /\ UNCHANGED <<pc, shell, row, cancelled, Process>>

\* liveSSHShell gave up the mutex: the shell may have ended since.
MarkClosing(c) ==
    LET s == client[c].s
        first == reason[s] = "none"
        copy == IF first THEN "stopping" ELSE status[s] IN
    /\ Client(c, "close", [pc |-> "write", s |-> s, copy |-> copy])
    /\ reason' = [reason EXCEPT ![s] = IF first THEN "requested_close" ELSE @]
    /\ status' = [status EXCEPT ![s] = copy]
    /\ UNCHANGED <<pc, host, registry, session, row, cancelled, Process>>

\* The copy is written, and only then is the shell cancelled.
WriteClosing(c) ==
    LET s == client[c].s IN
    /\ Client(c, "write", [pc |-> "cancel", s |-> s, copy |-> "none"])
    /\ row' = [row EXCEPT ![s] = client[c].copy]
    /\ UNCHANGED <<pc, shell, cancelled, Process>>

CancelShell(c) ==
    LET s == client[c].s IN
    /\ Client(c, "cancel", [pc |-> "idle", s |-> None, copy |-> "none"])
    /\ cancelled' = cancelled \cup {s}
    /\ session' = [session EXCEPT ![s] = "over"]
    /\ UNCHANGED <<pc, host, status, registry, reason, row, Process>>

Resize(c, s) ==
    /\ Live(s) /\ session[s] = "open"
    /\ Client(c, "idle", [pc |-> "resized", s |-> s, copy |-> status[s]])
    /\ UNCHANGED <<pc, shell, row, cancelled, Process>>

WriteResized(c) ==
    LET s == client[c].s IN
    /\ Client(c, "resized", [pc |-> "idle", s |-> None, copy |-> "none"])
    /\ row' = [row EXCEPT ![s] = client[c].copy]
    /\ UNCHANGED <<pc, shell, cancelled, Process>>

-----------------------------------------------------------------------------
Shutdown ==
    /\ ~closed /\ closed' = TRUE
    /\ UNCHANGED <<pc, shell, row, cancelled, client, restarted>>

\* Mutant: shells that were just starting are not looked at.
RecoverRunning(r) == IF r \in {"running", "stopping"} THEN "interrupted" ELSE r

\* InterruptActiveSSHShells
Recover(r) == IF r \in Active THEN "interrupted" ELSE r

\* The process dies; another one recovers the rows before it serves anybody.
Restart ==
    /\ ~restarted /\ restarted' = TRUE /\ closed' = FALSE
    /\ row' = [s \in Shells |-> Recover(row[s])]
    /\ pc' = [s \in Shells |-> IF pc[s] = "idle" THEN "idle" ELSE "dead"]
    /\ registry' = {} /\ session' = [s \in Shells |-> IF session[s] = "none" THEN "none" ELSE "over"]
    /\ status' = [s \in Shells |-> "none"] /\ reason' = [s \in Shells |-> "none"]
    /\ cancelled' = {} /\ client' = [c \in Clients |-> [pc |-> "idle", s |-> None, copy |-> "none"]]
    /\ UNCHANGED host

Work(s) ==
    \/ CreateRow(s) \/ CreateFails(s) \/ OpenFails(s) \/ Opened(s) \/ RecordRunning(s) \/ RecordFails(s)
    \/ FailStart(s) \/ SessionEnds(s) \/ Conclude(s) \/ RecordEnd(s) \/ Unregister(s)
Serve(c) == MarkClosing(c) \/ WriteClosing(c) \/ CancelShell(c) \/ WriteResized(c)

Next ==
    \/ \E s \in Shells : Reserve(s) \/ Work(s) \/ RemoteExit(s) \/ AbortPersistence(s)
    \/ \E c \in Clients : Serve(c) \/ \E s \in Shells : BeginClose(c, s) \/ Resize(c, s)
    \/ Shutdown \/ Restart

\* Goroutines go on; a session whose context is done returns from Wait.
Fair ==
    /\ \A s \in Shells : WF_vars(Work(s))
    /\ \A c \in Clients : WF_vars(Serve(c))
Spec == Init /\ [][Next]_vars
FairSpec == Spec /\ Fair

-----------------------------------------------------------------------------
(* Properties *)

Open == {s \in Shells : session[s] = "open"}

\* No more sessions are open than the limits allow, in all and on one host,
\* however starts, ends and closes that hold copies of old states interleave;
\* and none is open that nobody looks after.
LimitsHold ==
    /\ Cardinality(Open) <= MaxActive
    /\ \A h \in Hosts : Cardinality({s \in Open : host[s] = h}) <= MaxPerHost
    /\ Open \subseteq registry

\* A close or a shutdown reaches the shell wherever it is, and it leaves the
\* registry, so that its host and its conversation can be deleted again.
ClosedShellLeaves ==
    \A s \in Shells : []<>(s \in registry => ~Done(s))

\* Recovery leaves no row active for which no process has a shell.
NoRowOfLostShell == \A s \in Shells : pc[s] = "dead" => row[s] \notin Active

\* A shell that nobody asked to close is not reported as ended by itself when the
\* shutdown of the service ended it.
ShutdownIsReported ==
    [][\A s \in Shells : pc[s] = "exited" /\ pc'[s] = "leave" /\ closed /\ reason[s] = "none"
          => status'[s] = "interrupted"]_vars

\* The row of a shell that ended says so, once every close and resize has returned.
EndedRowIsFinal ==
    \A s \in Shells : pc[s] = "done" /\ (\A c \in Clients : client[c].s # s) => row[s] \notin Active

-----------------------------------------------------------------------------
(* The inductive invariant *)

Statuses == Active \cup {"none", "closed", "failed", "interrupted", "completed"}

TypeOK ==
    /\ pc \in [Shells -> {"idle", "create", "open", "record", "serve", "exited", "failing",
                          "leave", "unregister", "done", "dead"}]
    /\ host \in [Shells -> Hosts \cup {None}]
    /\ status \in [Shells -> Statuses] /\ row \in [Shells -> Statuses]
    /\ registry \subseteq Shells /\ cancelled \subseteq Shells
    /\ session \in [Shells -> {"none", "open", "over"}]
    /\ reason \in [Shells -> {"none", "requested_close", "persistence_failed"}]
    /\ client \in [Clients -> [pc : {"idle", "close", "write", "cancel", "resized"},
                               s : Shells \cup {None}, copy : Statuses]]
    /\ closed \in BOOLEAN /\ restarted \in BOOLEAN

\* Shells that are being started or served.
Held == {s \in Shells : pc[s] \in {"create", "open", "record", "serve", "exited", "failing"}}

\* They count: whatever writes their status leaves it an active one.  A session is
\* open only there, and the registry has no shell of a process that is gone.
HeldInv ==
    /\ \A s \in Held : s \in registry /\ status[s] \in Active
    /\ \A s \in Shells : session[s] = "open" => pc[s] \in {"record", "serve"}
    /\ \A s \in registry : pc[s] \notin {"idle", "done", "dead"}

RoomInv ==
    /\ Cardinality(Held) <= MaxActive
    /\ \A h \in Hosts : Cardinality({s \in Held : host[s] = h}) <= MaxPerHost

\* A client works on a shell of its own process.
ClientInv ==
    \A c \in Clients : client[c].pc # "idle" =>
        client[c].s \in Shells /\ pc[client[c].s] \notin {"idle", "dead"}

IInv == TypeOK /\ HeldInv /\ RoomInv /\ ClientInv /\ NoRowOfLostShell
=============================================================================
