------------------------------- MODULE Tunnel -------------------------------
(***************************************************************************)
(* SSH tunnels: operators start, edit, stop them and delete the host they  *)
(* lead to; a worker per tunnel serves its listener, reconnects when the   *)
(* SSH connection is lost, and forwards connections, each in a goroutine   *)
(* of its own.  A tunnel's state belongs to the worker, to whoever stops   *)
(* it and, by its identifier, to the registry Service.tunnels.             *)
(***************************************************************************)
EXTENDS Integers

CONSTANTS
    Ops,         \* operators
    Requests,    \* bound: how many requests they make
    Tunnels,     \* the sshTunnelStates ever made, numbered in that order
    Started,     \* those that already run
    Conns,       \* the connections a listener accepts
    Losses,      \* bound: how many SSH connections are lost
    None

VARIABLES
    op,          \* per operator: place, identifier and tunnel of its request
    requests,    \* made so far
    losses,      \* so far
    tunnels,     \* Service.tunnels: identifier -> tunnel or None; identifiers are tunnels
    tun,         \* per tunnel, see Unused
    conn,        \* per forwarded connection: place, tunnel, runtime, open and tracked sockets
    hostPresent, \* the row of the host
    closed       \* executionClosed, and executionCtx is cancelled

vars == <<op, requests, losses, tunnels, tun, conn, hostPresent, closed>>

\* pc: the worker; cur: state.runtime is set; live: its listener and client are
\* open; gen: the runtimes opened so far; accept: the goroutine of the listener.
Unused == [id |-> None, pc |-> "none", status |-> "none", stopped |-> FALSE, cancelled |-> FALSE,
           cur |-> FALSE, live |-> FALSE, gen |-> 0, accept |-> "off"]

Free == [pc |-> "free", t |-> None, gen |-> 0, open |-> {}, tracked |-> {}]
Over == [Free EXCEPT !.pc = "over"]

Serving(r) == [r EXCEPT !.pc = "serving", !.status = "running", !.cur = TRUE, !.live = TRUE,
                        !.accept = "accepting"]

\* id: the identifier to stop or to start under; back: the one an edit restores.
Idle == [pc |-> "idle", id |-> None, t |-> None, back |-> None]

Init ==
    /\ op = [o \in Ops |-> Idle] /\ requests = 0 /\ losses = 0
    /\ tunnels = [i \in Tunnels |-> IF i \in Started THEN i ELSE None]
    /\ tun = [t \in Tunnels |-> IF t \in Started THEN Serving([Unused EXCEPT !.id = t]) ELSE Unused]
    /\ conn = [c \in Conns |-> Free]
    /\ hostPresent = TRUE /\ closed = FALSE

Become(o, r) == op' = [op EXCEPT ![o] = r] /\ UNCHANGED <<requests, losses>>
Answer(o) == Become(o, Idle)
Request(o, r) ==
    /\ op[o].pc = "idle" /\ requests < Requests
    /\ requests' = requests + 1 /\ op' = [op EXCEPT ![o] = r] /\ UNCHANGED losses
Tun(t, r) == tun' = [tun EXCEPT ![t] = r]
Conn(c, r) == conn' = [conn EXCEPT ![c] = r]

Current(t) == tunnels[tun[t].id] = t
Done(t) == tun[t].cancelled \/ closed
ConnsOf(t) == {c \in Conns : conn[c].t = t /\ conn[c].pc # "free"}
Handlers(t) == {c \in ConnsOf(t) : conn[c].pc \in {"dialing", "dialed", "relaying"}}
Forget(t) == tunnels' = IF Current(t) THEN [tunnels EXCEPT ![tun[t].id] = None] ELSE tunnels

\* Mutant: closeRuntime leaves the connections of the runtime open.
KeepConnections(t) == conn' = conn

\* closeConnections: what is tracked is closed; its handler forgets it later.
CloseConnections(t) ==
    conn' = [c \in Conns |->
        IF conn[c].t = t THEN [conn[c] EXCEPT !.open = @ \ conn[c].tracked] ELSE conn[c]]

-----------------------------------------------------------------------------
(* Starting: an operator's or an approved request *)

BeginStart(o) ==
    /\ hostPresent
    /\ Request(o, [op[o] EXCEPT !.pc = "start"])
    /\ UNCHANGED <<tunnels, tun, conn, hostPresent, closed>>

\* executionWG.Add: from here Shutdown waits for the tunnel.
Unmade == {t \in Tunnels : tun[t].pc = "none"}
Open(o) ==
    /\ op[o].pc = "start" /\ ~closed
    /\ \E t \in Unmade : (\A u \in Unmade : t <= u)
        /\ Tun(t, [tun[t] EXCEPT !.pc = "starting", !.id = IF op[o].id = None THEN t ELSE op[o].id])
        /\ Become(o, [op[o] EXCEPT !.pc = "opening", !.t = t])
    /\ UNCHANGED <<tunnels, conn, hostPresent, closed>>

\* A failed edit starts the tunnel it stopped again, under its old identifier.
Restore(o) ==
    IF op[o].back # None /\ hostPresent
      THEN [op[o] EXCEPT !.pc = "start", !.id = op[o].back, !.back = None] ELSE Idle

\* Refused, or the connection or its listener cannot be opened.
StartFails(o) ==
    /\ op[o].pc = "opening" \/ (op[o].pc = "start" /\ closed)
    /\ IF op[o].pc = "opening"
         THEN Tun(op[o].t, [tun[op[o].t] EXCEPT !.pc = "ended"]) ELSE tun' = tun
    /\ Become(o, Restore(o))
    /\ UNCHANGED <<tunnels, conn, hostPresent, closed>>

\* The runtime is installed, the tunnel registered and its worker started.
Publish(o) ==
    LET t == op[o].t IN
    /\ op[o].pc = "opening"
    /\ Tun(t, Serving(tun[t]))
    /\ tunnels' = [tunnels EXCEPT ![tun[t].id] = t]
    /\ Answer(o)
    /\ UNCHANGED <<conn, hostPresent, closed>>

-----------------------------------------------------------------------------
(* Stopping and editing *)

\* UpdateOperatorSSHTunnel looks at a snapshot and stops what it then finds.
BeginUpdate(o, i) ==
    /\ hostPresent
    /\ tunnels[i] # None /\ tun[tunnels[i]].status = "running"
    /\ Request(o, [op[o] EXCEPT !.pc = "find", !.id = i, !.back = i])
    /\ UNCHANGED <<tunnels, tun, conn, hostPresent, closed>>

FindForStop(t) ==
    /\ Tun(t, [tun[t] EXCEPT !.status = "stopping"])
    /\ UNCHANGED <<tunnels, conn, hostPresent, closed>>

BeginStop(o, i) ==
    /\ tunnels[i] # None
    /\ Request(o, [op[o] EXCEPT !.pc = "mark", !.id = i, !.t = tunnels[i]])
    /\ FindForStop(tunnels[i])

StopForUpdate(o) ==
    LET t == tunnels[op[o].id] IN
    /\ op[o].pc = "find" /\ t # None
    /\ Become(o, [op[o] EXCEPT !.pc = "mark", !.t = t])
    /\ FindForStop(t)

UpdateTooLate(o) ==
    /\ op[o].pc = "find" /\ tunnels[op[o].id] = None
    /\ Answer(o)
    /\ UNCHANGED <<tunnels, tun, conn, hostPresent, closed>>

\* sshTunnelState.stop: first no runtime can be installed any more, ...
MarkStopped(o) ==
    /\ op[o].pc = "mark"
    /\ Tun(op[o].t, [tun[op[o].t] EXCEPT !.stopped = TRUE, !.cur = FALSE])
    /\ Become(o, [op[o] EXCEPT !.pc = IF tun[op[o].t].cur THEN "close" ELSE "cancel"])
    /\ UNCHANGED <<tunnels, conn, hostPresent, closed>>

\* ... then the worker's context is cancelled, and what there was is closed.
CloseStopped(o) ==
    LET t == op[o].t IN
    /\ op[o].pc \in {"close", "cancel"}
    /\ Tun(t, [tun[t] EXCEPT !.cancelled = TRUE, !.live = @ /\ op[o].pc # "close"])
    /\ CloseConnections(t)
    /\ Become(o, [op[o] EXCEPT !.pc = "remove"])
    /\ UNCHANGED <<tunnels, hostPresent, closed>>

\* The registry forgets the identifier, whatever tunnel it names by now.
Remove(o) ==
    /\ op[o].pc = "remove"
    /\ Tun(op[o].t, [tun[op[o].t] EXCEPT !.status = "stopped"])
    /\ tunnels' = [tunnels EXCEPT ![op[o].id] = None]
    /\ Become(o, IF op[o].back # None /\ hostPresent
                 THEN [op[o] EXCEPT !.pc = "start", !.id = None] ELSE Idle)
    /\ UNCHANGED <<conn, hostPresent, closed>>

-----------------------------------------------------------------------------
(* DeleteHost looks for tunnels first and deletes the row later *)

BeginDelete(o) ==
    /\ hostPresent
    /\ \A i \in Tunnels : tunnels[i] = None
    /\ Request(o, [op[o] EXCEPT !.pc = "delete"])
    /\ UNCHANGED <<tunnels, tun, conn, hostPresent, closed>>

DeleteRow(o) ==
    /\ op[o].pc = "delete"
    /\ hostPresent' = FALSE
    /\ Answer(o)
    /\ UNCHANGED <<tunnels, tun, conn, closed>>

Shutdown ==
    /\ ~closed /\ closed' = TRUE
    /\ UNCHANGED <<op, requests, losses, tunnels, tun, conn, hostPresent>>

-----------------------------------------------------------------------------
(* The worker: runSSHTunnel, serveSSHTunnelRuntime, reconnectSSHTunnel *)

\* Serving ends with the runtime's context, its listener or its SSH connection.
ServeEnds(t) ==
    /\ tun[t].pc = "serving"
    /\ \/ (Done(t) \/ ~tun[t].live \/ tun[t].accept = "off") /\ UNCHANGED losses
       \/ losses < Losses /\ losses' = losses + 1
    /\ Tun(t, [tun[t] EXCEPT !.pc = "closing", !.cur = FALSE])
    /\ UNCHANGED <<op, requests, tunnels, conn, hostPresent, closed>>

\* The rest of closeRuntime.
CloseRuntime(t) ==
    /\ tun[t].pc = "closing"
    /\ Tun(t, [tun[t] EXCEPT !.pc = "waiting", !.live = FALSE])
    /\ CloseConnections(t)
    /\ UNCHANGED <<op, requests, losses, tunnels, hostPresent, closed>>

\* Mutant: the tunnel is retried while connections of the lost runtime remain.
RetryEarly(t) ==
    /\ tun[t].pc = "waiting"
    /\ Tun(t, IF ~Done(t) /\ Current(t) /\ tun[t].status = "running"
              THEN [tun[t] EXCEPT !.pc = "backoff", !.status = "retrying"]
              ELSE [tun[t] EXCEPT !.pc = "stopping"])
    /\ UNCHANGED <<op, requests, losses, tunnels, conn, hostPresent, closed>>

\* connections.Wait, and then reconnect unless the tunnel is being stopped.
Retry(t) ==
    /\ tun[t].pc = "waiting"
    /\ Handlers(t) = {} /\ tun[t].accept = "off"
    /\ Tun(t, IF ~Done(t) /\ Current(t) /\ tun[t].status = "running"
              THEN [tun[t] EXCEPT !.pc = "backoff", !.status = "retrying"]
              ELSE [tun[t] EXCEPT !.pc = "stopping"])
    /\ UNCHANGED <<op, requests, losses, tunnels, conn, hostPresent, closed>>

\* The context ended the backoff or the attempt, or the next one finds that the
\* tunnel is not to be retried.  (A failed attempt goes back to the backoff.)
GiveUp(t) ==
    /\ tun[t].pc = "backoff"
    /\ Done(t) \/ ~Current(t) \/ tun[t].status # "retrying"
    /\ Tun(t, [tun[t] EXCEPT !.pc = "stopping"])
    /\ UNCHANGED <<op, requests, losses, tunnels, conn, hostPresent, closed>>

\* The backoff is over; the host is read and its connection resolved anew.
AttemptOpens(t) ==
    /\ tun[t].pc = "backoff" /\ hostPresent /\ ~Done(t)
    /\ Tun(t, [tun[t] EXCEPT !.pc = "opened", !.live = TRUE, !.gen = @ + 1])
    /\ UNCHANGED <<op, requests, losses, tunnels, conn, hostPresent, closed>>

\* Mutant: a runtime is installed on a tunnel that was stopped meanwhile.
InstallAlways(t) ==
    /\ tun[t].pc = "opened"
    /\ Tun(t, [tun[t] EXCEPT !.pc = "check", !.cur = TRUE])
    /\ UNCHANGED <<op, requests, losses, tunnels, conn, hostPresent, closed>>

\* installRuntime, or the runtime is closed again.
Install(t) ==
    /\ tun[t].pc = "opened"
    /\ Tun(t, IF Done(t) \/ tun[t].stopped THEN [tun[t] EXCEPT !.pc = "stopping", !.live = FALSE]
              ELSE [tun[t] EXCEPT !.pc = "check", !.cur = TRUE])
    /\ UNCHANGED <<op, requests, losses, tunnels, conn, hostPresent, closed>>

\* Mutant: the tunnel runs again although it is being stopped.
ReconnectedAnyway(t) ==
    /\ tun[t].pc = "check"
    /\ Tun(t, [tun[t] EXCEPT !.pc = "serving", !.status = "running", !.accept = "accepting"])
    /\ UNCHANGED <<op, requests, losses, tunnels, conn, hostPresent, closed>>

Reconnected(t) ==
    /\ tun[t].pc = "check"
    /\ Tun(t, IF Current(t) /\ tun[t].status = "retrying" /\ ~Done(t)
              THEN [tun[t] EXCEPT !.pc = "serving", !.status = "running", !.accept = "accepting"]
              ELSE [tun[t] EXCEPT !.pc = "stopping", !.cur = FALSE, !.live = FALSE])
    /\ UNCHANGED <<op, requests, losses, tunnels, conn, hostPresent, closed>>

\* The deferred stop, and the registry entry if it still is this tunnel's.
WorkerStops(t) ==
    /\ tun[t].pc = "stopping"
    /\ Tun(t, [tun[t] EXCEPT !.pc = "leaving", !.stopped = TRUE, !.cur = FALSE, !.cancelled = TRUE,
                             !.live = @ /\ ~tun[t].cur])
    /\ CloseConnections(t)
    /\ UNCHANGED <<op, requests, losses, tunnels, hostPresent, closed>>

WorkerEnds(t) ==
    /\ tun[t].pc = "leaving"
    /\ Tun(t, [tun[t] EXCEPT !.pc = "ended", !.gen = 0])
    /\ Forget(t)
    /\ UNCHANGED <<op, requests, losses, conn, hostPresent, closed>>

-----------------------------------------------------------------------------
(* Connections: acceptSSHTunnelConnections, forwardSSHTunnelConnection *)

Active(c) ==
    LET t == conn[c].t IN ~tun[t].stopped /\ tun[t].cur /\ tun[t].gen = conn[c].gen

Accept(t, c) ==
    /\ tun[t].accept = "accepting" /\ tun[t].live /\ conn[c].pc = "free"
    /\ Tun(t, [tun[t] EXCEPT !.accept = "tracking"])
    /\ Conn(c, [conn[c] EXCEPT !.pc = "accepted", !.t = t, !.gen = tun[t].gen, !.open = {"in"}])
    /\ UNCHANGED <<op, requests, losses, tunnels, hostPresent, closed>>

AcceptEnds(t) ==
    /\ tun[t].accept = "accepting" /\ ~tun[t].live
    /\ Tun(t, [tun[t] EXCEPT !.accept = "off"])
    /\ UNCHANGED <<op, requests, losses, tunnels, conn, hostPresent, closed>>

\* trackConnection, which closes what it refuses.
TrackInbound(c) ==
    /\ conn[c].pc = "accepted"
    /\ Tun(conn[c].t, [tun[conn[c].t] EXCEPT !.accept = IF Active(c) THEN "accepting" ELSE "off"])
    /\ Conn(c, IF Active(c) THEN [conn[c] EXCEPT !.pc = "dialing", !.tracked = {"in"}]
               ELSE Over)
    /\ UNCHANGED <<op, requests, losses, tunnels, hostPresent, closed>>

DialFails(c) ==
    /\ conn[c].pc = "dialing"
    /\ Conn(c, Over)
    /\ UNCHANGED <<op, requests, losses, tunnels, tun, hostPresent, closed>>

Dialed(c) ==
    /\ conn[c].pc = "dialing"
    /\ Conn(c, [conn[c] EXCEPT !.pc = "dialed", !.open = @ \cup {"out"}])
    /\ UNCHANGED <<op, requests, losses, tunnels, tun, hostPresent, closed>>

\* The target is refused when the runtime is gone; the inbound side is only
\* forgotten then, for closeConnections to close if it came first.
TrackTarget(c) ==
    /\ conn[c].pc = "dialed"
    /\ Conn(c, IF Active(c) THEN [conn[c] EXCEPT !.pc = "relaying", !.tracked = {"in", "out"}]
               ELSE [Over EXCEPT !.open = conn[c].open \ {"out"}])
    /\ UNCHANGED <<op, requests, losses, tunnels, tun, hostPresent, closed>>

\* A relay ends when a peer hangs up or its connections are closed here.
PeerCloses(c) ==
    /\ conn[c].pc = "relaying"
    /\ Conn(c, Over)
    /\ UNCHANGED <<op, requests, losses, tunnels, tun, hostPresent, closed>>

RelayEnds(c) ==
    /\ conn[c].pc = "relaying" /\ conn[c].open # {"in", "out"}
    /\ Conn(c, Over)
    /\ UNCHANGED <<op, requests, losses, tunnels, tun, hostPresent, closed>>

-----------------------------------------------------------------------------
Begin(o) ==
    \/ BeginStart(o) \/ BeginDelete(o)
    \/ \E i \in Tunnels : BeginStop(o, i) \/ BeginUpdate(o, i)

OpStep(o) ==
    \/ Open(o) \/ StartFails(o) \/ Publish(o) \/ StopForUpdate(o) \/ UpdateTooLate(o)
    \/ MarkStopped(o) \/ CloseStopped(o) \/ Remove(o) \/ DeleteRow(o)

Worker(t) ==
    \/ ServeEnds(t) \/ CloseRuntime(t) \/ Retry(t) \/ GiveUp(t) \/ AttemptOpens(t)
    \/ Install(t) \/ Reconnected(t) \/ WorkerStops(t) \/ WorkerEnds(t) \/ AcceptEnds(t)

Handler(c) == TrackInbound(c) \/ DialFails(c) \/ Dialed(c) \/ TrackTarget(c) \/ RelayEnds(c)

Next ==
    \/ \E o \in Ops : Begin(o) \/ OpStep(o)
    \/ \E t \in Tunnels : Worker(t) \/ \E c \in Conns : Accept(t, c)
    \/ \E c \in Conns : Handler(c) \/ PeerCloses(c)
    \/ Shutdown

\* A goroutine that can go on does: dialling and connecting have timeouts, a
\* lost connection is noticed.  Peers and operators owe nothing.
Fair ==
    /\ \A o \in Ops : WF_vars(OpStep(o))
    /\ \A t \in Tunnels : WF_vars(Worker(t))
    /\ \A c \in Conns : WF_vars(Handler(c))
Spec == Init /\ [][Next]_vars
FairSpec == Spec /\ Fair

-----------------------------------------------------------------------------
(* Properties *)

\* A tunnel that was stopped is not brought back by its worker's reconnecting,
\* and one whose worker ended holds no listener, no SSH connection and no
\* connection it still tracks, whoever stopped it and wherever the worker was.
StoppedTunnelIsClosed ==
    \A t \in Tunnels :
        /\ tun[t].stopped => ~tun[t].cur
        /\ tun[t].pc = "ended" =>
             ~tun[t].live /\ tun[t].accept = "off" /\ \A c \in ConnsOf(t) : conn[c].tracked = {}

\* A runtime takes over only when every connection of the lost one is settled:
\* bytes of two SSH connections never mix in one tunnel.
RuntimesDoNotOverlap ==
    \A c \in Conns :
        conn[c].pc \in {"dialing", "dialed", "relaying"} => conn[c].gen = tun[conn[c].t].gen

\* A tunnel that is stopped never reports that it runs again.
StopIsFinal ==
    [][\A t \in Tunnels : tun[t].status \in {"stopping", "stopped"} =>
          tun'[t].status \in {"stopping", "stopped"}]_vars

\* Shutdown waits for every worker, and every worker ends: backoff, connecting,
\* accepting and relaying all let go when the service is shut down.
ShutdownEnds == []<>(closed => \A t \in Tunnels : tun[t].pc \in {"none", "ended"})

\* ErrHostHasActiveTunnel "prevents deleting connection settings still used by
\* a forwarding worker" (tunnels.go): no tunnel forwards for a deleted host.
HostOutlivesTunnel ==
    \A t \in Tunnels : tun[t].pc = "serving" /\ ~tun[t].stopped => hostPresent

-----------------------------------------------------------------------------
(* The inductive invariant *)

OpStates ==
    [pc : {"idle", "start", "opening", "find", "mark", "close", "cancel", "remove", "delete"},
     id : Tunnels \cup {None}, t : Tunnels \cup {None}, back : Tunnels \cup {None}]

TunnelStates ==
    [id : Tunnels \cup {None},
     pc : {"none", "starting", "serving", "closing", "waiting", "backoff", "opened", "check",
           "stopping", "leaving", "ended"},
     status : {"none", "running", "retrying", "stopping", "stopped"},
     stopped : BOOLEAN, cancelled : BOOLEAN, cur : BOOLEAN, live : BOOLEAN,
     gen : Nat, accept : {"off", "accepting", "tracking"}]

ConnStates ==
    [pc : {"free", "accepted", "dialing", "dialed", "relaying", "over"}, t : Tunnels \cup {None},
     gen : Nat, open : SUBSET {"in", "out"}, tracked : SUBSET {"in", "out"}]

TypeOK ==
    /\ op \in [Ops -> OpStates] /\ requests \in Nat /\ losses \in Nat
    /\ tunnels \in [Tunnels -> Tunnels \cup {None}]
    /\ tun \in [Tunnels -> TunnelStates] /\ conn \in [Conns -> ConnStates]
    /\ hostPresent \in BOOLEAN /\ closed \in BOOLEAN

Made(t) == t \in Tunnels /\ tun[t].pc \notin {"none", "starting"}

\* A tunnel is opened by one operator; what is stopped or registered was published.
OpInv ==
    /\ \A o \in Ops :
        /\ op[o].pc = "opening" => op[o].t \in Tunnels /\ tun[op[o].t].pc = "starting"
        /\ op[o].pc = "find" => op[o].id \in Tunnels
        /\ op[o].pc \in {"mark", "close", "cancel", "remove"} => Made(op[o].t)
        /\ \A p \in Ops : op[o].pc = "opening" /\ op[p].pc = "opening" /\ op[o].t = op[p].t => o = p
    /\ \A i \in Tunnels : tunnels[i] # None => Made(tunnels[i])

\* Where a worker can be while its runtime is current, open or accepting.
WorkerInv ==
    \A t \in Tunnels :
        /\ tun[t].pc \in {"none", "starting"} => tun[t].status = "none" /\ ~tun[t].stopped
        /\ tun[t].stopped => ~tun[t].cur
        /\ tun[t].live => tun[t].pc \in {"serving", "closing", "opened", "check"}
        /\ tun[t].accept # "off" => tun[t].pc \in {"serving", "closing", "waiting"}

\* A handler belongs to the last runtime, which its worker has not left behind.
ConnInv ==
    \A c \in Conns :
        /\ conn[c].pc = "accepted" =>
             /\ conn[c].t \in Tunnels /\ tun[conn[c].t].accept = "tracking"
             /\ \A d \in Conns : conn[d].pc = "accepted" /\ conn[d].t = conn[c].t => d = c
        /\ conn[c].pc \in {"dialing", "dialed", "relaying"} =>
             /\ conn[c].t \in Tunnels /\ tun[conn[c].t].pc \in {"serving", "closing", "waiting"}
             /\ conn[c].gen = tun[conn[c].t].gen
        /\ conn[c].tracked # {} => conn[c].pc \in {"dialing", "dialed", "relaying"}

IInv == TypeOK /\ OpInv /\ WorkerInv /\ ConnInv
=============================================================================
