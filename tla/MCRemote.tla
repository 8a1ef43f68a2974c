------------------------------ MODULE MCRemote ------------------------------
(* What the service does on the hosts: tunnels, shells and their journals,   *)
(* the SFTP pool and the SSH calls below them, checked in one run.  These    *)
(* components share no state but their hosts, so each behaviour moves one of *)
(* them: focus.  Their interleavings are those inside each.                  *)
EXTENDS Integers, FiniteSets

CONSTANTS
    Ops, Requests, Tunnels, Started, Conns, Losses,                        \* Tunnel
    Callers, Entries, Nobody,                                              \* SFTPPool
    Shells, Hosts, Clients, MaxActive, MaxPerHost,                         \* ShellLifecycle
    MaxEvents, MaxFailures, Batch, Backlog, ChannelSize, PageSize,         \* ShellJournal
    Target, Keys, MaxKeyChanges, MaxCalls,                                 \* NativeSSH
    None

ASSUME TunnelBounds == None \notin Tunnels /\ Started \subseteq Tunnels
ASSUME PoolBounds ==
    IsFiniteSet(Callers) /\ Entries \subseteq Nat /\ Nobody \notin Entries
ASSUME ShellBounds == IsFiniteSet(Shells) /\ MaxActive \in Nat /\ MaxPerHost \in Nat
ASSUME JournalBounds == {MaxEvents, MaxFailures, PageSize} \subseteq Nat
ASSUME HopBounds ==
    /\ Target \in Nat \ {0} /\ MaxKeyChanges \in Nat /\ MaxCalls \in Nat
    /\ "none" \notin Keys

VARIABLES
    focus,       \* the component that moves
    op, requests, losses, tunnels, tun, conn, hostPresent, tunnelsClosed,
    opener, lease, retried, pool, sftpClient, ready, refs, stale, idleTimer, firing, done,
    start, host, status, row, registry, session, reason, cancelled, shellClient, shellsClosed,
    restarted,
    log, queue, stored, last, persistTimer, stopped, failures, worker, resize, web, agent, reader,
    call, open, dialer, servers, keepalive, accepted, keyOf, known, scanned, confirmed, calls, changes

T == INSTANCE Tunnel WITH closed <- tunnelsClosed
P == INSTANCE SFTPPool WITH pc <- opener, client <- sftpClient, timer <- idleTimer
S == INSTANCE ShellLifecycle WITH pc <- start, client <- shellClient, closed <- shellsClosed
J == INSTANCE ShellJournal WITH timer <- persistTimer
N == INSTANCE NativeSSH

\* What does not move starts in one of its initial states.
Init ==
    /\ focus \in {"tunnels", "pool", "shells", "journal", "ssh"}
    /\ T!Init /\ P!Init /\ S!Init
    /\ J!Init /\ (focus # "journal" => reader = "web")
    /\ N!Init /\ (focus # "ssh" => keyOf = [h \in N!Hops |-> CHOOSE k \in Keys : TRUE] /\ known = {})

tunnelVars == <<op, requests, losses, tunnels, tun, conn, hostPresent, tunnelsClosed>>
poolVars == <<opener, lease, retried, pool, sftpClient, ready, refs, stale, idleTimer, firing, done>>
shellVars == <<start, host, status, row, registry, session, reason, cancelled, shellClient,
               shellsClosed, restarted>>
journalVars == <<log, queue, stored, last, persistTimer, stopped, failures, worker, resize, web,
                 agent, reader>>
sshVars == <<call, open, dialer, servers, keepalive, accepted, keyOf, known, scanned, confirmed,
             calls, changes>>
vars == <<focus, tunnelVars, poolVars, shellVars, journalVars, sshVars>>

MoveTunnels ==
    focus = "tunnels" /\ T!Next /\ UNCHANGED <<focus, poolVars, shellVars, journalVars, sshVars>>
MovePool ==
    focus = "pool" /\ P!Next /\ UNCHANGED <<focus, tunnelVars, shellVars, journalVars, sshVars>>
MoveShells ==
    focus = "shells" /\ S!Next /\ UNCHANGED <<focus, tunnelVars, poolVars, journalVars, sshVars>>
MoveJournal ==
    focus = "journal" /\ J!Next /\ UNCHANGED <<focus, tunnelVars, poolVars, shellVars, sshVars>>
MoveSSH ==
    focus = "ssh" /\ N!Next /\ UNCHANGED <<focus, tunnelVars, poolVars, shellVars, journalVars>>

Next == MoveTunnels \/ MovePool \/ MoveShells \/ MoveJournal \/ MoveSSH

\* The fairness each component states (Fair), for the one that moves.
Spec ==
    /\ Init /\ [][Next]_vars
    /\ \A o \in Ops : WF_tunnelVars(focus = "tunnels" /\ T!OpStep(o))
    /\ \A t \in Tunnels : WF_tunnelVars(focus = "tunnels" /\ T!Worker(t))
    /\ \A c \in Conns : WF_tunnelVars(focus = "tunnels" /\ T!Handler(c))
    /\ \A u \in Callers : WF_poolVars(focus = "pool" /\ P!Step(u))
    /\ \A e \in Entries : /\ WF_poolVars(focus = "pool" /\ P!TimerFires(e))
                           /\ WF_poolVars(focus = "pool" /\ P!Expire(e))
    /\ \A s \in Shells : WF_shellVars(focus = "shells" /\ S!Work(s))
    /\ \A d \in Clients : WF_shellVars(focus = "shells" /\ S!Serve(d))
    /\ WF_journalVars(focus = "journal" /\ J!TimerFires /\ UNCHANGED reader)
    /\ WF_sshVars(focus = "ssh" /\ N!ContextEnds /\ ~(call.kind = "shell" /\ call.phase = "running"))
    /\ WF_sshVars(focus = "ssh" /\ \E ok \in BOOLEAN : N!DialFirst(ok))
    /\ WF_sshVars(focus = "ssh" /\ N!StartDial)
    /\ WF_sshVars(focus = "ssh" /\ \E ok \in BOOLEAN : N!DialEnds(ok))
    /\ WF_sshVars(focus = "ssh" /\ N!DialTaken)
    /\ WF_sshVars(focus = "ssh" /\ N!DialCancelled)
    /\ WF_sshVars(focus = "ssh" /\ N!DialAbandoned)
    /\ WF_sshVars(focus = "ssh" /\ N!AbandonedDialEnds)
    /\ WF_sshVars(focus = "ssh" /\ \E ok \in BOOLEAN : N!LoadKnownHosts(ok))
    /\ WF_sshVars(focus = "ssh" /\ \E ok, agentOk \in BOOLEAN : N!PrepareAuthentication(ok, agentOk))
    /\ WF_sshVars(focus = "ssh" /\ (N!HandshakeFails \/ N!CaptureFails))
    /\ WF_sshVars(focus = "ssh" /\ \E ok \in BOOLEAN : N!StartSession(ok))
    /\ WF_sshVars(focus = "ssh" /\ N!SessionCancelled)
    /\ WF_sshVars(focus = "ssh" /\ N!CloseSFTP)
    /\ WF_sshVars(focus = "ssh" /\ N!Close)
    /\ \A h \in N!Hops : WF_sshVars(focus = "ssh" /\ N!KeepaliveCloses(h))

-----------------------------------------------------------------------------
(* Properties: each the conjunction of what the components state. *)

\* A stopped tunnel stays stopped and, once its worker ended, holds nothing open,
\* and no two runtimes listen for one tunnel, whatever reconnects, updates and
\* deletes it meanwhile (tunnels.go).
TunnelsSafe == [](T!StoppedTunnelIsClosed /\ T!RuntimesDoNotOverlap) /\ T!StopIsFinal

\* Shells keep to their limits and are looked after as long as they are open, recovery
\* leaves no row of a lost one active, and a shutdown is not reported as an end
\* of the shell's own (shells.go).
ShellsSafe == [](S!LimitsHold /\ S!NoRowOfLostShell) /\ S!ShutdownIsReported

\* The journal of a shell stores its events in order and without a gap, a web
\* terminal shows every event once it has caught up, and the agent's cursor passes no
\* output it was not given (shells.go, server.go).
ReadersMissNothing == J!TypeOK /\ J!NoEventLost /\ J!TerminalHasNoGap /\ J!AgentMissesNothing

\* No pooled SFTP connection is closed under its users or forgotten open, a call
\* that returned left no connection, agent or keepalive of any hop behind, and a
\* session runs only over host keys an operator confirmed (sftp_pool.go, sshnative).
ConnectionsSafe ==
    /\ P!TypeOK /\ P!UsersKeepConnection /\ P!NoConnectionLost
    /\ N!TypeOK /\ N!ReturnsClosed /\ N!OnlyConfirmedHosts

\* A shutdown ends every tunnel, a shell that is closed leaves the registry, events that
\* wait are stored, callers that wait for a connection go on and idle connections
\* are closed, and calls return though the servers are gone, or stall other than while
\* a session is opened or an upload's file is closed.
RemoteWorkEnds ==
    /\ T!ShutdownEnds /\ S!ClosedShellLeaves /\ J!QueueIsStored
    /\ P!WaitersGoOn /\ P!IdleCloses /\ N!CallsReturn
=============================================================================
