------------------------------ MODULE NativeSSH ------------------------------
(***************************************************************************)
(* The SSH transport (sshx/native.go): a call connects through a chain of  *)
(* hops, verifies the host key of each against known_hosts, authenticates, *)
(* runs a command, an upload or a shell on the last hop, and closes what   *)
(* it opened.  Any step may fail; the context may end, and the servers may *)
(* stop answering, wholly or but for their keepalives, at any time.  Calls *)
(* share nothing but known_hosts, which a lock guards: one call runs at a  *)
(* time here.                                                              *)
(***************************************************************************)
EXTENDS Integers, FiniteSets

CONSTANTS
  Target,          \* number of hops; hop Target is the host, the others jumps
  Keys,            \* host keys a server may present
  MaxKeyChanges,   \* bound: how often servers change their key
  MaxCalls         \* bound: calls in one behaviour

VARIABLES
  call,       \* the call: kind, expected fingerprint, phase, hop, context
  open,       \* what is open: <<"raw", h>>, <<"client", h>>, <<"agent", h>>, ...
  dialer,     \* the goroutine that dials through a jump
  servers,    \* whether the servers answer, answer only keepalives, or are gone
  keepalive,  \* hops whose client has a keepalive goroutine
  accepted,   \* the key each hop was authenticated with
  keyOf,      \* the key each server presents
  known,      \* known_hosts: <<hop, key>>
  scanned,    \* fingerprints shown to the operator
  confirmed,  \* fingerprints the operator confirmed
  calls, changes

vars == <<call, open, dialer, servers, keepalive, accepted, keyOf, known, scanned,
          confirmed, calls, changes>>

Hops == 1..Target
NoKey == "none"
Kinds == {"exec", "upload", "shell", "scan", "trust"}
Idle == [kind |-> "none", expected |-> NoKey, phase |-> "idle", hop |-> 0,
         live |-> TRUE, file |-> {}]

Phases == {"idle", "dial", "cancelling", "verify", "auth", "handshake", "connected",
           "running", "closing_sftp", "closing"}

Scanning == call.kind \in {"scan", "trust"}
AtTarget == call.hop = Target

TypeOK ==
  /\ call \in [kind : Kinds \cup {"none"}, expected : Keys \cup {NoKey}, phase : Phases,
               hop : 0..Target, live : BOOLEAN, file : SUBSET (Hops \X Keys)]
  /\ open \subseteq {"raw", "client", "agent"} \X Hops \cup {<<"session", Target>>}
  /\ dialer \in [state : {"none", "dialing", "connected", "failed"},
                 hop : 0..Target, abandoned : BOOLEAN]
  /\ servers \in {"answer", "stall", "gone"} /\ keepalive \subseteq Hops
  /\ accepted \in [Hops -> Keys \cup {NoKey}] /\ keyOf \in [Hops -> Keys]
  /\ known \subseteq Hops \X Keys
  /\ scanned \subseteq Hops \X Keys /\ confirmed \subseteq scanned
  /\ calls \in 0..MaxCalls /\ changes \in 0..MaxKeyChanges

NoDialer == [state |-> "none", hop |-> 0, abandoned |-> FALSE]

\* known_hosts may hold keys that were confirmed earlier.
Init ==
  /\ call = Idle /\ open = {} /\ dialer = NoDialer
  /\ servers = "answer" /\ keepalive = {}
  /\ accepted = [h \in Hops |-> NoKey]
  /\ keyOf \in [Hops -> Keys]
  /\ \E trusted \in SUBSET Hops : known = {<<h, keyOf[h]>> : h \in trusted}
  /\ scanned = known /\ confirmed = known
  /\ calls = 0 /\ changes = 0

-----------------------------------------------------------------------------
(* Closing. *)

\* The call returns an error while it connects: its own connection is closed,
\* and closeClients closes the hops before, last first.
Fails ==
  /\ call' = Idle
  /\ open' = {}
  /\ accepted' = [h \in Hops |-> NoKey]

-----------------------------------------------------------------------------
(* The caller, the operator and the servers. *)

\* Exec, OpenShell, ScanHostKey; TrustHostKey with a fingerprint confirmed.
Begin(kind, key) ==
  /\ call.phase = "idle" /\ dialer = NoDialer /\ calls < MaxCalls
  /\ IF kind = "trust" THEN <<Target, key>> \in confirmed ELSE key = NoKey
  /\ call' = [kind |-> kind, expected |-> key, phase |-> "dial", hop |-> 1,
              live |-> TRUE, file |-> {}]
  /\ calls' = calls + 1 /\ servers' = "answer"
  /\ UNCHANGED <<open, dialer, keepalive, accepted, keyOf, known, scanned, confirmed,
                 changes>>

\* The caller cancels, or the timeout of the call or of the hop ends.
ContextEnds ==
  /\ call.phase # "idle" /\ call.live
  /\ call' = [call EXCEPT !.live = FALSE]
  /\ UNCHANGED <<open, dialer, servers, keepalive, accepted, keyOf, known, scanned,
                 confirmed, calls, changes>>

Confirm(key) ==
  /\ <<Target, key>> \in scanned
  /\ confirmed' = confirmed \cup {<<Target, key>>}
  /\ UNCHANGED <<call, open, dialer, servers, keepalive, accepted, keyOf, known, scanned,
                 calls, changes>>

ServerChangesKey(h, key) ==
  /\ changes < MaxKeyChanges /\ keyOf[h] # key
  /\ keyOf' = [keyOf EXCEPT ![h] = key]
  /\ changes' = changes + 1
  /\ UNCHANGED <<call, open, dialer, servers, keepalive, accepted, known, scanned,
                 confirmed, calls>>

\* A server that stalls answers keepalives, but no channel, session or SFTP request.
ServersStall ==
  /\ servers = "answer" /\ call.phase # "idle"
  /\ servers' = "stall"
  /\ UNCHANGED <<call, open, dialer, keepalive, accepted, keyOf, known, scanned,
                 confirmed, calls, changes>>

ServersStop ==
  /\ servers # "gone" /\ call.phase # "idle"
  /\ servers' = "gone"
  /\ UNCHANGED <<call, open, dialer, keepalive, accepted, keyOf, known, scanned,
                 confirmed, calls, changes>>

-----------------------------------------------------------------------------
(* connect. *)

\* dialFirstHop, directly or through the host's proxy: it obeys the context.
DialFirst(ok) ==
  /\ call.phase = "dial" /\ call.hop = 1
  /\ ok => servers # "gone" /\ call.live
  /\ IF ok THEN /\ open' = open \cup {<<"raw", 1>>}
                /\ call' = [call EXCEPT !.phase = "verify"]
                /\ UNCHANGED accepted
     ELSE Fails
  /\ UNCHANGED <<dialer, servers, keepalive, keyOf, known, scanned, confirmed, calls,
                 changes>>

\* dialSSHClientContext: a goroutine dials through the jump before.
StartDial ==
  /\ call.phase = "dial" /\ call.hop > 1 /\ dialer.state = "none"
  /\ dialer' = [state |-> "dialing", hop |-> call.hop, abandoned |-> FALSE]
  /\ UNCHANGED <<call, open, servers, keepalive, accepted, keyOf, known, scanned,
                 confirmed, calls, changes>>

DialEnds(ok) ==
  /\ dialer.state = "dialing"
  /\ ok => servers = "answer" /\ <<"client", dialer.hop - 1>> \in open
  /\ ~ok => servers = "answer" \/ <<"client", dialer.hop - 1>> \notin open
  /\ dialer' = [dialer EXCEPT !.state = IF ok THEN "connected" ELSE "failed"]
  /\ open' = IF ok THEN open \cup {<<"raw", dialer.hop>>} ELSE open
  /\ UNCHANGED <<call, servers, keepalive, accepted, keyOf, known, scanned, confirmed,
                 calls, changes>>

\* The caller takes the result of the goroutine.
DialTaken ==
  /\ call.phase = "dial" /\ dialer.state \in {"connected", "failed"} /\ ~dialer.abandoned
  /\ IF dialer.state = "connected"
       THEN /\ call' = [call EXCEPT !.phase = "verify"]
            /\ UNCHANGED <<open, accepted>>
       ELSE Fails
  /\ dialer' = NoDialer
  /\ UNCHANGED <<servers, keepalive, keyOf, known, scanned, confirmed, calls, changes>>

\* The context ended first: the jump is closed and the result awaited briefly.
DialCancelled ==
  /\ call.phase = "dial" /\ dialer.state # "none" /\ ~call.live
  /\ open' = open \ {<<"client", call.hop - 1>>}
  /\ call' = [call EXCEPT !.phase = "cancelling"]
  /\ UNCHANGED <<dialer, servers, keepalive, accepted, keyOf, known, scanned, confirmed,
                 calls, changes>>

DialLate ==
  /\ call.phase = "cancelling" /\ dialer.state \in {"connected", "failed"}
  /\ dialer' = NoDialer
  /\ call' = Idle /\ open' = {}
  /\ accepted' = [h \in Hops |-> NoKey]
  /\ UNCHANGED <<servers, keepalive, keyOf, known, scanned, confirmed, calls, changes>>

\* Mutant of DialAbandoned: the goroutine is not told.
DialForgotten ==
  /\ call.phase = "cancelling"
  /\ call' = Idle /\ dialer' = NoDialer
  /\ open' = {r \in open : r[1] = "raw" /\ dialer.state = "connected"
                             /\ r[2] = dialer.hop}
  /\ accepted' = [h \in Hops |-> NoKey]
  /\ UNCHANGED <<servers, keepalive, keyOf, known, scanned, confirmed, calls, changes>>

\* nativeDialCancelWait is over: the goroutine is left to itself.
DialAbandoned ==
  /\ call.phase = "cancelling"
  /\ call' = Idle
  /\ dialer' = [dialer EXCEPT !.abandoned = TRUE]
  /\ open' = {r \in open : r[1] = "raw" /\ dialer.state = "connected"
                             /\ r[2] = dialer.hop}
  /\ accepted' = [h \in Hops |-> NoKey]
  /\ UNCHANGED <<servers, keepalive, keyOf, known, scanned, confirmed, calls, changes>>

\* It closes the connection nobody wants any more.
AbandonedDialEnds ==
  /\ dialer.abandoned /\ dialer.state \in {"connected", "failed"}
  /\ open' = open \ {<<"raw", dialer.hop>>}
  /\ dialer' = NoDialer
  /\ UNCHANGED <<call, servers, keepalive, accepted, keyOf, known, scanned, confirmed,
                 calls, changes>>

\* Whether the hop's key is captured rather than verified.
CapturesKey == Scanning /\ AtTarget

\* strictHostKeyCallback reads known_hosts as it is now; it may not exist.
LoadKnownHosts(ok) ==
  /\ call.phase = "verify"
  /\ CapturesKey => ok
  /\ IF ok THEN /\ call' = [call EXCEPT !.phase = "auth", !.file = known]
                /\ UNCHANGED <<open, accepted>>
     ELSE Fails
  /\ UNCHANGED <<dialer, servers, keepalive, keyOf, known, scanned, confirmed, calls,
                 changes>>

\* prepareNativeAuthentication: an agent connection, or secrets of the host.
PrepareAuthentication(ok, agent) ==
  /\ call.phase = "auth"
  /\ CapturesKey => ok /\ ~agent
  /\ IF ok THEN /\ open' = IF agent THEN open \cup {<<"agent", call.hop>>} ELSE open
                /\ call' = [call EXCEPT !.phase = "handshake"]
                /\ UNCHANGED accepted
     ELSE Fails
  /\ UNCHANGED <<dialer, servers, keepalive, keyOf, known, scanned, confirmed, calls,
                 changes>>

\* Mutant of KeyAccepted: a key unknown to known_hosts is accepted.
KeyAcceptedUnlessOther ==
  \A key \in Keys : <<call.hop, key>> \in call.file => key = keyOf[call.hop]
KeyAccepted == <<call.hop, keyOf[call.hop]>> \in call.file

\* ssh.NewClientConn with the hop's key verified and the user authenticated.
Handshake ==
  /\ call.phase = "handshake" /\ ~CapturesKey /\ servers = "answer" /\ call.live
  /\ CapturesKey \/ KeyAccepted
  /\ open' = (open \ {<<"raw", call.hop>>, <<"agent", call.hop>>})
               \cup {<<"client", call.hop>>}
  /\ accepted' = [accepted EXCEPT ![call.hop] = keyOf[call.hop]]
  /\ IF AtTarget
       THEN /\ call' = [call EXCEPT !.phase = "connected"]
            /\ keepalive' = Hops
       ELSE /\ call' = [call EXCEPT !.phase = "dial", !.hop = @ + 1]
            /\ UNCHANGED keepalive
  /\ UNCHANGED <<dialer, servers, keyOf, known, scanned, confirmed, calls, changes>>

\* A wrong key, a refused user, a deadline or a connection closed on cancel.
HandshakeFails ==
  /\ call.phase = "handshake" /\ ~CapturesKey
  /\ Fails
  /\ UNCHANGED <<dialer, servers, keepalive, keyOf, known, scanned, confirmed, calls,
                 changes>>

\* Mutant of Expected: the key that is stored is the one scanned last.
ExpectedAny == TRUE
\* TrustHostKey compares the fingerprint the operator saw with its own scan.
Expected == keyOf[Target] = call.expected

\* ScanHostKey: the callback captures the key and ends the handshake.
KeyCaptured ==
  /\ call.phase = "handshake" /\ CapturesKey /\ servers = "answer" /\ call.live
  /\ scanned' = scanned \cup {<<Target, keyOf[Target]>>}
  /\ known' = IF call.kind = "trust" /\ Expected
                THEN known \cup {<<Target, keyOf[Target]>>} ELSE known
  /\ Fails
  /\ UNCHANGED <<dialer, servers, keepalive, keyOf, confirmed, calls, changes>>

\* The target never presented a key.
CaptureFails ==
  /\ call.phase = "handshake" /\ CapturesKey
  /\ Fails
  /\ UNCHANGED <<dialer, servers, keepalive, keyOf, known, scanned, confirmed, calls,
                 changes>>

-----------------------------------------------------------------------------
(* Using the connection. *)

\* A hop's client was closed under the call.
Broken == \E h \in Hops : <<"client", h>> \notin open

\* A request of the call on its connection returns.
RequestReturns == servers = "answer" \/ Broken

\* What a call closes first: an upload its remote file and its SFTP client.
ClosingOf(kind) == IF kind = "upload" THEN "closing_sftp" ELSE "closing"

\* The session, its input, its terminal, its command; or SFTP and its file.  These
\* requests do not look at the context.
StartSession(ok) ==
  /\ call.phase = "connected" /\ RequestReturns
  /\ IF ok THEN /\ ~Broken
                /\ open' = open \cup {<<"session", Target>>}
                /\ call' = [call EXCEPT !.phase = "running"]
     ELSE /\ \E phase \in {"closing", ClosingOf(call.kind)} : call' = [call EXCEPT !.phase = phase]
          /\ UNCHANGED open
  /\ UNCHANGED <<dialer, servers, keepalive, accepted, keyOf, known, scanned, confirmed,
                 calls, changes>>

\* The command, the copy or the shell ends, or its connection is lost.
SessionEnds ==
  /\ call.phase = "running" /\ RequestReturns
  /\ call' = [call EXCEPT !.phase = ClosingOf(call.kind)]
  /\ UNCHANGED <<open, dialer, servers, keepalive, accepted, keyOf, known, scanned,
                 confirmed, calls, changes>>

\* execWithCallback sees the context end and closes session and client, and so
\* does a shell's owner; transfer closes the remote file first.
SessionCancelled ==
  /\ call.phase = "running" /\ ~call.live
  /\ open' = IF call.kind = "upload" THEN open ELSE {}
  /\ call' = [call EXCEPT !.phase = ClosingOf(call.kind)]
  /\ UNCHANGED <<dialer, servers, keepalive, accepted, keyOf, known, scanned, confirmed,
                 calls, changes>>

\* transfer's remote.Close and sftpClient.Close wait for the server, without a
\* timeout of their own and before the connection is closed.
CloseSFTP ==
  /\ call.phase = "closing_sftp" /\ RequestReturns
  /\ call' = [call EXCEPT !.phase = "closing"]
  /\ UNCHANGED <<open, dialer, servers, keepalive, accepted, keyOf, known, scanned, confirmed,
                 calls, changes>>

\* nativeClient.Close closes every hop, last first, and stops the keepalives.
Close ==
  /\ call.phase = "closing"
  /\ open' = {} /\ keepalive' = {}
  /\ accepted' = [h \in Hops |-> NoKey]
  /\ call' = Idle
  /\ UNCHANGED <<dialer, servers, keyOf, known, scanned, confirmed, calls, changes>>

\* Mutant of KeepaliveCloses: the goroutine gives up and leaves the client open.
KeepaliveGivesUp(h) ==
  /\ h \in keepalive /\ servers = "gone"
  /\ keepalive' = keepalive \ {h}
  /\ UNCHANGED <<call, open, dialer, servers, accepted, keyOf, known, scanned, confirmed,
                 calls, changes>>

\* nativeKeepalive closes a client whose server missed two answers.
KeepaliveCloses(h) ==
  /\ h \in keepalive /\ servers = "gone"
  /\ open' = open \ {<<"client", h>>}
  /\ keepalive' = keepalive \ {h}
  /\ UNCHANGED <<call, dialer, servers, accepted, keyOf, known, scanned, confirmed, calls,
                 changes>>

Next ==
  \/ \E kind \in Kinds, key \in Keys \cup {NoKey} : Begin(kind, key)
  \/ ContextEnds
  \/ \E key \in Keys : Confirm(key)
  \/ \E h \in Hops, key \in Keys : ServerChangesKey(h, key)
  \/ ServersStall
  \/ ServersStop
  \/ \E ok \in BOOLEAN : DialFirst(ok)
  \/ StartDial
  \/ \E ok \in BOOLEAN : DialEnds(ok)
  \/ DialTaken
  \/ DialCancelled
  \/ DialLate
  \/ DialAbandoned
  \/ AbandonedDialEnds
  \/ \E ok \in BOOLEAN : LoadKnownHosts(ok)
  \/ \E ok, agent \in BOOLEAN : PrepareAuthentication(ok, agent)
  \/ Handshake
  \/ HandshakeFails
  \/ KeyCaptured
  \/ CaptureFails
  \/ \E ok \in BOOLEAN : StartSession(ok)
  \/ SessionEnds
  \/ SessionCancelled
  \/ CloseSFTP
  \/ Close
  \/ \E h \in Hops : KeepaliveCloses(h)

Spec == Init /\ [][Next]_vars

\* Timers and goroutines run, a server that neither stalls nor is gone answers a dial
\* or a session request, and every context but that of an open shell has a deadline.
\* Nothing makes a command end, and nothing a stall.
Fair ==
  /\ WF_vars(ContextEnds /\ ~(call.kind = "shell" /\ call.phase = "running"))
  /\ WF_vars(DialFirst(FALSE) \/ DialFirst(TRUE))
  /\ WF_vars(StartDial)
  /\ WF_vars(DialEnds(FALSE) \/ DialEnds(TRUE))
  /\ WF_vars(DialTaken)
  /\ WF_vars(DialCancelled)
  /\ WF_vars(DialAbandoned)
  /\ WF_vars(AbandonedDialEnds)
  /\ WF_vars(LoadKnownHosts(FALSE) \/ LoadKnownHosts(TRUE))
  /\ WF_vars(\E ok, agent \in BOOLEAN : PrepareAuthentication(ok, agent))
  /\ WF_vars(HandshakeFails \/ CaptureFails)
  /\ WF_vars(StartSession(FALSE) \/ StartSession(TRUE))
  /\ WF_vars(SessionCancelled)
  /\ WF_vars(CloseSFTP)
  /\ WF_vars(Close)
  /\ \A h \in Hops : WF_vars(KeepaliveCloses(h))

FairSpec == Spec /\ Fair

-----------------------------------------------------------------------------
(* Properties. *)

\* A call that returned left nothing open: no connection of any hop, no agent
\* connection, no keepalive; at most a dial it abandoned is still under way.
ReturnsClosed ==
  call.phase = "idle" =>
    /\ keepalive = {}
    /\ \A r \in open : dialer.abandoned /\ dialer.state = "connected"
                         /\ r = <<"raw", dialer.hop>>

\* A hop is authenticated to, and used, only under a key that the operator
\* confirmed for it, whatever keys its server presents before and after.
OnlyConfirmedHosts ==
  /\ known \subseteq confirmed
  /\ \A h \in Hops : accepted[h] # NoKey => <<h, accepted[h]>> \in confirmed
  /\ <<"session", Target>> \in open => \A h \in Hops : accepted[h] # NoKey

\* The requests that no context and no keepalive ends while a server stalls.
HeldByStall == servers = "stall" /\ call.phase \in {"connected", "closing_sftp"}

\* Every call returns, though servers are gone at any point of it or stall while it
\* dials or runs, and what it abandoned is closed; only an open shell may stay.  A
\* server that stalls but answers keepalives holds a call that opens its session, and
\* an upload that closes its file, for ever: transfer closes the file before the
\* connection.
CallsReturn ==
  []<>(\/ call.phase = "idle" /\ dialer = NoDialer
       \/ call.kind = "shell" /\ call.phase = "running"
       \/ HeldByStall)

-----------------------------------------------------------------------------
(* The inductive invariant *)

Connecting == call.phase \in {"dial", "cancelling", "verify", "auth", "handshake"}
Connected  == call.phase \in {"connected", "running", "closing_sftp", "closing"}

\* How far the call has come: the hops before the one it connects to, or all, are
\* authenticated; only a connected call has keepalives, and only one whose session
\* was started has a session.
CallInv ==
  /\ Connecting => call.hop \in Hops /\ \A h \in 1..call.hop - 1 : accepted[h] # NoKey
  /\ Connected => \A h \in Hops : accepted[h] # NoKey
  /\ keepalive # {} => Connected
  /\ <<"session", Target>> \in open => call.phase \in {"running", "closing_sftp", "closing"}

\* The goroutine that dials works for the call's own hop, or was abandoned by a
\* call that returned; a call that was cancelled while it dials has one.
DialInv ==
  /\ IF dialer.state = "none" THEN dialer = NoDialer ELSE dialer.hop > 1
  /\ dialer.abandoned => call.phase = "idle"
  /\ dialer.state # "none" /\ ~dialer.abandoned =>
        call.phase \in {"dial", "cancelling"} /\ call.hop > 1 /\ dialer.hop = call.hop
  /\ call.phase = "cancelling" => dialer.state # "none"

\* What the call trusts was confirmed: the known_hosts it read, and the key the
\* operator asked to trust.
TrustInv ==
  /\ call.file \subseteq confirmed
  /\ call.kind = "trust" => <<Target, call.expected>> \in confirmed

IInv == TypeOK /\ ReturnsClosed /\ OnlyConfirmedHosts /\ CallInv /\ DialInv /\ TrustInv
=============================================================================
