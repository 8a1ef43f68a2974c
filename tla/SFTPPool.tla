------------------------------ MODULE SFTPPool ------------------------------
(***************************************************************************)
(* The pool of SSH connections the SFTP operations of one host share       *)
(* (NativeSSHTransport.acquireSFTPConnection and its callers).  An entry   *)
(* is inserted before it is connected, is used by several callers at once, *)
(* is dropped when it is found stale, and expires when nobody has used it  *)
(* for a while; the transport may be closed under all of them.             *)
(***************************************************************************)
EXTENDS Integers, FiniteSets

CONSTANTS
    Callers,     \* SFTP operations
    Entries,     \* pool entries ever made, numbered in the order of their creation
    Nobody       \* no entry

VARIABLES
    pc,          \* the operation's place in openSFTP
    lease,       \* the entry it waits for, connects or uses
    retried,     \* operations in the second attempt of openSFTP
    pool,        \* sftpPool[key]: an entry or Nobody
    client,      \* "none", "open" or "closed": entry.client
    ready,       \* entries whose ready channel is closed
    refs, stale,
    timer,       \* entry.idleTimer is set
    firing,      \* timers that fired and wait for sftpPoolMu, per entry
    done         \* sftpPoolDone

vars == <<pc, lease, retried, pool, client, ready, refs, stale, timer, firing, done>>
entry == <<client, ready, refs, stale, timer, firing>>

Init ==
    /\ pc = [c \in Callers |-> "idle"] /\ lease = [c \in Callers |-> Nobody]
    /\ retried = {}
    /\ pool = Nobody
    /\ client = [e \in Entries |-> "none"] /\ ready = {}
    /\ refs = [e \in Entries |-> 0] /\ stale = {}
    /\ timer = {} /\ firing = [e \in Entries |-> 0]
    /\ done = FALSE

Goto(c, from, to) == pc[c] = from /\ pc' = [pc EXCEPT ![c] = to]
Made == {e \in Entries : e = pool \/ client[e] # "none" \/ e \in ready \/ \E c \in Callers : lease[c] = e}
Fresh == {e \in Entries : \A f \in Made : f < e}

Begin(c) ==
    /\ Goto(c, "idle", "acquire")
    /\ UNCHANGED <<lease, retried, pool, entry, done>>

AcquireClosed(c) ==
    /\ Goto(c, "acquire", "failed") /\ done
    /\ UNCHANGED <<lease, retried, pool, entry, done>>

\* The first caller inserts an entry without a client and connects it unlocked.
InsertPlaceholder(c) ==
    /\ Goto(c, "acquire", "connect") /\ ~done /\ pool = Nobody
    /\ \E e \in Fresh : (\A f \in Fresh : e <= f) /\ pool' = e /\ lease' = [lease EXCEPT ![c] = e]
    /\ UNCHANGED <<retried, entry, done>>

\* Mutant: the waiters are not told of the failure.
ConnectFailsSilently(c) ==
    /\ Goto(c, "connect", "failed")
    /\ pool' = IF pool = lease[c] THEN Nobody ELSE pool
    /\ lease' = [lease EXCEPT ![c] = Nobody]
    /\ UNCHANGED <<retried, entry, done>>

ConnectFails(c) ==
    /\ Goto(c, "connect", "failed")
    /\ pool' = IF pool = lease[c] THEN Nobody ELSE pool
    /\ ready' = ready \cup {lease[c]}
    /\ lease' = [lease EXCEPT ![c] = Nobody]
    /\ UNCHANGED <<retried, client, refs, stale, timer, firing, done>>

\* Connected, but the transport was closed meanwhile: the new client is closed.
ConnectedTooLate(c) ==
    /\ Goto(c, "connect", "failed")
    /\ done \/ pool # lease[c]
    /\ ready' = ready \cup {lease[c]}
    /\ lease' = [lease EXCEPT ![c] = Nobody]
    /\ UNCHANGED <<retried, pool, client, refs, stale, timer, firing, done>>

Connected(c) ==
    LET e == lease[c] IN
    /\ Goto(c, "connect", "open") /\ ~done /\ pool = e
    /\ client' = [client EXCEPT ![e] = "open"]
    /\ refs' = [refs EXCEPT ![e] = 1]
    /\ ready' = ready \cup {e}
    /\ UNCHANGED <<lease, retried, pool, stale, timer, firing, done>>

JoinWaiting(c) ==
    /\ Goto(c, "acquire", "wait") /\ ~done /\ pool # Nobody
    /\ client[pool] = "none"
    /\ lease' = [lease EXCEPT ![c] = pool]
    /\ UNCHANGED <<retried, pool, entry, done>>

Woken(c) ==
    /\ Goto(c, "wait", "acquire") /\ lease[c] \in ready
    /\ lease' = [lease EXCEPT ![c] = Nobody]
    /\ UNCHANGED <<retried, pool, entry, done>>

WaitCancelled(c) ==
    /\ Goto(c, "wait", "failed")
    /\ lease' = [lease EXCEPT ![c] = Nobody]
    /\ UNCHANGED <<retried, pool, entry, done>>

\* The connection is there: stop its idle timer, which may have fired already,
\* and count one more user.
Share(c) ==
    /\ Goto(c, "acquire", "open") /\ ~done /\ pool # Nobody
    /\ client[pool] # "none" /\ pool \notin stale
    /\ timer' = timer \ {pool}
    /\ refs' = [refs EXCEPT ![pool] = @ + 1]
    /\ lease' = [lease EXCEPT ![c] = pool]
    /\ UNCHANGED <<retried, pool, client, ready, stale, firing, done>>

\* sftp.NewClient on the shared connection succeeded: the operation has its lease.
OpenSession(c) ==
    /\ Goto(c, "open", "use") /\ client[lease[c]] = "open"
    /\ UNCHANGED <<lease, retried, pool, entry, done>>

\* Mutant: a stale connection is closed at once, whoever else uses it.
ReleaseClosing(e, isStale) ==
    /\ refs' = [refs EXCEPT ![e] = @ - 1]
    /\ stale' = IF isStale THEN stale \cup {e} ELSE stale
    /\ pool' = IF isStale /\ pool = e THEN Nobody ELSE pool
    /\ client' = [client EXCEPT ![e] = IF e \in stale' THEN "closed" ELSE @]
    /\ timer' = IF refs'[e] = 0 /\ e \notin stale' THEN timer \cup {e} ELSE timer
    /\ UNCHANGED <<ready, firing, done>>

\* releaseSFTPConnection of entry e, found stale or not.
ReleaseEntry(e, isStale) ==
    /\ refs' = [refs EXCEPT ![e] = @ - 1]
    /\ stale' = IF isStale THEN stale \cup {e} ELSE stale
    /\ pool' = IF isStale /\ pool = e THEN Nobody ELSE pool
    /\ client' = [client EXCEPT ![e] = IF refs'[e] = 0 /\ e \in stale' THEN "closed" ELSE @]
    /\ timer' = IF refs'[e] = 0 /\ e \notin stale' THEN timer \cup {e} ELSE timer
    /\ UNCHANGED <<ready, firing, done>>

\* No session can be opened on it: released as stale, and one more attempt.
OpenFails(c) ==
    /\ Goto(c, "open", IF c \in retried THEN "failed" ELSE "acquire")
    /\ retried' = retried \cup {c}
    /\ ReleaseEntry(lease[c], TRUE)
    /\ lease' = [lease EXCEPT ![c] = Nobody]

\* sftpLease.Close, once: the operation ended, failed or was cancelled.
CloseLease(c) ==
    /\ Goto(c, "use", "done")
    /\ ReleaseEntry(lease[c], FALSE)
    /\ lease' = [lease EXCEPT ![c] = Nobody]
    /\ UNCHANGED retried

\* (At most one timer of an entry has fired and not run: idleTimeout lies between two.)
TimerFires(e) ==
    /\ e \in timer /\ firing[e] = 0
    /\ firing' = [firing EXCEPT ![e] = @ + 1]
    /\ UNCHANGED <<pc, lease, retried, pool, client, ready, refs, stale, timer, done>>

\* Mutant: the timer's goroutine does not look at the users.
ExpireInUse(e) ==
    /\ firing[e] > 0
    /\ firing' = [firing EXCEPT ![e] = @ - 1]
    /\ timer' = timer \ {e}
    /\ IF pool = e
         THEN /\ pool' = Nobody /\ stale' = stale \cup {e}
              /\ client' = [client EXCEPT ![e] = "closed"]
         ELSE UNCHANGED <<pool, stale, client>>
    /\ UNCHANGED <<pc, lease, retried, ready, refs, done>>

Expire(e) ==
    /\ firing[e] > 0
    /\ firing' = [firing EXCEPT ![e] = @ - 1]
    /\ timer' = timer \ {e}
    /\ IF refs[e] = 0 /\ pool = e
         THEN /\ pool' = Nobody /\ stale' = stale \cup {e}
              /\ client' = [client EXCEPT ![e] = "closed"]
         ELSE UNCHANGED <<pool, stale, client>>
    /\ UNCHANGED <<pc, lease, retried, ready, refs, done>>

\* NativeSSHTransport.Close.
CloseTransport ==
    /\ ~done /\ done' = TRUE
    /\ pool' = Nobody
    /\ IF pool = Nobody THEN UNCHANGED entry
       ELSE /\ stale' = stale \cup {pool}
            /\ timer' = timer \ {pool}
            /\ client' = [client EXCEPT ![pool] = IF @ = "none" THEN @ ELSE "closed"]
            /\ ready' = ready \cup {pool}
            /\ UNCHANGED <<refs, firing>>
    /\ UNCHANGED <<pc, lease, retried>>

Step(c) ==
    \/ AcquireClosed(c) \/ InsertPlaceholder(c) \/ ConnectFails(c) \/ ConnectedTooLate(c)
    \/ Connected(c) \/ JoinWaiting(c) \/ Woken(c) \/ Share(c)
    \/ OpenSession(c) \/ OpenFails(c) \/ CloseLease(c)

Next ==
    \/ \E c \in Callers : Begin(c) \/ Step(c) \/ WaitCancelled(c)
    \/ \E e \in Entries : TimerFires(e) \/ Expire(e)
    \/ CloseTransport

\* Connecting ends (nativeConnectTimeout), operations end, timers fire and a
\* goroutine that can go on does.
Fair ==
    /\ \A c \in Callers : WF_vars(Step(c))
    /\ \A e \in Entries : WF_vars(TimerFires(e)) /\ WF_vars(Expire(e))
Spec == Init /\ [][Next]_vars
FairSpec == Spec /\ Fair

-----------------------------------------------------------------------------
(* Properties *)

Users(e) == {c \in Callers : pc[c] \in {"open", "use"} /\ lease[c] = e}

TypeOK ==
    /\ pc \in [Callers -> {"idle", "acquire", "connect", "wait", "open", "use", "done", "failed"}]
    /\ lease \in [Callers -> Entries \cup {Nobody}] /\ retried \subseteq Callers
    /\ pool \in Entries \cup {Nobody}
    /\ client \in [Entries -> {"none", "open", "closed"}]
    /\ refs \in [Entries -> 0 .. Cardinality(Callers)]
    /\ ready \subseteq Entries /\ stale \subseteq Entries /\ timer \subseteq Entries
    /\ firing \in [Entries -> 0 .. 2] /\ done \in BOOLEAN

\* A connection is closed under its users only by the transport's own Close:
\* neither a caller that finds it stale nor an idle timer that fired before it
\* was shared again takes it from the others.
UsersKeepConnection ==
    \A e \in Entries : Users(e) # {} => client[e] = "open" \/ done

\* Every open connection will be closed: it has users, or it is the pool's and
\* its idle timer runs, and the count of its users is true.  The pool never
\* offers an entry that was found stale.
NoConnectionLost ==
    /\ pool \notin stale
    /\ \A e \in Entries :
       /\ refs[e] = Cardinality(Users(e))
       /\ client[e] = "open" /\ Users(e) = {} => pool = e /\ (e \in timer \/ firing[e] > 0)

\* Whoever waits for another caller's connection goes on, also when connecting
\* failed or the transport was closed.
WaitersGoOn == \A c \in Callers : []<>(pc[c] # "wait")

\* What is not used is closed in the end.
IdleCloses ==
    \A e \in Entries : []<>(client[e] = "open" => Users(e) # {})

-----------------------------------------------------------------------------
(* The inductive invariant *)

\* Who has an entry, and what is known of it there: whoever connects does so
\* alone, on an entry that has no client yet; whoever uses one found its client.
LeaseInv ==
    \A c \in Callers :
        /\ lease[c] # Nobody <=> pc[c] \in {"connect", "wait", "open", "use"}
        /\ pc[c] = "connect" =>
              /\ client[lease[c]] = "none"
              /\ \A d \in Callers : pc[d] = "connect" /\ lease[d] = lease[c] => d = c
        /\ pc[c] \in {"open", "use"} => client[lease[c]] # "none"

\* What was closed is stale, what is stale was made, what is open and not stale
\* is the pool's, and only what was connected has a timer.
EntryInv ==
    \A e \in Entries :
        /\ client[e] = "closed" => e \in stale
        /\ e \in stale => client[e] # "none" \/ e \in ready
        /\ client[e] = "open" /\ e \notin stale => pool = e
        /\ e \in timer \/ firing[e] > 0 => client[e] # "none"

IInv == TypeOK /\ UsersKeepConnection /\ NoConnectionLost /\ LeaseInv /\ EntryInv
=============================================================================
