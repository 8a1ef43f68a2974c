------------------------------ MODULE FileCommit ------------------------------
(***************************************************************************)
(* How files are changed: every writer prepares a temporary file beside    *)
(* the target and puts it in place in one step.  Several of them work on   *)
(* one path at the same time - agent edits, the console's editor, uploads, *)
(* downloads, transfers, deletions - and the machine that holds the file   *)
(* may lose power.                                                         *)
(***************************************************************************)
EXTENDS Integers, FiniteSets

CONSTANTS Ops, MaxCrashes   \* operations on the path; bound on power losses

\* "create" and "edit": EditWorkspaceFile; "script": EditRemoteFile on a host;
\* "save": the console's editor; "upload": a new file from the console or from a
\* host; "transfer" and "replace": from host to host, onto nothing or onto one
\* version; "put": the console's SFTP upload; "delete".
Kinds == {"create", "edit", "script", "save", "upload", "transfer", "replace", "put", "delete"}

VARIABLES
    kind, pc,
    base,      \* the content the operation was built from or promised to replace
    flushed,   \* operations whose temporary file was synced
    target,    \* the content of the path; the operations whose data it holds
    durable,   \* the content a power loss leaves
    since,     \* of an operation that looked again: whose data came to the path since
    lost,      \* <<o, by>>: the data of o went from the path when by committed
    crashes

vars == <<kind, pc, base, flushed, target, durable, since, lost, crashes>>

Absent == {"absent"}
Torn   == {"torn"}
Edits  == {"edit", "script"}
Local  == Edits \cup {"create", "save", "upload"}   \* kinds that sync what they write
New    == {"create", "upload", "transfer"}         \* kinds that must not replace
Result(o) == IF kind[o] = "delete" THEN Absent
             ELSE IF kind[o] \in Edits THEN (base[o] \ {"absent"}) \cup {o} ELSE {o}
Data(content) == content \cap Ops

Init ==
    /\ kind \in [Ops -> Kinds] /\ pc = [o \in Ops |-> "idle"]
    /\ base = [o \in Ops |-> Absent]
    /\ flushed = {}
    /\ target \in {Absent, {"first"}} /\ durable = target
    /\ since = [o \in Ops |-> {}] /\ lost = {} /\ crashes = 0

Goto(o, from, to) == pc[o] = from /\ pc' = [pc EXCEPT ![o] = to]
Read(o) == base' = [base EXCEPT ![o] = target]

\* The request names the version it was made for (expected_sha256), as the
\* agent read it; the other kinds are built from what they find.
Request(o) ==
    /\ Goto(o, "idle", "begin") /\ Read(o)
    /\ UNCHANGED <<kind, flushed, target, durable, since, lost, crashes>>

\* The first look at the path.  An edit and a deletion read the file.
BeginNew(o) ==
    /\ kind[o] \in New /\ target = Absent /\ Goto(o, "begin", "write")
    /\ UNCHANGED base
BeginEdit(o) ==
    /\ kind[o] \in Edits /\ target # Absent /\ Goto(o, "begin", "write") /\ Read(o)
BeginSave(o) ==
    /\ kind[o] = "save" /\ target # Absent /\ Goto(o, "begin", "write") /\ UNCHANGED base
BeginReplace(o) ==
    /\ kind[o] = "replace" /\ target # Absent /\ target = base[o]
    /\ Goto(o, "begin", "write") /\ UNCHANGED base
BeginPut(o) ==
    /\ kind[o] = "put" /\ Goto(o, "begin", "write") /\ UNCHANGED base
BeginDelete(o) ==
    /\ kind[o] = "delete" /\ target # Absent /\ Goto(o, "begin", "ready") /\ UNCHANGED base
Begin(o) ==
    /\ BeginNew(o) \/ BeginEdit(o) \/ BeginSave(o) \/ BeginReplace(o) \/ BeginPut(o) \/ BeginDelete(o)
    /\ UNCHANGED <<kind, flushed, target, durable, since, lost, crashes>>

\* Every error before the commit - the path is not what it must be, the block to
\* edit is not there exactly once, the validator refuses, the digest of what was
\* copied is not the approved one, the context ends - removes the temporary file.
Fails(o) ==
    /\ pc[o] \in {"begin", "write", "check", "ready"} /\ pc' = [pc EXCEPT ![o] = "failed"]
    /\ UNCHANGED <<kind, base, flushed, target, durable, since, lost, crashes>>

\* Mutant: the temporary file is not synced.
WriteUnsynced(o) ==
    /\ Goto(o, "write", IF kind[o] \in Edits \cup {"replace"} THEN "check" ELSE "ready")
    /\ UNCHANGED <<kind, base, flushed, target, durable, since, lost, crashes>>

\* The temporary file.  SFTP has no sync.
Write(o) ==
    /\ Goto(o, "write", IF kind[o] \in Edits \cup {"replace"} THEN "check" ELSE "ready")
    /\ flushed' = IF kind[o] \in Local THEN flushed \cup {o} ELSE flushed
    /\ UNCHANGED <<kind, base, target, durable, since, lost, crashes>>

\* Mutant: the path is not looked at again.
LookOnce(o) ==
    /\ Goto(o, "check", "ready")
    /\ since' = [since EXCEPT ![o] = {}]
    /\ UNCHANGED <<kind, base, flushed, target, durable, lost, crashes>>

\* The second look: the path still holds the version the change is for.
Recheck(o) ==
    /\ Goto(o, "check", "ready") /\ target = base[o]
    /\ since' = [since EXCEPT ![o] = {}]
    /\ UNCHANGED <<kind, base, flushed, target, durable, lost, crashes>>

\* Mutant: rename, which replaces, where link or SFTP's rename does not.
CommitOver(o) ==
    /\ Goto(o, "ready", IF kind[o] \in Local \cup {"delete"} THEN "sync" ELSE "done")
    /\ kind[o] = "delete" => target # Absent
    /\ target' = Result(o)
    /\ lost' = lost \cup {<<p, o>> : p \in Data(target) \ target'}
    /\ since' = [p \in Ops |-> since[p] \cup Data(Result(o))]
    /\ UNCHANGED <<kind, base, flushed, durable, crashes>>

\* rename over the path, link or remove it.  SFTP operations are done with it.
Commit(o) ==
    /\ Goto(o, "ready", IF kind[o] \in Local \cup {"delete"} THEN "sync" ELSE "done")
    /\ kind[o] \in New => target = Absent
    /\ kind[o] = "delete" => target # Absent
    /\ target' = Result(o)
    /\ lost' = lost \cup {<<p, o>> : p \in Data(target) \ target'}
    /\ since' = [p \in Ops |-> since[p] \cup Data(Result(o))]
    /\ UNCHANGED <<kind, base, flushed, durable, crashes>>

\* Mutant: the directory is left for the system to write.
SyncNothing(o) ==
    /\ Goto(o, "sync", "done")
    /\ UNCHANGED <<kind, base, flushed, target, durable, since, lost, crashes>>

Sync(o) ==
    /\ Goto(o, "sync", "done") /\ durable' = target
    /\ UNCHANGED <<kind, base, flushed, target, since, lost, crashes>>

\* The directory cannot be synced: an upload takes back what it put there, or
\* what is there by now; an edit has changed the file and reports an error.
SyncFails(o) ==
    /\ Goto(o, "sync", "failed")
    /\ target' = IF kind[o] = "upload" THEN Absent ELSE target
    /\ lost' = lost \cup {<<p, o>> : p \in Data(target) \ target'}
    /\ UNCHANGED <<kind, base, flushed, durable, since, crashes>>

\* A power loss: the old or the new directory entry, and of data that was not
\* synced anything.
PowerLoss ==
    /\ crashes < MaxCrashes /\ crashes' = crashes + 1
    /\ pc' = [o \in Ops |-> IF pc[o] \in {"idle", "done"} THEN pc[o] ELSE "failed"]
    /\ \E content \in {target, durable} :
         /\ \/ target' = content
            \/ Data(content) \ flushed # {} /\ target' = Torn
         /\ durable' = target'
    /\ UNCHANGED <<kind, base, flushed, since, lost>>

Step(o) == Begin(o) \/ Fails(o) \/ Write(o) \/ Recheck(o) \/ Commit(o) \/ Sync(o) \/ SyncFails(o)

\* The handlers: each goes through the steps its kind has.
editWorkspaceFile(o) == kind[o] \in {"create", "edit"} /\ Step(o)
remoteFileChange(o) == kind[o] = "script" /\ Step(o)
SaveAdminWorkspaceTextFile(o) == kind[o] = "save" /\ Step(o)
storeWorkspaceFile(o) == kind[o] = "upload" /\ Step(o)
TransferFile(o) == kind[o] \in {"transfer", "replace"} /\ Step(o)
UploadSFTPFile(o) == kind[o] = "put" /\ Step(o)
deleteWorkspaceEntry(o) == kind[o] = "delete" /\ Step(o)

Next ==
    \/ PowerLoss
    \/ \E o \in Ops :
         \/ Request(o)
         \/ editWorkspaceFile(o) \/ remoteFileChange(o) \/ SaveAdminWorkspaceTextFile(o)
         \/ storeWorkspaceFile(o) \/ TransferFile(o) \/ UploadSFTPFile(o) \/ deleteWorkspaceEntry(o)

Spec == Init /\ [][Next]_vars

-----------------------------------------------------------------------------
(* Properties *)

TypeOK ==
    /\ kind \in [Ops -> Kinds]
    /\ pc \in [Ops -> {"idle", "begin", "write", "check", "ready", "sync", "done", "failed"}]
    /\ base \in [Ops -> SUBSET (Ops \cup {"first", "absent", "torn"})]
    /\ target \in SUBSET (Ops \cup {"first", "absent", "torn"}) /\ durable \in SUBSET (Ops \cup {"first", "absent", "torn"})
    /\ flushed \subseteq Ops /\ since \in [Ops -> SUBSET Ops] /\ lost \subseteq Ops \X Ops
    /\ crashes \in 0 .. MaxCrashes

\* What one operation put into the file goes only where the next one is meant to
\* replace or to delete it.  An edit, or a transfer that names the version it
\* replaces, overwrites nothing it did not see, but for what is committed between
\* its second look and its rename; a new file replaces nothing.  (An upload that
\* cannot sync the directory removes whatever is at its path by then.)
ChangesSurvive ==
    \A pair \in lost :
        LET p == pair[1]  by == pair[2] IN
        \/ kind[by] \in {"save", "put", "delete"}
        \/ kind[by] = "replace" /\ (p \in base[by] \/ p \in since[by])
        \/ kind[by] \in Edits /\ p \in since[by]
        \/ kind[by] = "upload" /\ pc[by] = "failed"

\* Only what has committed replaced anything.
CommittedInv == \A pair \in lost : pc[pair[2]] \in {"sync", "done", "failed"}

\* What a change that may commit would replace, it saw or it came since.
SeenInv ==
    \A o \in Ops : pc[o] = "ready" /\ kind[o] \in Edits \cup {"replace"}
                   => Data(target) \subseteq since[o] \cup base[o]

\* Data at the path of those who sync, or seen there, was synced.
SyncedInv ==
    /\ \A o \in Ops : pc[o] \in {"check", "ready", "sync", "done"} /\ kind[o] \in Local => o \in flushed
    /\ \A p \in Data(target) \cup Data(durable) \cup UNION {Data(base[o]) : o \in Ops} :
          kind[p] \in Local \cup {"delete"} => p \in flushed

\* The directory entry of their data is synced, or an operation that committed is about
\* to sync it or failed to.
EntryInv ==
    \A p \in Data(target) : kind[p] \in Local =>
        p \in durable \/ \E by \in Ops : pc[by] \in {"sync", "failed"} /\ p \in base[by] \cup {by}
TornInv == Torn \in {target, durable} => \E o \in Ops : kind[o] \notin Local \cup {"delete"}

\* The inductive invariant.
IInv ==
    /\ TypeOK /\ CommittedInv /\ ChangesSurvive /\ SeenInv /\ SyncedInv /\ EntryInv /\ TornInv

\* A change that was reported survives a power loss, or was overwritten since;
\* the file is never half of one content.  SFTP cannot promise either.
ReportedChangesAreDurable ==
    /\ \A o \in Ops :
         pc[o] = "done" /\ kind[o] \in Local /\ o \in target =>
             o \in durable \/ \E by \in Ops : pc[by] # "done" /\ o \in since[by] \cup base[by]
    /\ target = Torn => \E o \in Ops : kind[o] \notin Local \cup {"delete"}
=============================================================================
