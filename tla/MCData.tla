------------------------------- MODULE MCData -------------------------------
(* What the service stores and shows: files and edits of them, configuration *)
(* and hosts, skills, logs, history pages, web answers and the context of a  *)
(* turn, checked in one run.  As in MCRemote each behaviour moves one        *)
(* component: focus.  Configuration moves in two instances: with requests    *)
(* that overlap, or with a reload after them.  Hosts move in two ways: one   *)
(* request that writes any of three hosts, or two that overlap and write two *)
(* of them.                                                                  *)
EXTENDS Integers, Sequences, FiniteSets

CONSTANTS
    Writers,                                                      \* FileCommit
    MaxBytes, MaxLines,                                           \* FileText
    Providers, Requests, Reloaders, MaxWrites, MaxReloads,        \* Configuration
    HostIds, HostNames, NameOf, Scope, MaxJumps, PackageSize,     \* HostRegistry
    HostRuns, long, HostRequests,                                 \* long is one of the requests
    RowIds, MaxTime, PageLimit, ScanLimit,                        \* HistoryPages
    Names, Versions, MaxChanges, MaxCrashes,                      \* SkillRegistry
    MaxBackups, MaxSize, MaxRecords, MaxArchives, MaxRestarts,    \* LogFiles
    MaxFaults,
    Size, Limit, ClientLimit, MaxEntries, MaxFilters,             \* LogFeed
    PreserveTurns, HistoryBudget, MaxRows,                        \* ModelContext
    MaxResults, MaxContent, AnswerBytes, Base, PerResult, Slack,  \* WebBudget
    None,
    i1, i2, i3, h1, h2                                            \* hosts and requests of the run

\* Operations have no name that marks a content of a file.
ASSUME CommitBounds == MaxCrashes \in Nat /\ Writers \cap {"first", "absent", "torn"} = {}

\* Contents of a skill are positive numbers, and the registry begins with the first.
ASSUME SkillBounds == MaxFaults \in Nat /\ Versions \subseteq Nat \ {0} /\ 1 \in Versions

\* What is unset is neither a request nor a provider.
ASSUME ConfigurationBounds ==
    /\ MaxWrites \in Nat /\ MaxReloads \in Nat /\ Reloaders \subseteq Requests
    /\ None \notin Requests \cup Providers

VARIABLES
    focus,       \* the component that moves
    operation, place, base, flushed, target, durable, since, lost, powerLosses,
    text, op, result, computed,
    providers, proxyExists, approver, runtime, reviewers, reloading, detections, revision, request,
    clock, acked,
    hosts, hostRequest, begun,
    rows, now, reader, selected, seen,
    skill, backup, staged, change, changeKind, names, version, at, moved, installed, faults,
    before, todo, listed, changes, processEnds,
    file, open, rotation, shift, next, accepted, renameFaults, restarts, entriesListed, archive,
    archives,
    entries, start, logged, filter, previous, payload, shown, filters,
    transcript, written, summary, run, dropped,
    desired, weight, answer

\* Files of five bytes in lines of "a", with or without a byte-order mark, and
\* edits of one or two lines of "a" to up to two lines of "b".
Bytes(n) == UNION {[1 .. k -> {"a", "r", "n"}] : k \in 0 .. n}
Blocks(letter) == UNION {[1 .. k -> {<<>>, <<letter>>}] : k \in 1 .. 2}
MCFiles == Bytes(5) \cup {<<"M">> \o f : f \in Bytes(4)}
MCOldTexts == Blocks("a")
MCNewTexts == Blocks("b") \cup {<<>>}
\* The names of the run's hosts, and what its requests write.
MCNameOf == [id \in {i1, i2, i3} |-> IF id = i1 THEN "x" ELSE IF id = i2 THEN "y" ELSE "z"]
MCScope == [r \in {long, h1, h2} |->
              IF r = long THEN [ids |-> {i1, i2, i3}, names |-> {"x", "y", "z"}]
                          ELSE [ids |-> {i1, i2}, names |-> {"x", "y"}]]

D == INSTANCE FileCommit WITH Ops <- Writers, kind <- operation, pc <- place, crashes <- powerLosses
F == INSTANCE FileText WITH Files <- MCFiles, OldTexts <- MCOldTexts, NewTexts <- MCNewTexts,
        file <- text, done <- computed
C == INSTANCE Configuration WITH MaxReloads <- 0
R == INSTANCE Configuration WITH Requests <- Reloaders
H == INSTANCE HostRegistry WITH Ids <- HostIds, Names <- HostNames, Requests <- HostRequests,
        MaxRequests <- HostRuns, request <- hostRequest
P == INSTANCE HistoryPages WITH Ids <- RowIds, base <- selected
S == INSTANCE SkillRegistry WITH pc <- change, kind <- changeKind, crashes <- processEnds
L == INSTANCE LogFiles WITH pc <- rotation, listed <- entriesListed, faults <- renameFaults
E == INSTANCE LogFeed
M == INSTANCE ModelContext WITH rows <- transcript
B == INSTANCE WebBudget WITH MaxBytes <- AnswerBytes

\* What is missing is no host and no row; no two hosts begin with one name.
ASSUME HostBounds ==
    /\ MaxJumps \in Nat /\ HostRuns \in Nat /\ IsFiniteSet(HostIds) /\ long \in HostRequests
    /\ Scope \in [HostRequests -> [ids : SUBSET HostIds, names : SUBSET HostNames]]
    /\ \A id \in HostIds : NameOf[id] \in HostNames
    /\ \A i, j \in HostIds : NameOf[i] = NameOf[j] => i = j
    /\ None \notin HostIds \cup H!Row

commitVars == <<operation, place, base, flushed, target, durable, since, lost, powerLosses>>
textVars == <<text, op, result, computed>>
configurationVars == <<providers, proxyExists, approver, runtime, reviewers, reloading, detections,
                       revision, request, clock, acked>>
hostVars == <<hosts, hostRequest, begun>>
historyVars == <<rows, now, reader, selected, seen>>
skillVars == <<skill, backup, staged, change, changeKind, names, version, at, moved, installed,
               faults, before, todo, listed, changes, processEnds>>
logVars == <<file, open, rotation, shift, next, accepted, renameFaults, restarts, entriesListed,
             archive, archives>>
feedVars == <<entries, start, logged, filter, previous, payload, shown, filters>>
contextVars == <<transcript, written, summary, run, dropped>>
budgetVars == <<desired, weight, answer>>
recordVars == <<historyVars, skillVars, logVars, feedVars, contextVars, budgetVars>>
vars == <<focus, commitVars, textVars, configurationVars, hostVars, recordVars>>

\* What does not move starts in one of its initial states; one provider is as good
\* as another to be the active one.
Init ==
    /\ focus \in {"commits", "text", "writes", "reloads", "jumps", "requests", "history", "skills",
                  "logs", "feed", "context", "budget"}
    /\ D!Init /\ (focus # "commits" => /\ operation = [o \in Writers |-> "create"]
                                       /\ target = D!Absent)
    /\ C!Init /\ runtime.provider = CHOOSE p \in Providers : TRUE
    /\ H!Init /\ \A id \in HostIds :
                    \/ focus = "jumps" \/ hosts[id] = None
                    \/ focus = "requests" /\ \A r \in HostRequests \ {long} : id \in Scope[r].ids
    /\ P!Init
    /\ S!Init /\ (focus # "skills" => \A n \in Names : skill[n] = S!Absent)
    /\ L!Init /\ E!Init /\ M!Init
    /\ B!Init /\ (focus # "budget" => desired = <<>> /\ weight = 1)
    /\ IF focus = "text" THEN F!Init
       ELSE text = <<>> /\ op = [name |-> "tail", lines |-> 1] /\ result = <<>> /\ computed = FALSE

MoveCommits ==
    /\ focus = "commits" /\ D!Next
    /\ UNCHANGED <<focus, textVars, configurationVars, hostVars, recordVars>>
MoveText ==
    /\ focus = "text" /\ F!Next
    /\ UNCHANGED <<focus, commitVars, configurationVars, hostVars, recordVars>>
MoveConfiguration ==
    /\ (focus = "writes" /\ C!Next) \/ (focus = "reloads" /\ R!Next)
    /\ UNCHANGED <<focus, commitVars, textVars, hostVars, recordVars>>
MoveHosts ==
    /\ \/ focus = "jumps" /\ begun' = 1 /\ H!Step(long)
       \/ focus = "requests" /\ \E r \in HostRequests \ {long} : H!Step(r)
    /\ UNCHANGED <<focus, commitVars, textVars, configurationVars, recordVars>>
Rest == <<focus, commitVars, textVars, configurationVars, hostVars>>
MoveHistory ==
    /\ focus = "history" /\ P!Next
    /\ UNCHANGED <<Rest, skillVars, logVars, feedVars, contextVars, budgetVars>>
MoveSkills ==
    /\ focus = "skills" /\ S!Next
    /\ UNCHANGED <<Rest, historyVars, logVars, feedVars, contextVars, budgetVars>>
MoveLogs ==
    /\ focus = "logs" /\ L!Next
    /\ UNCHANGED <<Rest, historyVars, skillVars, feedVars, contextVars, budgetVars>>
MoveFeed ==
    /\ focus = "feed" /\ E!Next
    /\ UNCHANGED <<Rest, historyVars, skillVars, logVars, contextVars, budgetVars>>
MoveContext ==
    /\ focus = "context" /\ M!Next
    /\ UNCHANGED <<Rest, historyVars, skillVars, logVars, feedVars, budgetVars>>
MoveBudget ==
    /\ focus = "budget" /\ B!Next
    /\ UNCHANGED <<Rest, historyVars, skillVars, logVars, feedVars, contextVars>>

Next ==
    \/ MoveCommits \/ MoveText \/ MoveConfiguration \/ MoveHosts \/ MoveHistory
    \/ MoveSkills \/ MoveLogs \/ MoveFeed \/ MoveContext \/ MoveBudget
Spec == Init /\ [][Next]_vars

-----------------------------------------------------------------------------
(* Properties: each the conjunction of what the components state, looked at *)
(* while they move.                                                         *)

\* A change of a file on this host that was reported survives a power loss (SFTP cannot
\* promise it).  An edit replaces none that it did not know of, but for what is committed
\* between its last look and its rename; a save, an SFTP write and a deletion replace what
\* is there.  An import of skills that is
\* answered, or of which only the reading back failed, is in place as a whole, and so
\* is a save or a switch; one whose one failing call came before is undone.  No
\* import of which at most one call has failed loses a skill while it runs; what
\* the process leaves behind when it ends there stays as it is.  Lists are of one
\* state (workspace.go, files.go, registry.go).
ChangesAreWhole ==
    /\ D!TypeOK /\ D!ChangesSurvive /\ D!ReportedChangesAreDurable
    /\ S!TypeOK /\ S!ImportsAreWhole /\ S!NoSkillIsLost /\ S!ListsAreConsistent

\* What the agent runs includes every change of the configuration whose request
\* reloaded it and was answered, its reviewers come from the same reload, at most one
\* provider is active, a detected window is of the model that runs, and a deletion
\* never takes a proxy that is referenced at that moment; no import breaks a reference
\* between hosts, and what is connected to goes through enabled hosts, without a loop
\* (runtime.go, configuration.go, ssh.go).
ConfigurationSafe ==
    /\ [](/\ C!OneActiveProvider /\ C!ReloadedWritesAreInstalled /\ C!ReviewersFollowRunner
          /\ C!WindowIsOfTheModel /\ C!TypeOK)
    /\ [](focus \in {"jumps", "requests"} => /\ H!TypeOK /\ H!ImportKeepsReferences
                                             /\ H!AgentHostsCanLogIn /\ H!ConnectionsAreSound)
    /\ C!ReferencedProxyStays /\ H!ImportBreaksNoHost /\ H!ImportedReferencesExist

\* A summary meets the transcript without a gap or an overlap, and a run is told, once,
\* every row stored before it for which the history budget has room, in a turn or in
\* the summary; what is returned of the web fits the budget, fairly shared (context.go,
\* context_summarization.go, websearch.go).
ContextSafe ==
    /\ focus = "context" => M!TypeOK /\ M!SummaryMeetsTranscript /\ M!BoundaryStays /\ M!RunsAreToldAll
    /\ focus = "budget" => B!SharesAreFair /\ B!AnswerFits

\* A caller that follows the cursor sees every row its filter selects, once; the log
\* files hold the latest records in order, and the page of the log shows the recent
\* ones; pages, tails, searches and streamed output of a file are of its bytes, and
\* an edit replaces the one block that was approved and nothing else, here and, for
\* plain texts, on a host (store.go, logging.go, files.go).
RecordsComplete ==
    /\ focus = "history" => P!TypeOK /\ P!NoRowTwice /\ P!PagesAreComplete
    /\ focus = "logs" => L!TypeOK /\ L!FilesAreTheLatestRecords /\ L!ArchiveIsInOrder
    /\ focus = "feed" => E!TypeOK /\ E!PageShowsRecent
    /\ focus = "text" => /\ F!EditIsTheApprovedOne /\ F!RemoteEditAgrees
                        /\ F!ReadsAreExact /\ F!OutputKeepsItsLines

\* files.go:263: the approved lines are located and the original bytes spliced, so that
\* byte-order mark, line endings and final newline stay.
RemoteEditIsTheApprovedOne == F!RemoteEditIsTheApprovedOne
=============================================================================
