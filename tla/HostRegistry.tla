---------------------------- MODULE HostRegistry ----------------------------
(***************************************************************************)
(* The SSH hosts and the ProxyJump chains between them                     *)
(* (internal/service/service.go, configuration.go and ssh.go,              *)
(* internal/store/store.go and configuration.go).                          *)
(*                                                                         *)
(* Saving, deleting and importing hosts read the registry, decide, and     *)
(* write in a later statement, with no lock between; a connection is       *)
(* resolved by reading one row after another.  A configuration package     *)
(* comes from anywhere: its ids and names are matched with those of the    *)
(* registry, its references follow, and it is written in one transaction.  *)
(*                                                                         *)
(* Hosts refer to their jump host by id.  Proxies are part of              *)
(* Configuration.tla; the rows of local workspaces are not modelled.       *)
(***************************************************************************)
EXTENDS Naturals, Sequences, FiniteSets

CONSTANTS
    Ids,            \* ids of hosts
    Names,          \* names of hosts
    NameOf,         \* [Ids -> Names]: the names the registry begins with
    Requests,       \* concurrent requests
    Scope,          \* [Requests -> [ids, names]]: bound on what a request writes
    None,           \* no row, no jump host
    MaxJumps,       \* maxProxyJumpDepth
    PackageSize,    \* bound on the hosts of a package
    MaxRequests     \* bound on the requests of an execution

VARIABLES
    hosts,          \* table hosts
    request,        \* the requests' local state
    begun           \* number of requests so far

vars == <<hosts, request, begun>>

Refs == Ids \cup {None}
Row == [name : Names, jump : Refs, auth : {"agent", "key"}, key : BOOLEAN, agent : BOOLEAN]
Entry == [name : Names, jump : Refs]
Packages(r) ==
    UNION {[S -> [name : Scope[r].names, jump : Scope[r].ids \cup {None}]] :
             S \in {S \in SUBSET Scope[r].ids : Cardinality(S) \in 1..PackageSize}}

\* How the hosts of a package log in: through ssh-agent, or with a key that
\* the package holds or leaves out.
Logins == {"agent", "keyIncluded", "keyLeftOut"}

Present(table) == {id \in Ids : table[id] # None}
UniqueNames(table) == \A i, j \in Present(table) : table[i].name = table[j].name => i = j

Empty == [id \in {} |-> None]
Idle == [pc |-> "idle", target |-> None, row |-> None, rows |-> Empty,
         package |-> Empty, chain |-> <<>>, untouched |-> FALSE]

Init ==
    /\ \E present \in SUBSET Ids, jumps \in [Ids -> Refs] :
        /\ \A id \in Ids : jumps[id] # id /\ (id \notin present => jumps[id] = None)
        /\ hosts = [id \in Ids |->
             IF id \notin present THEN None
             ELSE [name |-> NameOf[id], jump |-> jumps[id], auth |-> "agent", key |-> FALSE, agent |-> TRUE]]
    /\ request = [r \in Requests |-> Idle]
    /\ begun = 0

-----------------------------------------------------------------------------
(* Requests. *)

Free(r) == request[r].pc = "idle" /\ begun < MaxRequests

Begin(r, local) ==
    /\ begun' = begun + 1
    /\ request' = [request EXCEPT ![r] = local]
    /\ UNCHANGED hosts

\* Any statement of the database may fail, and every check that finds
\* something wrong ends the request.
Refused(r) ==
    /\ request[r].pc \notin {"idle", "resolved"}
    /\ request' = [request EXCEPT ![r] = Idle]
    /\ UNCHANGED <<hosts, begun>>

\* Writing a row: the requests that read the table before have read other rows.
Write(r, table) ==
    /\ hosts' = table
    /\ request' = [q \in Requests |->
                     IF q = r THEN Idle ELSE [request[q] EXCEPT !.untouched = FALSE]]
    /\ UNCHANGED begun

-----------------------------------------------------------------------------
(* SaveHost: the row is built from the row read first, checked against the *)
(* jump host read next, and written whole.  Saving a row that was deleted  *)
(* meanwhile inserts it again.                                             *)

SaveReads(r, id, input, upload) ==
    LET existing == hosts[id]
        key == input.auth = "key" /\ (upload \/ (existing # None /\ existing.key))
    IN  /\ Free(r)
        /\ input.auth = "key" => key
        /\ input.jump # id
        /\ Begin(r, [Idle EXCEPT !.pc = "saving", !.target = id,
                                 !.row = [input EXCEPT !.key = key]])

SaveChecksJump(r) ==
    LET row == request[r].row
    IN  /\ request[r].pc = "saving"
        /\ row.jump # None => hosts[row.jump] # None
        /\ request' = [request EXCEPT ![r].pc = "upserting"]
        /\ UNCHANGED <<hosts, begun>>

UpsertHost(r) ==
    LET table == [hosts EXCEPT ![request[r].target] = request[r].row]
    IN  /\ request[r].pc = "upserting"
        /\ UniqueNames(table)
        /\ Write(r, table)

-----------------------------------------------------------------------------
(* DeleteHost. *)

Unused(table, id) == \A i \in Present(table) : table[i].jump # id

DeleteChecks(r, id) ==
    /\ Free(r)
    /\ Unused(hosts, id)
    /\ Begin(r, [Idle EXCEPT !.pc = "deleting", !.target = id])

DeleteHost(r) ==
    /\ request[r].pc = "deleting"
    /\ hosts[request[r].target] # None
    /\ Write(r, [hosts EXCEPT ![request[r].target] = None])

-----------------------------------------------------------------------------
(* ImportConfiguration. *)

\* resolveConfigurationIDs: a known id keeps its row, else the name finds one.
Target(package, id) ==
    LET named == {i \in Present(hosts) : hosts[i].name = package[id].name}
    IN  IF hosts[id] = None /\ named # {} THEN CHOOSE i \in named : TRUE ELSE id

Targets(package) == {Target(package, id) : id \in DOMAIN package}

DistinctNames(package) ==
    \A i, j \in DOMAIN package : i # j => package[i].name # package[j].name

DistinctTargets(package) ==
    /\ DistinctNames(package)
    /\ Cardinality(Targets(package)) = Cardinality(DOMAIN package)

Resolvable(package) ==
    /\ DistinctTargets(package)
    /\ \A id \in DOMAIN package : \A h \in Present(hosts) :
         hosts[h].name = package[id].name => h = Target(package, id)

\* remapConfigurationReference
Remap(package, ref) == IF ref \in DOMAIN package THEN Target(package, ref) ELSE ref

RemapDefined(package, ref) == ref \in DOMAIN package \cup Present(hosts) \cup {None}

\* prepareImportedHost: credentials that the package leaves out are those the
\* row has; a host without its credential is withheld from the Agent.
AgentEnabled(login, key) == login # "agent" => key

Prepared(package, login, id) ==
    LET target == Target(package, id)
        existing == hosts[target]
        key == \/ login = "keyIncluded"
               \/ login = "keyLeftOut" /\ existing # None /\ existing.key
    IN  [name |-> package[id].name, jump |-> Remap(package, package[id].jump),
         auth |-> IF login = "agent" THEN "agent" ELSE "key",
         key |-> key, agent |-> AgentEnabled(login, key)]

PreparedRows(package, login) ==
    [t \in Targets(package) |->
       Prepared(package, login, CHOOSE id \in DOMAIN package : Target(package, id) = t)]

Imported(rows) == [id \in Ids |-> IF id \in DOMAIN rows THEN rows[id] ELSE hosts[id]]

\* validateConfigurationHostGraph: every host's chain is walked; what is wrong
\* with it counts only once the walk has met an imported host.
MeetsAtStart(imported, id) == FALSE

Meets(imported, id) == id \in imported

\* The ids that are met from a host on, None behind the end or a missing row.
Walk(table, start) ==
    LET hop[n \in 0..MaxJumps + 1] ==
          IF n = 0 THEN start
          ELSE IF hop[n - 1] = None \/ table[hop[n - 1]] = None THEN None ELSE table[hop[n - 1]].jump
    IN  hop

WalkAccepts(table, imported, start) ==
    LET walk == Walk(table, start)
        path == [n \in 0..MaxJumps + 1 |-> walk[n]]
        Wrong(n) == \/ n = MaxJumps + 1
                    \/ table[path[n]] = None
                    \/ \E m \in 0..n - 1 : path[m] = path[n]
        wrong == {n \in 1..MaxJumps + 1 : path[n] # None /\ Wrong(n)}
    IN  \A n \in wrong :
          \/ \E m \in wrong : m < n
          \/ \A m \in 0..n - 1 : ~Meets(imported, path[m])

GraphAccepted(table, imported) ==
    \A id \in Present(table) : WalkAccepts(table, imported, id)

\* Snapshot, matching, preparation and validation see the same rows.
ImportReads(r, package, login) ==
    LET rows == PreparedRows(package, login)
        table == Imported(rows)
    IN  /\ Free(r)
        /\ Resolvable(package)
        /\ \A id \in DOMAIN package : RemapDefined(package, package[id].jump)
        /\ \A t \in DOMAIN rows : rows[t].jump # t
        /\ GraphAccepted(table, DOMAIN rows)
        /\ Begin(r, [Idle EXCEPT !.pc = "applying", !.package = package,
                                 !.rows = rows, !.untouched = TRUE])

\* ApplyConfiguration: requireConfigurationReference reads in the transaction.
ReferenceExists(table, ref) == ref # None => table[ref] # None

ApplyConfiguration(r) ==
    LET rows == request[r].rows
        table == Imported(rows)
    IN  /\ request[r].pc = "applying"
        /\ UniqueNames(table)
        /\ \A t \in DOMAIN rows : ReferenceExists(table, rows[t].jump)
        /\ Write(r, table)

-----------------------------------------------------------------------------
(* resolveSSHConnection: the chain is read host by host; requireAgentSSH-  *)
(* Access looks at the rows read.                                          *)

ResolveTarget(r, id) ==
    /\ Free(r)
    /\ hosts[id] # None
    /\ Begin(r, [Idle EXCEPT !.pc = "resolving", !.target = id,
                             !.chain = <<[id |-> id, row |-> hosts[id]]>>])

Read(chain) == {chain[n].id : n \in DOMAIN chain}
NextJump(chain) == chain[Len(chain)].row.jump

NewTo(chain, id) == id \notin Read(chain)

ResolveJump(r) ==
    LET chain == request[r].chain
        jump == NextJump(chain)
    IN  /\ request[r].pc = "resolving"
        /\ jump # None
        /\ Len(chain) - 1 < MaxJumps
        /\ hosts[jump] # None
        /\ NewTo(chain, jump)
        /\ request' = [request EXCEPT ![r].chain = Append(chain, [id |-> jump, row |-> hosts[jump]])]
        /\ UNCHANGED <<hosts, begun>>

TargetEnabled(chain) == chain[1].row.agent

AllEnabled(chain) == \A n \in DOMAIN chain : chain[n].row.agent

ResolveEnds(r) ==
    /\ request[r].pc = "resolving"
    /\ NextJump(request[r].chain) = None
    /\ AllEnabled(request[r].chain)
    /\ request' = [request EXCEPT ![r].pc = "resolved"]
    /\ UNCHANGED <<hosts, begun>>

-----------------------------------------------------------------------------
Inputs(r) == [name : Scope[r].names, jump : Scope[r].ids \cup {None}, auth : {"agent", "key"},
              key : {FALSE}, agent : BOOLEAN]

Step(r) ==
    \/ \E id \in Scope[r].ids, input \in Inputs(r), upload \in BOOLEAN : SaveReads(r, id, input, upload)
    \/ SaveChecksJump(r) \/ UpsertHost(r)
    \/ \E id \in Scope[r].ids : DeleteChecks(r, id)
    \/ DeleteHost(r)
    \/ \E package \in Packages(r), login \in Logins : ImportReads(r, package, login)
    \/ ApplyConfiguration(r)
    \/ \E id \in Scope[r].ids : ResolveTarget(r, id)
    \/ ResolveJump(r) \/ ResolveEnds(r) \/ Refused(r)

Next == \E r \in Requests : Step(r)
Spec == Init /\ [][Next]_vars

-----------------------------------------------------------------------------
(* Properties. *)

Pcs == {"idle", "saving", "upserting", "deleting", "applying", "resolving", "resolved"}

TypeOK ==
    /\ hosts \in [Ids -> Row \cup {None}]
    /\ UniqueNames(hosts)
    /\ begun \in 0..MaxRequests
    /\ \A r \in Requests : request[r].pc \in Pcs

\* A package keeps its references: whatever rows its hosts are matched with, a
\* host that jumps over another host of the package jumps over the row of that
\* host (configuration.go, ImportConfiguration; "配置...保留代理及 ProxyJump 引用").
KeepsReferences(local) == local.pc = "applying" =>
    LET rows == local.rows
        package == local.package
    IN  \A id \in DOMAIN package : \E t \in DOMAIN rows :
          /\ rows[t].name = package[id].name
          /\ package[id].jump \in DOMAIN package =>
               /\ rows[t].jump \in DOMAIN rows
               /\ rows[rows[t].jump].name = package[package[id].jump].name
ImportKeepsReferences == \A r \in Requests : KeepsReferences(request[r])

\* A host whose chain of jump hosts can be resolved.
Chain(table, chain, n) ==
    /\ \A m \in 0..n : table[chain[m]] # None
    /\ \A m \in 1..n : table[chain[m - 1]].jump = chain[m]
    /\ table[chain[n]].jump = None
Connects(table, id) ==
    \E n \in 0..MaxJumps : \E chain \in [0..n -> Ids] : chain[0] = id /\ Chain(table, chain, n)

\* An import that nothing interrupts breaks no connection: imported hosts can
\* be resolved, and so can every host that could be before
\* (configuration.go, validateConfigurationHostGraph).
ImportKeepsConnections ==
    \A r \in Requests : ApplyConfiguration(r) /\ request[r].untouched =>
        \A id \in Present(hosts') :
            id \in DOMAIN request[r].rows \/ (hosts[id] # None /\ Connects(hosts, id)) => Connects(hosts', id)
ImportBreaksNoHost == [][ImportKeepsConnections]_vars

\* Even when hosts are saved and deleted meanwhile, an import leaves no
\* imported host with a jump host that does not exist
\* (store/configuration.go, ApplyConfiguration).
ImportRefersToRows ==
    \A r \in Requests : ApplyConfiguration(r) =>
        \A t \in DOMAIN request[r].rows :
            hosts'[t].jump # None => hosts'[hosts'[t].jump] # None
ImportedReferencesExist == [][ImportRefersToRows]_vars

\* A host the Agent may use can log in: whichever way its row came about, one
\* that logs in with a key has it (SaveHost, prepareImportedHost).
CanLogIn(row) == row.agent /\ row.auth = "key" => row.key
AgentHostsCanLogIn == \A id \in Present(hosts) : CanLogIn(hosts[id])

\* A connection that was resolved while rows changed still passes no host
\* twice, no more jump hosts than allowed and none withheld from the Agent
\* (ssh.go, resolveSSHConnection and requireAgentSSHAccess).
ConnectionsAreSound ==
    \A r \in Requests : request[r].pc = "resolved" =>
        LET chain == request[r].chain
        IN  /\ Cardinality(Read(chain)) = Len(chain)
            /\ Len(chain) <= MaxJumps + 1
            /\ \A n \in DOMAIN chain : chain[n].row.agent

(* The inductive invariant. *)

Locals == [pc : Pcs, target : Refs, row : Row \cup {None}, rows : UNION {[S -> Row] : S \in SUBSET Ids},
           package : UNION {[S -> Entry] : S \in SUBSET Ids}, chain : Seq([id : Ids, row : Row]),
           untouched : BOOLEAN]
Typed == TypeOK /\ request \in [Requests -> Locals]

\* A row that will be written has a host to be written to and can log in.
HasRows(local) ==
    /\ local.pc \in {"saving", "upserting"} =>
          local.target \in Ids /\ local.row \in Row /\ CanLogIn(local.row)
    /\ local.pc = "deleting" => local.target \in Ids
    /\ local.pc = "applying" => \A t \in DOMAIN local.rows : CanLogIn(local.rows[t])

\* A chain that is being read passes no host twice and is not too long.
HasChain(local) == local.pc \in {"resolving", "resolved"} =>
    /\ Len(local.chain) \in 1..MaxJumps + 1
    /\ IsFiniteSet(Read(local.chain)) /\ Cardinality(Read(local.chain)) = Len(local.chain)
    /\ local.pc = "resolved" => AllEnabled(local.chain)

\* The graph of an import is valid as long as no row was written since it was read.
Validated(local) == local.pc = "applying" /\ local.untouched =>
    GraphAccepted(Imported(local.rows), DOMAIN local.rows)

IInv ==
    /\ Typed /\ AgentHostsCanLogIn /\ ImportKeepsReferences
    /\ \A r \in Requests : HasRows(request[r]) /\ HasChain(request[r]) /\ Validated(request[r])
=============================================================================
