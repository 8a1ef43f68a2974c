--------------------------- MODULE Configuration ---------------------------
(***************************************************************************)
(* Model providers, the proxy they use, the system settings and the Agent  *)
(* runtime built from them (internal/service/service.go, proxies.go and    *)
(* configuration.go, internal/store/store.go and configuration.go,         *)
(* internal/agent/runtime.go, the handlers of internal/httpapi/server.go). *)
(*                                                                         *)
(* A request checks its input against rows it reads, writes in a second    *)
(* statement with no lock between, and then reloads the runtime.  A reload *)
(* reads the rows one after another under reloadMu and installs runner     *)
(* and reviewers in two steps; the context window of a model is detected   *)
(* in the background.                                                      *)
(*                                                                         *)
(* A write is known by its number, the value of clock it leaves.           *)
(***************************************************************************)
EXTENDS Naturals, FiniteSets

CONSTANTS
    Requests,       \* concurrent HTTP requests
    Providers,      \* ids of model providers
    None,           \* no provider, no request, an unset reference
    MaxWrites,      \* bound on the writes of an execution
    MaxReloads      \* bound on the revisions after which a bare reload begins

VARIABLES
    providers,      \* table model_providers
    proxyExists,    \* whether the row of the one proxy is there
    approver,       \* system_settings.subagent_model_provider_id
    runtime,        \* Runtime: the provider it runs, the writes it has seen
    reviewers,      \* the reviewers handed to the Service
    reloading,      \* holder of Runtime.reloadMu
    detections,     \* running detectContextWindow goroutines
    revision,       \* Runtime.contextRevision
    request,        \* the requests' local state
    clock,          \* number of writes so far
    acked           \* history: last write whose request was answered after a reload

vars == <<providers, proxyExists, approver, runtime, reviewers, reloading,
          detections, revision, request, clock, acked>>
tables == <<providers, proxyExists, approver, clock>>
agent == <<runtime, reviewers, reloading, detections, revision, acked>>

Refs == Providers \cup {None}
Kinds == {"save", "activate", "delete", "settings", "deleteProxy", "import", "reload"}
NoRow == [exists |-> FALSE, active |-> FALSE, proxied |-> FALSE]
Row == [exists : BOOLEAN, active : BOOLEAN, proxied : BOOLEAN]

Idle == [pc |-> "idle", kind |-> "reload", target |-> None, proxied |-> FALSE,
         active |-> FALSE, wrote |-> 0, read |-> None, asOf |-> 0, approver |-> None]

Init ==
    \E a \in Providers :
        /\ providers = [p \in Providers |-> [NoRow EXCEPT !.exists = TRUE, !.active = (p = a)]]
        /\ proxyExists = TRUE
        /\ approver = None
        /\ runtime = [provider |-> a, asOf |-> 0, window |-> None]
        /\ reviewers = [provider |-> a, asOf |-> 0]
        /\ reloading = None
        /\ detections = {}
        /\ revision = 0
        /\ request = [r \in Requests |-> Idle]
        /\ clock = 0
        /\ acked = 0

---------------------------------------------------------------------------
(* Checks: what a request reads before it writes.                          *)

\* SaveModelProvider: the proxy of the input must exist; `existing` is read,
\* and its active flag goes into the row that will be written.
CheckSave(r) ==
    \E p \in Providers, x \in BOOLEAN :
        /\ x => proxyExists
        /\ request' = [request EXCEPT ![r] = [Idle EXCEPT !.pc = "commit", !.kind = "save",
                           !.target = p, !.proxied = x, !.active = providers[p].active]]

\* ActivateModelProvider reads the row first.
CheckActivate(r) ==
    \E p \in Providers :
        /\ providers[p].exists
        /\ request' = [request EXCEPT ![r] = [Idle EXCEPT !.pc = "commit",
                                              !.kind = "activate", !.target = p]]

\* DeleteModelProvider reads the row and refuses a provider the settings select.
CheckDelete(r) ==
    \E p \in Providers :
        /\ providers[p].exists
        /\ approver # p
        /\ request' = [request EXCEPT ![r] = [Idle EXCEPT !.pc = "commit", !.kind = "delete",
                           !.target = p, !.active = providers[p].active]]

\* SaveSystemSettings reads the whole row and replaces the fields of the
\* input; a provider it selects must exist.  "Keep": the input names none.
CheckSettings(r) ==
    \/ \E p \in Refs :
        /\ p # None => providers[p].exists
        /\ request' = [request EXCEPT ![r] = [Idle EXCEPT !.pc = "commit",
                                              !.kind = "settings", !.target = p]]
    \/ request' = [request EXCEPT ![r] = [Idle EXCEPT !.pc = "commit",
                                          !.kind = "settings", !.target = approver]]

\* DeleteProxy asks for the references first.
CheckProxy(r) ==
    /\ proxyExists
    /\ \A p \in Providers : ~(providers[p].exists /\ providers[p].proxied)
    /\ request' = [request EXCEPT ![r] = [Idle EXCEPT !.pc = "commit", !.kind = "deleteProxy"]]

\* ImportConfiguration of a package with one provider.
CheckImport(r) ==
    \E p \in Providers, x \in BOOLEAN, a \in BOOLEAN :
        /\ x => proxyExists
        /\ request' = [request EXCEPT ![r] = [Idle EXCEPT !.pc = "commit", !.kind = "import",
                           !.target = p, !.proxied = x, !.active = a]]

\* Skills, tools and MCP servers change elsewhere: their requests only reload.
OnlyReload(r) ==
    /\ revision < MaxReloads
    /\ request' = [request EXCEPT ![r] = [Idle EXCEPT !.pc = "lock"]]

Begin(r) ==
    /\ request[r].pc = "idle"
    /\ \/ CheckSave(r) \/ CheckActivate(r) \/ CheckDelete(r) \/ CheckSettings(r)
       \/ CheckProxy(r) \/ CheckImport(r) \/ OnlyReload(r)
    /\ UNCHANGED <<tables, agent>>

---------------------------------------------------------------------------
(* Writes, each one statement or one transaction.                          *)

UniqueDropped(rows) == TRUE

\* idx_model_providers_active: a second active row is refused.
UniqueActive(rows) ==
    \A p, q \in Providers : rows[p].active /\ rows[q].active => p = q

\* UpsertModelProvider: an existing row keeps its active flag; a row that is
\* new, or was deleted since it was read, takes the flag of the input.
Upserted(req) ==
    [providers EXCEPT ![req.target] =
        [exists |-> TRUE, proxied |-> req.proxied,
         active |-> IF @.exists THEN @.active ELSE req.active]]

\* Store.ApplyConfiguration: an imported active provider takes over.
Imported(req) ==
    [p \in Providers |->
        IF p = req.target
        THEN [exists |-> TRUE, proxied |-> req.proxied,
              active |-> IF req.active THEN TRUE
                         ELSE providers[p].exists /\ providers[p].active]
        ELSE [providers[p] EXCEPT !.active = @ /\ ~req.active]]

Activated(p) == [q \in Providers |-> [providers[q] EXCEPT !.active = (q = p)]]

ProxyCheckedBefore == TRUE

\* Store.DeleteProxy: the statement itself refuses a referenced proxy.
ProxyUnused ==
    \A p \in Providers : ~(providers[p].exists /\ providers[p].proxied)

Written(r, then) ==
    /\ clock' = clock + 1
    /\ request' = [request EXCEPT ![r] =
            IF then = "idle" THEN Idle
            ELSE [Idle EXCEPT !.pc = then, !.wrote = clock + 1,
                              !.target = IF then = "selected" THEN request[r].target ELSE None]]

\* The handler reloads after a saved provider when the row it got back is
\* active or selected in the settings it reads afterwards.
CommitSave(r) ==
    LET req == request[r] IN
    /\ req.kind = "save"
    /\ UniqueActive(Upserted(req))
    /\ providers' = Upserted(req)
    /\ Written(r, IF providers'[req.target].active THEN "lock" ELSE "selected")
    /\ UNCHANGED <<proxyExists, approver>>

CommitActivate(r) ==
    LET p == request[r].target IN
    /\ request[r].kind = "activate"
    /\ providers[p].exists
    /\ providers' = Activated(p)
    /\ Written(r, "lock")
    /\ UNCHANGED <<proxyExists, approver>>

\* The runtime is reloaded only when the row read by the check was active.
CommitDelete(r) ==
    LET req == request[r] IN
    /\ req.kind = "delete"
    /\ providers[req.target].exists
    /\ providers' = [providers EXCEPT ![req.target] = NoRow]
    /\ Written(r, IF req.active THEN "lock" ELSE "idle")
    /\ UNCHANGED <<proxyExists, approver>>

CommitSettings(r) ==
    /\ request[r].kind = "settings"
    /\ approver' = request[r].target
    /\ Written(r, "lock")
    /\ UNCHANGED <<providers, proxyExists>>

CommitProxy(r) ==
    /\ request[r].kind = "deleteProxy"
    /\ proxyExists
    /\ ProxyUnused
    /\ proxyExists' = FALSE
    /\ Written(r, "idle")
    /\ UNCHANGED <<providers, approver>>

\* The transaction looks for the references once more before it commits.
CommitImport(r) ==
    LET req == request[r] IN
    /\ req.kind = "import"
    /\ req.proxied => proxyExists
    /\ providers' = Imported(req)
    /\ Written(r, "lock")
    /\ UNCHANGED <<proxyExists, approver>>

Commit(r) ==
    /\ request[r].pc = "commit"
    /\ clock < MaxWrites
    /\ \/ CommitSave(r) \/ CommitActivate(r) \/ CommitDelete(r)
       \/ CommitSettings(r) \/ CommitProxy(r) \/ CommitImport(r)
    /\ UNCHANGED agent

\* The write is refused (not found, in use, unique constraint) or fails.
CommitFails(r) ==
    /\ request[r].pc = "commit"
    /\ request' = [request EXCEPT ![r] = Idle]
    /\ UNCHANGED <<tables, agent>>

\* saveModelProvider reads the settings after the write.
ReadSelected(r) ==
    /\ request[r].pc = "selected"
    /\ request' = [request EXCEPT ![r] =
            IF approver = request[r].target THEN [@ EXCEPT !.pc = "lock", !.target = None]
            ELSE Idle]
    /\ UNCHANGED <<tables, agent>>

---------------------------------------------------------------------------
(* Runtime.Reload                                                          *)

LockIgnored == TRUE

\* Runtime.reloadMu.
LockFree == reloading = None

Lock(r) ==
    /\ request[r].pc = "lock"
    /\ LockFree
    /\ reloading' = r
    /\ request' = [request EXCEPT ![r].pc = "active"]
    /\ UNCHANGED <<tables, runtime, reviewers, detections, revision, acked>>

\* resolveProxy reports a missing proxy as a missing row.
Usable(p) ==
    /\ p # None
    /\ providers[p].exists
    /\ providers[p].proxied => proxyExists

\* ActiveModelConfig: no active row, or one whose proxy is missing, is "none".
ReadActive(r) ==
    /\ request[r].pc = "active"
    /\ \E p \in Refs :
        /\ IF p = None THEN \A q \in Providers : ~(providers[q].active /\ Usable(q))
           ELSE providers[p].active /\ Usable(p)
        /\ request' = [request EXCEPT ![r] =
                [@ EXCEPT !.pc = IF p = None THEN "install" ELSE "settings",
                          !.read = p, !.asOf = clock]]
    /\ UNCHANGED <<tables, agent>>

\* SystemSettings, then ModelProviderConfig of the provider they select: a
\* missing one leaves no reviewer.
ReadSettings(r) ==
    LET chosen == IF approver = None THEN request[r].read ELSE approver IN
    /\ request[r].pc = "settings"
    /\ request' = [request EXCEPT ![r] =
            [@ EXCEPT !.pc = "install",
                      !.approver = IF chosen = request[r].read \/ Usable(chosen) THEN chosen ELSE None]]
    /\ UNCHANGED <<tables, agent>>

\* A read fails, or the client is gone and its context cancelled: the
\* installed runtime stays as it is.
ReloadFails(r) ==
    /\ request[r].pc \in {"active", "settings"}
    /\ reloading' = None
    /\ request' = [request EXCEPT ![r] = Idle]
    /\ UNCHANGED <<tables, runtime, reviewers, detections, revision, acked>>

\* Under Runtime.mu: the running detection is cancelled by the new revision;
\* a model whose window is not configured gets a detection of its own.
Install(r) ==
    LET req == request[r] IN
    /\ req.pc = "install"
    /\ revision' = revision + 1
    /\ runtime' = [provider |-> req.read, asOf |-> req.asOf, window |-> None]
    /\ detections' = IF req.read = None THEN detections
                     ELSE detections \cup {[provider |-> req.read, revision |-> revision + 1]}
    /\ request' = [request EXCEPT ![r].pc = "reviewers"]
    /\ UNCHANGED <<tables, reviewers, reloading, acked>>

\* buildRunner or one of the sub-agents fails: nothing is installed any more.
BuildFails(r) ==
    /\ request[r].pc = "install"
    /\ request[r].read # None
    /\ revision' = revision + 1
    /\ runtime' = [provider |-> None, asOf |-> request[r].asOf, window |-> None]
    /\ request' = [request EXCEPT ![r] = [@ EXCEPT !.pc = "reviewers", !.read = None,
                                                   !.approver = None]]
    /\ UNCHANGED <<tables, reviewers, reloading, detections, acked>>

\* SetApprovalReviewer, SetAutomaticApprovalReviewer, then the deferred unlock
\* and the answer.
SetReviewers(r) ==
    LET req == request[r] IN
    /\ req.pc = "reviewers"
    /\ reviewers' = [provider |-> IF req.read = None THEN None ELSE req.approver,
                     asOf |-> req.asOf]
    /\ reloading' = None
    /\ acked' = IF req.wrote > acked THEN req.wrote ELSE acked
    /\ request' = [request EXCEPT ![r] = Idle]
    /\ UNCHANGED <<tables, runtime, detections, revision>>

AnyDetection(d) == runtime.window = None

CurrentDetection(d) == d.revision = revision /\ runtime.window = None

\* detectContextWindow: a window of an older revision is dropped.
Detected(d) ==
    /\ d \in detections
    /\ detections' = detections \ {d}
    /\ \/ /\ CurrentDetection(d)
          /\ runtime' = [runtime EXCEPT !.window = d.provider]
       \/ UNCHANGED runtime
    /\ UNCHANGED <<tables, reviewers, reloading, revision, request, acked>>

---------------------------------------------------------------------------
Step(r) ==
    \/ Commit(r) \/ CommitFails(r) \/ ReadSelected(r) \/ Lock(r) \/ ReadActive(r)
    \/ ReadSettings(r) \/ ReloadFails(r) \/ Install(r)
    \/ BuildFails(r) \/ SetReviewers(r)

Next ==
    \/ \E r \in Requests : Begin(r) \/ Step(r)
    \/ \E d \in detections : Detected(d)

Spec == Init /\ [][Next]_vars

---------------------------------------------------------------------------
\* Type invariant of the tables, the runtime and the requests.
Pcs == {"idle", "commit", "selected", "lock", "active", "settings", "install", "reviewers"}
Locals == [pc : Pcs, kind : Kinds, target : Refs, proxied : BOOLEAN, active : BOOLEAN,
           wrote : 0..MaxWrites, read : Refs, asOf : 0..MaxWrites, approver : Refs]

TypeOK ==
    /\ providers \in [Providers -> Row]
    /\ proxyExists \in BOOLEAN
    /\ approver \in Refs
    /\ runtime \in [provider : Refs, asOf : 0..MaxWrites, window : Refs]
    /\ reviewers \in [provider : Refs, asOf : 0..MaxWrites]
    /\ reloading \in Requests \cup {None}
    /\ revision \in Nat /\ detections \subseteq [provider : Providers, revision : 0..revision]
    /\ request \in [Requests -> Locals]
    /\ clock \in 0..MaxWrites /\ acked \in 0..clock

\* There is at most one active provider, whatever saves, deletions,
\* activations and imports overlap: a save that brings a deleted active
\* provider back cannot add a second one.
OneActiveProvider ==
    \A p, q \in Providers : providers[p].active /\ providers[q].active => p = q

\* The runtime is built from tables that include every write whose request
\* reloaded it and was answered with success: a slow reload never installs
\* older rows over the ones of a reload that began later.  Of a write that is
\* answered without a reload it says nothing: see RuntimeProviderExists.
ReloadedWritesAreInstalled == runtime.asOf >= acked

\* Unless a reload is under way, the reviewers come from the same reload as
\* the runner: both were replaced, or neither.
ReviewersFollowRunner == reloading = None => reviewers.asOf = runtime.asOf

\* A detected context window is the one of the installed model, though its
\* detection may end after the model has been replaced.
WindowIsOfTheModel == runtime.window # None => runtime.window = runtime.provider

\* A deletion never takes a proxy that a provider row names at that moment.
ProxyStays ==
    proxyExists /\ ~proxyExists' => \A p \in Providers : ~(providers[p].exists /\ providers[p].proxied)
ReferencedProxyStays == [][ProxyStays]_vars

---------------------------------------------------------------------------
(* The inductive invariant. *)

\* A request that writes a row has read or chosen it, and no write is later than
\* the clock.
RequestsInv ==
    \A r \in Requests :
        /\ request[r].pc = "commit" /\ request[r].kind \in {"save", "activate", "delete", "import"}
              => request[r].target \in Providers
        /\ request[r].wrote <= clock

\* Runtime.reloadMu is held by the one request that reloads.
Reloading(r) == request[r].pc \in {"active", "settings", "install", "reviewers"}
LockInv == \A r \in Requests : Reloading(r) <=> reloading = r

\* What a reload has read includes the request's own write and every write that was
\* answered, and what it has installed is what it read.
ReadInv ==
    \A r \in Requests :
        /\ request[r].pc \in {"settings", "install", "reviewers"} => request[r].asOf >= request[r].wrote
        /\ request[r].pc \in {"settings", "install"} => request[r].asOf >= acked
        /\ request[r].pc = "reviewers" => request[r].asOf = runtime.asOf

\* The reviewers lag behind the runner in one step of a reload only.
ReviewersInv ==
    (\A r \in Requests : request[r].pc # "reviewers") => reviewers.asOf = runtime.asOf

\* A detection of the latest revision is of the installed model.
DetectionInv == \A d \in detections : d.revision = revision => d.provider = runtime.provider

IInv ==
    /\ TypeOK /\ RequestsInv /\ LockInv /\ ReadInv /\ ReviewersInv /\ DetectionInv
    /\ OneActiveProvider /\ ReloadedWritesAreInstalled /\ WindowIsOfTheModel

---------------------------------------------------------------------------
(* What one would expect, partly from the documentation, and overlapping   *)
(* requests can break.                                                     *)

\* docs/architecture.md:143, a provider that the settings select cannot be
\* deleted before the selection is lifted.  DeleteModelProvider and
\* SaveSystemSettings check before they write.
SelectedProviderExists == approver # None => providers[approver].exists

\* docs/architecture.md:153, a proxy in use cannot be deleted.
\* SaveModelProvider looks for the proxy before it writes the reference.
ReferencedProxyExists ==
    \A p \in Providers : providers[p].exists /\ providers[p].proxied => proxyExists

\* The runtime does not run a provider that was deleted, once no request is under
\* way.  deleteModelProvider reloads only when the row DeleteModelProvider read was
\* active: another request may activate the provider, reload and be answered
\* between that read and the delete, which is then answered without a reload.  (A
\* reload that fails leaves a deleted provider, too, but its request is answered
\* with the error.)
RuntimeProviderExists ==
    (\A r \in Requests : request[r] = Idle) /\ runtime.provider # None =>
        providers[runtime.provider].exists
=============================================================================
