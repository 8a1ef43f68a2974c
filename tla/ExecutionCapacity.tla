------------------------- MODULE ExecutionCapacity -------------------------
(***************************************************************************)
(* Service.acquire: an operation takes one slot of globalSem and then one  *)
(* of every host it touches, in the order of their identifiers, before it  *)
(* may reach a host, and gives all of them back, also when its context is  *)
(* cancelled on the way.  Semaphores are buffered channels; a channel is   *)
(* modelled by the number of its elements.                                 *)
(***************************************************************************)
EXTENDS Integers, FiniteSets

CONSTANTS
    Ops,           \* calls of execute or of an operator's terminal
    Hosts,         \* host identifiers, compared as numbers
    GlobalLimit,   \* limits.GlobalConcurrency
    HostLimit      \* limits.HostConcurrency

ASSUME CapacityBounds ==
    /\ IsFiniteSet(Ops)
    /\ IsFiniteSet(Hosts) /\ Hosts \subseteq Nat \ {0}
    /\ GlobalLimit \in Nat \ {0} /\ HostLimit \in Nat \ {0}

VARIABLES
    pc, target, source,     \* the call and its hosts; source is 0 unless it copies from one
    held,                   \* acquired
    globalSem, hostSem,
    cancelled               \* contexts that are done

vars == <<pc, target, source, held, globalSem, hostSem, cancelled>>
request == <<target, source>>

Init ==
    /\ pc = [o \in Ops |-> "idle"]
    /\ target = [o \in Ops |-> 0] /\ source = [o \in Ops |-> 0]
    /\ held = [o \in Ops |-> {}]
    /\ globalSem = 0 /\ hostSem = [h \in Hosts |-> 0]
    /\ cancelled = {}

Goto(o, from, to) == pc[o] = from /\ pc' = [pc EXCEPT ![o] = to]

\* uniqueHostIDs
Wanted(o) == {target[o], source[o]} \ {0}
Missing(o) == Wanted(o) \ held[o]

\* Mutant: the hosts in the order of the request.
NextRequested(o) == IF target[o] \in Missing(o) THEN target[o] ELSE source[o]

NextHost(o) == CHOOSE h \in Missing(o) : \A other \in Missing(o) : h <= other

Acquire(o) ==
    /\ Goto(o, "idle", "global")
    /\ \E host \in Hosts, from \in Hosts \cup {0} :
        /\ target' = [target EXCEPT ![o] = host]
        /\ source' = [source EXCEPT ![o] = from]
    /\ UNCHANGED <<held, globalSem, hostSem, cancelled>>

TakeGlobal(o) ==
    /\ Goto(o, "global", "host")
    /\ globalSem < GlobalLimit
    /\ globalSem' = globalSem + 1
    /\ UNCHANGED <<request, held, hostSem, cancelled>>

\* Mutant: a channel that was made too large.
TakeHostBeyond(o) ==
    /\ Goto(o, "host", "host")
    /\ Missing(o) # {}
    /\ hostSem[NextHost(o)] <= HostLimit
    /\ hostSem' = [hostSem EXCEPT ![NextHost(o)] = @ + 1]
    /\ held' = [held EXCEPT ![o] = @ \cup {NextHost(o)}]
    /\ UNCHANGED <<request, globalSem, cancelled>>

TakeHost(o) ==
    /\ Goto(o, "host", "host")
    /\ Missing(o) # {}
    /\ hostSem[NextHost(o)] < HostLimit
    /\ hostSem' = [hostSem EXCEPT ![NextHost(o)] = @ + 1]
    /\ held' = [held EXCEPT ![o] = @ \cup {NextHost(o)}]
    /\ UNCHANGED <<request, globalSem, cancelled>>

\* (What a cancelled operation does once it works is its own matter.)
Cancel(o) ==
    /\ pc[o] \in {"global", "host"}
    /\ Missing(o) # {}
    /\ cancelled' = cancelled \cup {o}
    /\ UNCHANGED <<pc, request, held, globalSem, hostSem>>

\* Mutant: the global slot is given back though it was never taken.
GiveUpReleasing(o) ==
    /\ Goto(o, "global", "releasing")
    /\ o \in cancelled
    /\ UNCHANGED <<request, held, globalSem, hostSem, cancelled>>

GiveUp(o) ==
    /\ Goto(o, "global", "done")
    /\ o \in cancelled
    /\ UNCHANGED <<request, held, globalSem, hostSem, cancelled>>

\* Mutant: only the global slot is given back.
RollbackGlobal(o) ==
    /\ Goto(o, "host", "releasing")
    /\ Missing(o) # {} /\ o \in cancelled
    /\ held' = [held EXCEPT ![o] = {}]
    /\ UNCHANGED <<request, globalSem, hostSem, cancelled>>

\* Cancelled while it waited for a host.
Rollback(o) ==
    /\ Goto(o, "host", "releasing")
    /\ Missing(o) # {} /\ o \in cancelled
    /\ UNCHANGED <<request, held, globalSem, hostSem, cancelled>>

\* acquire returned with the last slot; the operation ends and releases.
Works(o) == pc[o] = "host" /\ Missing(o) = {}

Finish(o) ==
    /\ Works(o)
    /\ Goto(o, "host", "releasing")
    /\ UNCHANGED <<request, held, globalSem, hostSem, cancelled>>

\* One receive per host, the last one first, and then the global one.
ReleaseHost(o) ==
    /\ Goto(o, "releasing", "releasing")
    /\ \E h \in held[o] :
        /\ \A other \in held[o] : other <= h
        /\ held' = [held EXCEPT ![o] = @ \ {h}]
        /\ hostSem' = [hostSem EXCEPT ![h] = @ - 1]
    /\ UNCHANGED <<request, globalSem, cancelled>>

ReleaseGlobal(o) ==
    /\ Goto(o, "releasing", "done")
    /\ held[o] = {}
    /\ globalSem' = globalSem - 1
    /\ UNCHANGED <<request, held, hostSem, cancelled>>

Step(o) ==
    \/ TakeGlobal(o) \/ TakeHost(o) \/ GiveUp(o) \/ Rollback(o)
    \/ Finish(o) \/ ReleaseHost(o) \/ ReleaseGlobal(o)

Next == \E o \in Ops : Acquire(o) \/ Cancel(o) \/ Step(o)

Spec == Init /\ [][Next]_vars

\* Operations end (they run under a timeout), and a goroutine that can go on does.
FairSpec == Spec /\ \A o \in Ops : WF_vars(Step(o))

-----------------------------------------------------------------------------
(* Properties *)

Holding == {o \in Ops : pc[o] \in {"host", "releasing"}}
Users(h) == {o \in Ops : h \in held[o]}

TypeOK ==
    /\ pc \in [Ops -> {"idle", "global", "host", "releasing", "done"}]
    /\ target \in [Ops -> Hosts \cup {0}] /\ source \in [Ops -> Hosts \cup {0}]
    /\ held \in [Ops -> SUBSET Hosts]
    /\ globalSem \in 0 .. GlobalLimit /\ hostSem \in [Hosts -> 0 .. HostLimit]
    /\ cancelled \subseteq Ops

\* Every slot in use is the slot of one operation that will give it back,
\* whatever was cancelled half-way through acquire: capacity never leaks.
SlotsAccounted ==
    /\ globalSem = Cardinality(Holding)
    /\ \A h \in Hosts : hostSem[h] = Cardinality(Users(h))

\* No more operations work than the limits allow, in all and on one host; a
\* transfer counts on both of its hosts.
CapacityRespected ==
    LET Working == {o \in Ops : Works(o)} IN
    /\ Cardinality(Working) <= GlobalLimit
    /\ \A h \in Hosts : Cardinality({o \in Working : h \in Wanted(o)}) <= HostLimit

\* Nobody waits for ever, though transfers hold one host while they wait for
\* another one and every waiter holds a global slot.
WaitingEnds ==
    \A o \in Ops : pc[o] = "global" ~> (Works(o) \/ pc[o] \in {"releasing", "done"})
-----------------------------------------------------------------------------
(* The inductive invariant *)

\* Hosts are held on the way to, during and after the work, and only wanted ones.
HeldInv ==
    \A o \in Ops :
        /\ held[o] \subseteq Wanted(o)
        /\ pc[o] \notin {"host", "releasing"} => held[o] = {}

IInv == TypeOK /\ HeldInv /\ SlotsAccounted
=============================================================================
