---------------------- MODULE ExecutionCapacity_proofs ----------------------
(***************************************************************************)
(* Proofs about ExecutionCapacity, for any operations, hosts and limits.   *)
(***************************************************************************)
EXTENDS ExecutionCapacity, FiniteSetTheorems, TLAPS

(* A slot more: the number of operations that hold it grows by one. *)
LEMMA OneMore ==
    ASSUME NEW S \in SUBSET Ops, NEW o \in Ops, o \notin S
    PROVE  Cardinality(S \cup {o}) = Cardinality(S) + 1 /\ Cardinality(S) \in Nat
  <1>1. IsFiniteSet(S)
    BY CapacityBounds, FS_Subset
  <1> QED
    BY <1>1, FS_AddElement, FS_CardinalityType

(* A slot less: it shrinks by one, and it was not zero. *)
LEMMA OneLess ==
    ASSUME NEW S \in SUBSET Ops, NEW o \in S
    PROVE  /\ Cardinality(S \ {o}) = Cardinality(S) - 1
           /\ Cardinality(S) \in Nat /\ Cardinality(S) - 1 \in Nat
  <1>1. IsFiniteSet(S) /\ IsFiniteSet(S \ {o})
    BY CapacityBounds, FS_Subset
  <1>2. Cardinality(S \ {o}) = Cardinality(S) - 1
    BY <1>1, FS_RemoveElement
  <1> QED
    BY <1>1, <1>2, FS_CardinalityType

(* sort.Strings: there is a next host as long as one is missing. *)
LEMMA NextHostMissing ==
    ASSUME TypeOK, NEW o \in Ops, Missing(o) # {}
    PROVE  NextHost(o) \in Missing(o)
  <1>1. Missing(o) \subseteq {target[o], source[o]}
    BY DEF Missing, Wanted
  <1>2. target[o] \in Nat /\ source[o] \in Nat
    <2>1. target[o] \in Hosts \cup {0} /\ source[o] \in Hosts \cup {0}
      BY DEF TypeOK
    <2>2. Hosts \cup {0} \subseteq Nat
      BY CapacityBounds
    <2> QED
      BY <2>1, <2>2
  <1>3. \E h \in Missing(o) : \A other \in Missing(o) : h <= other
    <2>1. CASE target[o] \in Missing(o) /\ source[o] \in Missing(o)
      BY <1>1, <1>2, <2>1
    <2>2. CASE target[o] \notin Missing(o) \/ source[o] \notin Missing(o)
      BY <1>1, <1>2, <2>2
    <2> QED
      BY <2>1, <2>2
  <1> QED
    BY <1>3 DEF NextHost

(* What is held was asked for, and only from the first slot to the last release. *)
LEMMA HeldStep == ASSUME IInv, [Next]_vars PROVE HeldInv'
  <1> USE DEF IInv, TypeOK, HeldInv, Wanted, request, Goto
  <1>1. CASE UNCHANGED vars
    BY <1>1 DEF vars
  <1>2. CASE Next
    <2> SUFFICES ASSUME NEW o \in Ops, Acquire(o) \/ Cancel(o) \/ Step(o) PROVE HeldInv'
      BY <1>2 DEF Next
    <2>1. CASE Acquire(o)
      BY <2>1 DEF Acquire
    <2>2. CASE Cancel(o)
      BY <2>2 DEF Cancel
    <2>3. CASE TakeGlobal(o)
      BY <2>3 DEF TakeGlobal
    <2>4. CASE TakeHost(o)
      <3>1. NextHost(o) \in Wanted(o)
        BY <2>4, NextHostMissing DEF TakeHost, Missing
      <3> QED
        BY <2>4, <3>1 DEF TakeHost
    <2>5. CASE GiveUp(o)
      BY <2>5 DEF GiveUp
    <2>6. CASE Rollback(o)
      BY <2>6 DEF Rollback
    <2>7. CASE Finish(o)
      BY <2>7 DEF Finish
    <2>8. CASE ReleaseHost(o)
      BY <2>8 DEF ReleaseHost
    <2>9. CASE ReleaseGlobal(o)
      BY <2>9 DEF ReleaseGlobal
    <2> QED
      BY <2>1, <2>2, <2>3, <2>4, <2>5, <2>6, <2>7, <2>8, <2>9 DEF Step
  <1> QED
    BY <1>1, <1>2

(* A step that moves no slot leaves every count alone. *)
LEMMA NoSlotMoves ==
    ASSUME IInv, UNCHANGED <<held, globalSem, hostSem>>, Holding' = Holding
    PROVE  SlotsAccounted'
  <1>1. \A h \in Hosts : Users(h)' = Users(h)
    BY DEF Users
  <1> QED
    BY <1>1 DEF IInv, SlotsAccounted

(* Every slot taken or given back is counted once. *)
LEMMA SlotStep ==
    ASSUME IInv, [Next]_vars
    PROVE  SlotsAccounted' /\ globalSem' \in 0 .. GlobalLimit /\ hostSem' \in [Hosts -> 0 .. HostLimit]
  <1> USE DEF IInv, TypeOK, Goto
  <1>1. CASE UNCHANGED vars
    BY <1>1, NoSlotMoves DEF vars, Holding
  <1>2. CASE Next
    <2> SUFFICES ASSUME NEW o \in Ops, Acquire(o) \/ Cancel(o) \/ Step(o)
                 PROVE  /\ SlotsAccounted'
                        /\ globalSem' \in 0 .. GlobalLimit /\ hostSem' \in [Hosts -> 0 .. HostLimit]
      BY <1>2 DEF Next
    <2>1. CASE Acquire(o)
      BY <2>1, NoSlotMoves DEF Acquire, Holding
    <2>2. CASE Cancel(o)
      BY <2>2, NoSlotMoves DEF Cancel, Holding
    <2>3. CASE TakeGlobal(o)
      <3>1. o \notin Holding /\ Holding' = Holding \cup {o} /\ Holding \in SUBSET Ops
        BY <2>3 DEF TakeGlobal, Holding
      <3>2. Cardinality(Holding') = Cardinality(Holding) + 1
        BY <3>1, OneMore
      <3>3. \A h \in Hosts : Users(h)' = Users(h)
        BY <2>3 DEF TakeGlobal, Users
      <3>4. globalSem' = globalSem + 1 /\ globalSem < GlobalLimit /\ hostSem' = hostSem
        BY <2>3 DEF TakeGlobal
      <3> QED
        BY <3>2, <3>3, <3>4, CapacityBounds DEF SlotsAccounted
    <2>4. CASE TakeHost(o)
      <3>1. NextHost(o) \in Missing(o) /\ Missing(o) \in SUBSET Hosts
        BY <2>4, NextHostMissing DEF TakeHost, Missing, Wanted
      <3>2. PICK n \in Hosts : /\ n \in Missing(o) /\ hostSem[n] < HostLimit
                             /\ held' = [held EXCEPT ![o] = @ \cup {n}]
                             /\ hostSem' = [hostSem EXCEPT ![n] = @ + 1]
                             /\ globalSem' = globalSem
        BY <2>4, <3>1 DEF TakeHost
      <3>3. o \notin Users(n) /\ Users(n) \in SUBSET Ops
        BY <3>2 DEF Users, Missing
      <3>4. Users(n)' = Users(n) \cup {o}
        <4>1. held'[o] = held[o] \cup {n} /\ \A p \in Ops \ {o} : held'[p] = held[p]
          BY <3>2
        <4>2. {p \in Ops : n \in held'[p]} = {p \in Ops : n \in held[p]} \cup {o}
          BY <4>1
        <4> QED
          BY <4>2 DEF Users
      <3>5. \A h \in Hosts \ {n} : Users(h)' = Users(h)
        BY <3>2 DEF Users
      <3>6. Cardinality(Users(n)') = Cardinality(Users(n)) + 1
        BY <3>3, <3>4, OneMore
      <3>7. hostSem'[n] = Cardinality(Users(n)')
        BY <3>2, <3>6 DEF SlotsAccounted
      <3>8. \A h \in Hosts \ {n} : hostSem'[h] = Cardinality(Users(h)')
        BY <3>2, <3>5 DEF SlotsAccounted
      <3>9. Holding' = Holding
        BY <2>4 DEF TakeHost, Holding
      <3>10. hostSem' \in [Hosts -> 0 .. HostLimit]
        BY <3>2, CapacityBounds
      <3>11. \A h \in Hosts : hostSem'[h] = Cardinality(Users(h)')
        BY <3>7, <3>8
      <3>12. SlotsAccounted'
        BY <3>2, <3>9, <3>11 DEF SlotsAccounted
      <3> QED
        BY <3>2, <3>10, <3>12
    <2>5. CASE GiveUp(o)
      BY <2>5, NoSlotMoves DEF GiveUp, Holding
    <2>6. CASE Rollback(o)
      BY <2>6, NoSlotMoves DEF Rollback, Holding
    <2>7. CASE Finish(o)
      BY <2>7, NoSlotMoves DEF Finish, Holding
    <2>8. CASE ReleaseHost(o)
      <3>1. PICK n \in held[o] : /\ held' = [held EXCEPT ![o] = @ \ {n}]
                                 /\ hostSem' = [hostSem EXCEPT ![n] = @ - 1]
        BY <2>8 DEF ReleaseHost
      <3>2. n \in Hosts /\ globalSem' = globalSem
        BY <2>8, <3>1 DEF ReleaseHost
      <3>3. o \in Users(n) /\ Users(n) \in SUBSET Ops
        BY <3>1 DEF Users
      <3>4. Users(n)' = Users(n) \ {o}
        BY <3>1 DEF Users
      <3>5. \A h \in Hosts \ {n} : Users(h)' = Users(h)
        BY <3>1 DEF Users
      <3>6. Cardinality(Users(n)') = Cardinality(Users(n)) - 1 /\ Cardinality(Users(n)) - 1 \in Nat
        BY <3>3, <3>4, OneLess
      <3>7. hostSem'[n] = Cardinality(Users(n)')
        BY <3>1, <3>2, <3>6 DEF SlotsAccounted
      <3>8. \A h \in Hosts \ {n} : hostSem'[h] = Cardinality(Users(h)')
        BY <3>1, <3>5 DEF SlotsAccounted
      <3>9. Holding' = Holding
        BY <2>8 DEF ReleaseHost, Holding
      <3>10. hostSem' \in [Hosts -> 0 .. HostLimit]
        BY <3>1, <3>2, <3>6, <3>7, CapacityBounds DEF SlotsAccounted
      <3> QED
        BY <3>2, <3>7, <3>8, <3>9, <3>10 DEF SlotsAccounted
    <2>9. CASE ReleaseGlobal(o)
      <3>1. o \in Holding /\ Holding' = Holding \ {o} /\ Holding \in SUBSET Ops
        BY <2>9 DEF ReleaseGlobal, Holding
      <3>2. Cardinality(Holding') = Cardinality(Holding) - 1 /\ Cardinality(Holding) - 1 \in Nat
        BY <3>1, OneLess
      <3>3. \A h \in Hosts : Users(h)' = Users(h)
        BY <2>9 DEF ReleaseGlobal, Users
      <3>4. globalSem' = globalSem - 1 /\ hostSem' = hostSem
        BY <2>9 DEF ReleaseGlobal
      <3> QED
        BY <3>2, <3>3, <3>4, CapacityBounds DEF SlotsAccounted
    <2> QED
      BY <2>1, <2>2, <2>3, <2>4, <2>5, <2>6, <2>7, <2>8, <2>9 DEF Step
  <1> QED
    BY <1>1, <1>2

(* The other variables keep their types. *)
LEMMA TypeStep == ASSUME IInv, [Next]_vars PROVE TypeOK'
  <1> USE DEF IInv, TypeOK, request, Goto
  <1>1. globalSem' \in 0 .. GlobalLimit /\ hostSem' \in [Hosts -> 0 .. HostLimit]
    BY SlotStep
  <1>2. held' \in [Ops -> SUBSET Hosts]
    <2>1. CASE UNCHANGED held
      BY <2>1
    <2>2. ASSUME NEW o \in Ops, TakeHost(o) PROVE held' \in [Ops -> SUBSET Hosts]
      <3>1. NextHost(o) \in Hosts
        BY <2>2, NextHostMissing DEF TakeHost, Missing, Wanted
      <3> QED
        BY <2>2, <3>1 DEF TakeHost
    <2>3. ASSUME NEW o \in Ops, ReleaseHost(o) PROVE held' \in [Ops -> SUBSET Hosts]
      BY <2>3 DEF ReleaseHost
    <2> QED
      BY <2>1, <2>2, <2>3
      DEF Next, Step, vars, Acquire, Cancel, TakeGlobal, GiveUp, Rollback, Finish, ReleaseGlobal
  <1>3. /\ pc' \in [Ops -> {"idle", "global", "host", "releasing", "done"}]
        /\ target' \in [Ops -> Hosts \cup {0}] /\ source' \in [Ops -> Hosts \cup {0}]
        /\ cancelled' \subseteq Ops
    BY DEF Next, Step, vars, Acquire, Cancel, TakeGlobal, TakeHost, GiveUp, Rollback, Finish,
           ReleaseHost, ReleaseGlobal
  <1> QED
    BY <1>1, <1>2, <1>3

(***************************************************************************)
(* The inductive invariant of acquire and release: types, what is held,    *)
(* and the account of every slot.                                          *)
(***************************************************************************)
THEOREM Accounting == Spec => []IInv
  <1>1. Init => IInv
    <2> SUFFICES ASSUME Init PROVE IInv
      OBVIOUS
    <2>1. TypeOK /\ HeldInv
      BY CapacityBounds DEF Init, TypeOK, HeldInv
    <2>2. Holding = {} /\ \A h \in Hosts : Users(h) = {}
      BY DEF Init, Holding, Users
    <2>3. SlotsAccounted
      BY <2>2, FS_EmptySet DEF Init, SlotsAccounted
    <2> QED
      BY <2>1, <2>3 DEF IInv
  <1>2. IInv /\ [Next]_vars => IInv'
    <2> SUFFICES ASSUME IInv, [Next]_vars PROVE IInv'
      OBVIOUS
    <2>1. TypeOK'
      BY TypeStep
    <2>2. HeldInv'
      BY HeldStep
    <2>3. SlotsAccounted'
      BY SlotStep
    <2> QED
      BY <2>1, <2>2, <2>3 DEF IInv
  <1> QED
    BY <1>1, <1>2, PTL DEF Spec

(* A semaphore never counts above its limit nor below zero, and the calls keep their types. *)
THEOREM Typing == Spec => []TypeOK
  <1>1. IInv => TypeOK
    BY DEF IInv
  <1> QED
    BY <1>1, Accounting, PTL

(* Capacity is never leaked and never given back twice (Service.acquire). *)
THEOREM NoSlotLeaks == Spec => []SlotsAccounted
  <1>1. IInv => SlotsAccounted
    BY DEF IInv
  <1> QED
    BY <1>1, Accounting, PTL

(* The limits of the configuration hold for what works at the same time. *)
THEOREM LimitsHold == Spec => []CapacityRespected
  <1>1. IInv => CapacityRespected
    <2> SUFFICES ASSUME IInv PROVE CapacityRespected
      OBVIOUS
    <2> DEFINE Working == {o \in Ops : Works(o)}
    <2>1. Working \in SUBSET Holding /\ Holding \in SUBSET Ops
      BY DEF Works, Holding
    <2>2. Cardinality(Working) <= GlobalLimit
      <3>1. IsFiniteSet(Holding) /\ IsFiniteSet(Working)
        BY <2>1, CapacityBounds, FS_Subset
      <3>2. Cardinality(Working) <= Cardinality(Holding)
        BY <2>1, <3>1, FS_Subset
      <3>3. Cardinality(Holding) = globalSem /\ globalSem <= GlobalLimit /\ globalSem \in Nat
        BY DEF IInv, SlotsAccounted, TypeOK
      <3> QED
        BY <3>1, <3>2, <3>3, FS_CardinalityType, CapacityBounds
    <2>3. ASSUME NEW h \in Hosts
          PROVE  Cardinality({o \in Working : h \in Wanted(o)}) <= HostLimit
      <3> DEFINE There == {o \in Working : h \in Wanted(o)}
      <3>1. There \in SUBSET Users(h) /\ Users(h) \in SUBSET Ops
        BY DEF Works, Users, Missing
      <3>2. IsFiniteSet(Users(h)) /\ IsFiniteSet(There)
        BY <3>1, CapacityBounds, FS_Subset
      <3>3. Cardinality(There) <= Cardinality(Users(h))
        BY <3>1, <3>2, FS_Subset
      <3>4. Cardinality(Users(h)) = hostSem[h] /\ hostSem[h] <= HostLimit /\ hostSem[h] \in Nat
        BY DEF IInv, SlotsAccounted, TypeOK
      <3> QED
        BY <3>2, <3>3, <3>4, FS_CardinalityType, CapacityBounds
    <2> QED
      BY <2>2, <2>3 DEF CapacityRespected
  <1> QED
    BY <1>1, Accounting, PTL
=============================================================================
