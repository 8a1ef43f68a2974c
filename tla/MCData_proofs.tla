--------------------------- MODULE MCData_proofs ----------------------------
(***************************************************************************)
(* Proofs about the run MCData and the components as it instantiates them: *)
(* operations on a file, for any number of writers and power losses; the   *)
(* skills, for any names, contents, failures and restarts; the             *)
(* configuration, for any providers and overlapping requests; the hosts,   *)
(* for any hosts, requests, packages and longest chain.                    *)
(***************************************************************************)
EXTENDS MCData, FiniteSetTheorems, TLAPS

-----------------------------------------------------------------------------
(* Induction *)

\* The smallest member of a set of numbers, got from the well-founded order of the
\* finite sets 0..n: with it, facts about every number are proved by induction.
LEMMA Smallest ==
  ASSUME NEW T \in SUBSET Nat, T # {}
  PROVE  \E m \in T : \A k \in T : m <= k
<1> DEFINE Starts == {0..n : n \in T}
           Order == StrictSubsetOrdering(Nat)
<1>1. IsWellFoundedOn(Order, FiniteSubsetsOf(Nat))
  BY FS_StrictSubsetOrderingWellFounded
<1>2. \A n \in T : 0..n \in FiniteSubsetsOf(Nat)
  BY FS_Interval DEF FiniteSubsetsOf
<1>3. Starts \subseteq FiniteSubsetsOf(Nat) /\ Starts # {}
  BY <1>2
<1>4. PICK x \in Starts : \A y \in Starts : <<y, x>> \notin Order
  <2> HIDE DEF Order, Starts
  <2> QED
    BY <1>1, <1>3, WFMin
<1>5. PICK m \in T : x = 0..m
  BY <1>4
<1>6. ASSUME NEW k \in T, k < m PROVE FALSE
  <2>1. 0..k \subseteq 0..m /\ m \in 0..m /\ m \notin 0..k /\ {0..k, 0..m} \subseteq SUBSET Nat
    BY <1>6
  <2>2. <<0..k, 0..m>> \in Order
    BY <2>1 DEF StrictSubsetOrdering
  <2> QED
    BY <1>4, <1>5, <2>2
<1> QED
  BY <1>6

\* What holds for 0 and goes on from each number of a range to the next holds in it.
LEMMA Induction ==
  ASSUME NEW n \in Nat, NEW V, 0 \in V, \A i \in 1..n : i - 1 \in V => i \in V
  PROVE  0..n \subseteq V
<1> DEFINE T == {i \in 0..n : i \notin V}
<1>1. ASSUME T # {} PROVE FALSE
  <2>1. PICK m \in T : \A k \in T : m <= k
    <3>1. T \in SUBSET Nat
      OBVIOUS
    <3> HIDE DEF T
    <3> QED
      BY <1>1, <3>1, Smallest
  <2>2. m \in 1..n /\ m - 1 \in 0..n
    BY <2>1
  <2>3. m - 1 \in V
    BY <2>1, <2>2
  <2> QED
    BY <2>1, <2>2, <2>3
<1> QED
  BY <1>1

\* A function over 0..K that is defined by its first value and a step.
Recursive(f, K, V, first, step) ==
    f \in [0..K -> V] /\ \A n \in 0..K : f[n] = IF n = 0 THEN first ELSE step[f[n - 1]]

\* There is such a function.
LEMMA Recursion ==
  ASSUME NEW K, NEW V, NEW first, NEW step, K \in Nat, first \in V, step \in [V -> V]
  PROVE  \E f : Recursive(f, K, V, first, step)
<1> DEFINE Steps(f, k) == \A n \in 0..k : f[n] = IF n = 0 THEN first ELSE step[f[n - 1]]
           Reached == {k \in Nat : \E f \in [0..k -> V] : Steps(f, k)}
<1>1. 0 \in Reached
  <2> DEFINE f == [n \in 0..0 |-> first]
  <2>1. f \in [0..0 -> V] /\ Steps(f, 0)
    OBVIOUS
  <2> QED
    BY <2>1
<1>2. ASSUME NEW k \in 1..K, k - 1 \in Reached PROVE k \in Reached
  <2>1. PICK f \in [0..k - 1 -> V] : Steps(f, k - 1)
    BY <1>2
  <2> DEFINE g == [n \in 0..k |-> IF n = k THEN step[f[k - 1]] ELSE f[n]]
  <2>2. g \in [0..k -> V]
    <3>1. f[k - 1] \in V
      OBVIOUS
    <3> QED
      BY <3>1
  <2>3. \A n \in 0..k : g[n] = IF n = 0 THEN first ELSE step[g[n - 1]]
    <3>1. \A n \in 0..k - 1 : f[n] = IF n = 0 THEN first ELSE step[f[n - 1]]
      BY <2>1
    <3>2. ASSUME NEW n \in 0..k PROVE g[n] = IF n = 0 THEN first ELSE step[g[n - 1]]
      <4>1. CASE n = k
        <5>1. g[n] = step[f[k - 1]] /\ g[n - 1] = f[k - 1] /\ n # 0
          BY <4>1
        <5> QED
          BY <5>1
      <4>2. CASE n # k
        <5>1. g[n] = f[n] /\ n \in 0..k - 1
          BY <4>2
        <5>2. CASE n = 0
          BY <3>1, <5>1, <5>2
        <5>3. CASE n # 0
          <6>1. g[n - 1] = f[n - 1]
            BY <5>1, <5>3
          <6> QED
            BY <3>1, <5>1, <5>3, <6>1
        <5> QED
          BY <5>2, <5>3
      <4> QED
        BY <4>1, <4>2
    <3> QED
      BY <3>2
  <2> HIDE DEF g
  <2>4. Steps(g, k)
    BY <2>2, <2>3
  <2> QED
    BY <2>2, <2>4
<1> HIDE DEF Reached
<1>3. K \in Reached
  BY <1>1, <1>2, Induction
<1> QED
  BY <1>3 DEF Reached, Recursive

-----------------------------------------------------------------------------
(* Operations on a file *)

\* Every step of an operation on a file leaves the variables well typed.
LEMMA CommitTyping ==
  ASSUME D!TypeOK, D!Next \/ UNCHANGED commitVars
  PROVE  D!TypeOK'
<1> USE CommitBounds DEF D!TypeOK, D!Goto, D!Data, D!Edits, D!Local, D!New, D!Result,
    D!Absent, D!Torn, D!Kinds
<1>1. CASE UNCHANGED commitVars
  BY <1>1 DEF commitVars
<1>2. ASSUME D!PowerLoss PROVE D!TypeOK'
  BY <1>2 DEF D!PowerLoss
<1>3. ASSUME NEW o \in Writers, D!Request(o) PROVE D!TypeOK'
  BY <1>3 DEF D!Request, D!Read
<1>4. ASSUME NEW o \in Writers, D!Begin(o) PROVE D!TypeOK'
  BY <1>4 DEF D!Begin, D!BeginNew, D!BeginEdit, D!BeginSave, D!BeginReplace, D!BeginPut,
     D!BeginDelete, D!Read
<1>5. ASSUME NEW o \in Writers, D!Fails(o) PROVE D!TypeOK'
  BY <1>5 DEF D!Fails
<1>6. ASSUME NEW o \in Writers, D!Write(o) PROVE D!TypeOK'
  BY <1>6 DEF D!Write
<1>7. ASSUME NEW o \in Writers, D!Recheck(o) PROVE D!TypeOK'
  BY <1>7 DEF D!Recheck
<1>8. ASSUME NEW o \in Writers, D!Commit(o) PROVE D!TypeOK'
  BY <1>8 DEF D!Commit
<1>9. ASSUME NEW o \in Writers, D!Sync(o) PROVE D!TypeOK'
  BY <1>9 DEF D!Sync
<1>10. ASSUME NEW o \in Writers, D!SyncFails(o) PROVE D!TypeOK'
  BY <1>10 DEF D!SyncFails
<1> HIDE DEF D!TypeOK
<1> QED
  BY <1>1, <1>2, <1>3, <1>4, <1>5, <1>6, <1>7, <1>8, <1>9, <1>10, Zenon DEF D!Next, D!Step,
     D!editWorkspaceFile, D!remoteFileChange, D!SaveAdminWorkspaceTextFile,
     D!storeWorkspaceFile, D!TransferFile, D!UploadSFTPFile, D!deleteWorkspaceEntry

\* An operation that was committed stays committed, and what is at the path or on the
\* disk was put there by one that was.
LEMMA CommitCommitted ==
  ASSUME D!TypeOK, D!CommittedInv, D!Next \/ UNCHANGED commitVars
  PROVE  D!CommittedInv'
<1> USE CommitBounds DEF D!TypeOK, D!Goto, D!Data, D!Edits, D!Local, D!New, D!CommittedInv
<1>1. CASE UNCHANGED commitVars
  BY <1>1 DEF commitVars
<1>2. ASSUME D!PowerLoss PROVE D!CommittedInv'
  BY <1>2 DEF D!PowerLoss
<1>3. ASSUME NEW o \in Writers, D!Request(o) PROVE D!CommittedInv'
  BY <1>3 DEF D!Request, D!Read
<1>4. ASSUME NEW o \in Writers, D!Begin(o) PROVE D!CommittedInv'
  BY <1>4 DEF D!Begin, D!BeginNew, D!BeginEdit, D!BeginSave, D!BeginReplace, D!BeginPut,
     D!BeginDelete, D!Read
<1>5. ASSUME NEW o \in Writers, D!Fails(o) PROVE D!CommittedInv'
  BY <1>5 DEF D!Fails
<1>6. ASSUME NEW o \in Writers, D!Write(o) PROVE D!CommittedInv'
  BY <1>6 DEF D!Write
<1>7. ASSUME NEW o \in Writers, D!Recheck(o) PROVE D!CommittedInv'
  BY <1>7 DEF D!Recheck
<1>8. ASSUME NEW o \in Writers, D!Commit(o) PROVE D!CommittedInv'
  BY <1>8 DEF D!Commit
<1>9. ASSUME NEW o \in Writers, D!Sync(o) PROVE D!CommittedInv'
  BY <1>9 DEF D!Sync
<1>10. ASSUME NEW o \in Writers, D!SyncFails(o) PROVE D!CommittedInv'
  BY <1>10 DEF D!SyncFails
<1> QED
  BY <1>1, <1>2, <1>3, <1>4, <1>5, <1>6, <1>7, <1>8, <1>9, <1>10, Zenon DEF D!Next, D!Step,
     D!editWorkspaceFile, D!remoteFileChange, D!SaveAdminWorkspaceTextFile,
     D!storeWorkspaceFile, D!TransferFile, D!UploadSFTPFile, D!deleteWorkspaceEntry

\* What an operation replaces it was meant to replace, or saw.
LEMMA CommitSurvive ==
  ASSUME D!TypeOK, D!CommittedInv, D!SeenInv, D!ChangesSurvive, D!Next \/ UNCHANGED commitVars
  PROVE  D!ChangesSurvive'
<1> USE CommitBounds DEF D!TypeOK, D!Goto, D!Data, D!Edits, D!Local, D!New, D!Result,
    D!Absent, D!CommittedInv, D!SeenInv, D!ChangesSurvive
<1>1. CASE UNCHANGED commitVars
  BY <1>1 DEF commitVars
<1>2. ASSUME D!PowerLoss PROVE D!ChangesSurvive'
  BY <1>2 DEF D!PowerLoss
<1>3. ASSUME NEW o \in Writers, D!Request(o) PROVE D!ChangesSurvive'
  BY <1>3 DEF D!Request, D!Read
<1>4. ASSUME NEW o \in Writers, D!Begin(o) PROVE D!ChangesSurvive'
  BY <1>4 DEF D!Begin, D!BeginNew, D!BeginEdit, D!BeginSave, D!BeginReplace, D!BeginPut,
     D!BeginDelete, D!Read
<1>5. ASSUME NEW o \in Writers, D!Fails(o) PROVE D!ChangesSurvive'
  BY <1>5 DEF D!Fails
<1>6. ASSUME NEW o \in Writers, D!Write(o) PROVE D!ChangesSurvive'
  BY <1>6 DEF D!Write
<1>7. ASSUME NEW o \in Writers, D!Recheck(o) PROVE D!ChangesSurvive'
  BY <1>7 DEF D!Recheck
<1>8. ASSUME NEW o \in Writers, D!Commit(o) PROVE D!ChangesSurvive'
  <2>1. /\ place[o] = "ready" /\ \A by \in Writers : by # o => place'[by] = place[by]
        /\ operation' = operation /\ base' = base
        /\ \A by \in Writers : since[by] \subseteq since'[by]
        /\ lost' = lost \cup {<<p, o>> : p \in (target \cap Writers) \ target'}
    BY <1>8 DEF D!Commit
  <2>2. ASSUME NEW p \in Writers, p \in target, p \notin target'
        PROVE  \/ operation[o] \in {"save", "put", "delete"}
               \/ operation[o] = "replace" /\ p \in since[o] \cup base[o]
               \/ operation[o] \in D!Edits /\ p \in since[o]
    <3>1. operation[o] \notin D!New
      BY <1>8, <2>2 DEF D!Commit
    <3>2. operation[o] \in D!Edits => p \notin base[o]
      BY <1>8, <2>2 DEF D!Commit
    <3>3. operation[o] \in D!Edits \cup {"replace"} => p \in since[o] \cup base[o]
      BY <2>1, <2>2
    <3> QED
      BY <3>1, <3>2, <3>3 DEF D!Kinds
  <2>3. ASSUME NEW pair \in lost' PROVE
        \/ operation[pair[2]] \in {"save", "put", "delete"}
        \/ operation[pair[2]] = "replace"
             /\ (pair[1] \in base[pair[2]] \/ pair[1] \in since'[pair[2]])
        \/ operation[pair[2]] \in D!Edits /\ pair[1] \in since'[pair[2]]
        \/ operation[pair[2]] = "upload" /\ place'[pair[2]] = "failed"
    <3>1. CASE pair \in lost
      <4>1. pair[2] \in Writers /\ place[pair[2]] # "ready"
        BY <3>1
      <4> QED
        BY <2>1, <3>1, <4>1
    <3>2. CASE pair \notin lost
      <4>1. PICK p \in (target \cap Writers) \ target' : pair = <<p, o>>
        BY <2>1, <2>3, <3>2
      <4> QED
        BY <2>1, <2>2, <4>1
    <3> QED
      BY <3>1, <3>2
  <2> QED
    BY <2>1, <2>3
<1>9. ASSUME NEW o \in Writers, D!Sync(o) PROVE D!ChangesSurvive'
  BY <1>9 DEF D!Sync
<1>10. ASSUME NEW o \in Writers, D!SyncFails(o) PROVE D!ChangesSurvive'
  BY <1>10 DEF D!SyncFails
<1> QED
  BY <1>1, <1>2, <1>3, <1>4, <1>5, <1>6, <1>7, <1>8, <1>9, <1>10, Zenon DEF D!Next, D!Step,
     D!editWorkspaceFile, D!remoteFileChange, D!SaveAdminWorkspaceTextFile,
     D!storeWorkspaceFile, D!TransferFile, D!UploadSFTPFile, D!deleteWorkspaceEntry

\* What stands at the path was there when the operation looked, or came since.
LEMMA CommitSeen ==
  ASSUME D!TypeOK, D!SeenInv, D!Next \/ UNCHANGED commitVars
  PROVE  D!SeenInv'
<1> USE CommitBounds DEF D!TypeOK, D!Goto, D!Data, D!Edits, D!Local, D!New, D!Result,
    D!Absent, D!SeenInv
<1>1. CASE UNCHANGED commitVars
  BY <1>1 DEF commitVars
<1>2. ASSUME D!PowerLoss PROVE D!SeenInv'
  BY <1>2 DEF D!PowerLoss
<1>3. ASSUME NEW o \in Writers, D!Request(o) PROVE D!SeenInv'
  BY <1>3 DEF D!Request, D!Read
<1>4. ASSUME NEW o \in Writers, D!Begin(o) PROVE D!SeenInv'
  BY <1>4 DEF D!Begin, D!BeginNew, D!BeginEdit, D!BeginSave, D!BeginReplace, D!BeginPut,
     D!BeginDelete, D!Read
<1>5. ASSUME NEW o \in Writers, D!Fails(o) PROVE D!SeenInv'
  BY <1>5 DEF D!Fails
<1>6. ASSUME NEW o \in Writers, D!Write(o) PROVE D!SeenInv'
  BY <1>6 DEF D!Write
<1>7. ASSUME NEW o \in Writers, D!Recheck(o) PROVE D!SeenInv'
  BY <1>7 DEF D!Recheck
<1>8. ASSUME NEW o \in Writers, D!Commit(o) PROVE D!SeenInv'
  BY <1>8 DEF D!Commit
<1>9. ASSUME NEW o \in Writers, D!Sync(o) PROVE D!SeenInv'
  BY <1>9 DEF D!Sync
<1>10. ASSUME NEW o \in Writers, D!SyncFails(o) PROVE D!SeenInv'
  BY <1>10 DEF D!SyncFails
<1> QED
  BY <1>1, <1>2, <1>3, <1>4, <1>5, <1>6, <1>7, <1>8, <1>9, <1>10, Zenon DEF D!Next, D!Step,
     D!editWorkspaceFile, D!remoteFileChange, D!SaveAdminWorkspaceTextFile,
     D!storeWorkspaceFile, D!TransferFile, D!UploadSFTPFile, D!deleteWorkspaceEntry

\* What a commit puts at the path was flushed first.
LEMMA CommitSynced ==
  ASSUME D!TypeOK, D!SyncedInv, D!Next \/ UNCHANGED commitVars
  PROVE  D!SyncedInv'
<1> USE CommitBounds DEF D!TypeOK, D!Goto, D!Data, D!Edits, D!Local, D!New, D!Result,
    D!Absent, D!SyncedInv, D!Torn
<1>1. CASE UNCHANGED commitVars
  BY <1>1 DEF commitVars
<1>2. ASSUME D!PowerLoss PROVE D!SyncedInv'
  BY <1>2 DEF D!PowerLoss
<1>3. ASSUME NEW o \in Writers, D!Request(o) PROVE D!SyncedInv'
  BY <1>3 DEF D!Request, D!Read
<1>4. ASSUME NEW o \in Writers, D!Begin(o) PROVE D!SyncedInv'
  BY <1>4 DEF D!Begin, D!BeginNew, D!BeginEdit, D!BeginSave, D!BeginReplace, D!BeginPut,
     D!BeginDelete, D!Read
<1>5. ASSUME NEW o \in Writers, D!Fails(o) PROVE D!SyncedInv'
  BY <1>5 DEF D!Fails
<1>6. ASSUME NEW o \in Writers, D!Write(o) PROVE D!SyncedInv'
  BY <1>6 DEF D!Write
<1>7. ASSUME NEW o \in Writers, D!Recheck(o) PROVE D!SyncedInv'
  BY <1>7 DEF D!Recheck
<1>8. ASSUME NEW o \in Writers, D!Commit(o) PROVE D!SyncedInv'
  BY <1>8 DEF D!Commit
<1>9. ASSUME NEW o \in Writers, D!Sync(o) PROVE D!SyncedInv'
  BY <1>9 DEF D!Sync
<1>10. ASSUME NEW o \in Writers, D!SyncFails(o) PROVE D!SyncedInv'
  BY <1>10 DEF D!SyncFails
<1> QED
  BY <1>1, <1>2, <1>3, <1>4, <1>5, <1>6, <1>7, <1>8, <1>9, <1>10, Zenon DEF D!Next, D!Step,
     D!editWorkspaceFile, D!remoteFileChange, D!SaveAdminWorkspaceTextFile,
     D!storeWorkspaceFile, D!TransferFile, D!UploadSFTPFile, D!deleteWorkspaceEntry

\* Of what is at the path but not on the disk, an operation that has not finished knows.
LEMMA CommitEntry ==
  ASSUME D!TypeOK, D!EntryInv, D!Next \/ UNCHANGED commitVars
  PROVE  D!EntryInv'
<1> USE CommitBounds DEF D!TypeOK, D!Goto, D!Data, D!Edits, D!Local, D!New, D!Result,
    D!Absent, D!EntryInv, D!Torn
<1>1. CASE UNCHANGED commitVars
  BY <1>1 DEF commitVars
<1>2. ASSUME D!PowerLoss PROVE D!EntryInv'
  BY <1>2 DEF D!PowerLoss
<1>3. ASSUME NEW o \in Writers, D!Request(o) PROVE D!EntryInv'
  BY <1>3 DEF D!Request, D!Read
<1>4. ASSUME NEW o \in Writers, D!Begin(o) PROVE D!EntryInv'
  BY <1>4 DEF D!Begin, D!BeginNew, D!BeginEdit, D!BeginSave, D!BeginReplace, D!BeginPut,
     D!BeginDelete, D!Read
<1>5. ASSUME NEW o \in Writers, D!Fails(o) PROVE D!EntryInv'
  BY <1>5 DEF D!Fails
<1>6. ASSUME NEW o \in Writers, D!Write(o) PROVE D!EntryInv'
  BY <1>6 DEF D!Write
<1>7. ASSUME NEW o \in Writers, D!Recheck(o) PROVE D!EntryInv'
  BY <1>7 DEF D!Recheck
<1>8. ASSUME NEW o \in Writers, D!Commit(o) PROVE D!EntryInv'
  BY <1>8 DEF D!Commit
<1>9. ASSUME NEW o \in Writers, D!Sync(o) PROVE D!EntryInv'
  BY <1>9 DEF D!Sync
<1>10. ASSUME NEW o \in Writers, D!SyncFails(o) PROVE D!EntryInv'
  BY <1>10 DEF D!SyncFails
<1> QED
  BY <1>1, <1>2, <1>3, <1>4, <1>5, <1>6, <1>7, <1>8, <1>9, <1>10, Zenon DEF D!Next, D!Step,
     D!editWorkspaceFile, D!remoteFileChange, D!SaveAdminWorkspaceTextFile,
     D!storeWorkspaceFile, D!TransferFile, D!UploadSFTPFile, D!deleteWorkspaceEntry

\* A power loss tears only what was not flushed.
LEMMA CommitTorn ==
  ASSUME D!TypeOK, D!SyncedInv, D!TornInv, D!Next \/ UNCHANGED commitVars
  PROVE  D!TornInv'
<1> USE CommitBounds DEF D!TypeOK, D!Goto, D!Data, D!Edits, D!Local, D!New, D!Result,
    D!Absent, D!TornInv, D!SyncedInv, D!Torn
<1>1. CASE UNCHANGED commitVars
  BY <1>1 DEF commitVars
<1>2. ASSUME D!PowerLoss PROVE D!TornInv'
  <2>1. operation' = operation
    BY <1>2 DEF D!PowerLoss
  <2>2. PICK content \in {target, durable} :
          (target' = content \/ (content \cap Writers) \ flushed # {}) /\ durable' = target'
    BY <1>2 DEF D!PowerLoss
  <2>3. CASE target' = content
    BY <2>1, <2>2, <2>3
  <2>4. CASE (content \cap Writers) \ flushed # {}
    <3>1. PICK p \in content \cap Writers : p \notin flushed
      BY <2>4
    <3>2. operation[p] \notin D!Local /\ operation[p] # "delete"
      BY <2>2, <3>1
    <3> QED
      BY <2>1, <3>1, <3>2
  <2> QED
    BY <2>2, <2>3, <2>4
<1>3. ASSUME NEW o \in Writers, D!Request(o) PROVE D!TornInv'
  BY <1>3 DEF D!Request, D!Read
<1>4. ASSUME NEW o \in Writers, D!Begin(o) PROVE D!TornInv'
  BY <1>4 DEF D!Begin, D!BeginNew, D!BeginEdit, D!BeginSave, D!BeginReplace, D!BeginPut,
     D!BeginDelete, D!Read
<1>5. ASSUME NEW o \in Writers, D!Fails(o) PROVE D!TornInv'
  BY <1>5 DEF D!Fails
<1>6. ASSUME NEW o \in Writers, D!Write(o) PROVE D!TornInv'
  BY <1>6 DEF D!Write
<1>7. ASSUME NEW o \in Writers, D!Recheck(o) PROVE D!TornInv'
  BY <1>7 DEF D!Recheck
<1>8. ASSUME NEW o \in Writers, D!Commit(o) PROVE D!TornInv'
  BY <1>8 DEF D!Commit
<1>9. ASSUME NEW o \in Writers, D!Sync(o) PROVE D!TornInv'
  BY <1>9 DEF D!Sync
<1>10. ASSUME NEW o \in Writers, D!SyncFails(o) PROVE D!TornInv'
  BY <1>10 DEF D!SyncFails
<1> QED
  BY <1>1, <1>2, <1>3, <1>4, <1>5, <1>6, <1>7, <1>8, <1>9, <1>10, Zenon DEF D!Next, D!Step,
     D!editWorkspaceFile, D!remoteFileChange, D!SaveAdminWorkspaceTextFile,
     D!storeWorkspaceFile, D!TransferFile, D!UploadSFTPFile, D!deleteWorkspaceEntry

\* The operations start so.
LEMMA CommitStarts == D!Init => D!IInv
<1> SUFFICES ASSUME D!Init PROVE D!IInv
  OBVIOUS
<1> USE CommitBounds DEF D!Init, D!Absent, D!Torn
<1>1. D!TypeOK
  BY DEF D!TypeOK
<1>2. D!CommittedInv /\ D!ChangesSurvive /\ D!SeenInv
  BY DEF D!CommittedInv, D!ChangesSurvive, D!SeenInv
<1>3. D!SyncedInv /\ D!EntryInv /\ D!TornInv
  BY DEF D!SyncedInv, D!EntryInv, D!TornInv, D!Data
<1> QED
  BY <1>1, <1>2, <1>3 DEF D!IInv

\* Every step of an operation and a power loss keep it.
LEMMA CommitStep == ASSUME D!IInv, D!Next \/ UNCHANGED commitVars PROVE D!IInv'
<1> USE DEF D!IInv
<1>1. D!TypeOK' /\ D!CommittedInv' /\ D!ChangesSurvive'
  BY CommitTyping, CommitCommitted, CommitSurvive
<1>2. D!SeenInv' /\ D!SyncedInv' /\ D!EntryInv' /\ D!TornInv'
  BY CommitSeen, CommitSynced, CommitEntry, CommitTorn
<1> QED
  BY <1>1, <1>2

\* A change that was reported is on the disk, or one that saw it is about to replace it.
LEMMA CommitsAreDurable == ASSUME D!IInv PROVE D!ReportedChangesAreDurable
<1> USE DEF D!IInv
<1>1. ASSUME NEW o \in Writers, place[o] = "done", operation[o] \in D!Local, o \in target,
             o \notin durable
      PROVE  \E by \in Writers : place[by] # "done" /\ o \in since[by] \cup base[by]
  <2>1. PICK by \in Writers : place[by] \in {"sync", "failed"} /\ o \in base[by] \cup {by}
    BY <1>1 DEF D!EntryInv, D!Data
  <2> QED
    BY <1>1, <2>1
<1> QED
  BY <1>1 DEF D!ReportedChangesAreDurable, D!TornInv

-----------------------------------------------------------------------------
(* Skills *)

\* The names of a package are different, and there are one or two.
LEMMA SkillRoots ==
  ASSUME NEW ns \in S!Roots
  PROVE  /\ ns \in Seq(Names) /\ Len(ns) \in 0..2 /\ 1 \in 1..Len(ns)
         /\ \A i, j \in 1..Len(ns) : ns[i] = ns[j] => i = j
<1>1. PICK k \in 1..2 : ns \in [1..k -> Names]
  BY DEF S!Roots
<1>2. ns \in Seq(Names) /\ Len(ns) = k
  BY <1>1
<1> QED
  BY <1>1, <1>2 DEF S!Roots

\* A change goes over the names of its package.
LEMMA SkillNamed ==
  ASSUME S!TypeOK, S!ChangeInv
  PROVE  /\ \A i \in 1..Len(names) : names[i] \in Names
         /\ change \in {"aside", "place", "write", "remove"} => at \in 1..Len(names)
              /\ S!Name \in Names
         /\ change = "rollback" /\ at > 0 => at \in 1..Len(names) /\ S!Name \in Names
<1>0. names \in Seq(Names) /\ Len(names) \in Nat
  BY DEF S!TypeOK
<1>1. \A i \in 1..Len(names) : names[i] \in Names
  BY <1>0
<1>2. change \in {"aside", "place", "write", "remove"} => at \in 1..Len(names)
  <2>1. change \in {"aside", "place"} => at \in 1..Len(names)
    BY Zenon DEF S!ChangeInv
  <2>2. change \in {"write", "remove"} => at = 1 /\ Len(names) = 1
    BY Zenon DEF S!ChangeInv
  <2>3. 1 \in 1..1
    OBVIOUS
  <2> QED
    BY <2>1, <2>2, <2>3, Zenon
<1>3. change = "rollback" /\ at > 0 => at \in 1..Len(names)
  <2>1. change = "rollback" => at \in 0..Len(names)
    BY Zenon DEF S!ChangeInv
  <2> QED
    BY <1>0, <2>1
<1> QED
  BY <1>1, <1>2, <1>3 DEF S!Name

\* Every step of a change of the skills leaves the variables well typed.
LEMMA SkillTyping ==
  ASSUME S!TypeOK, S!ChangeInv, S!Next \/ UNCHANGED skillVars
  PROVE  S!TypeOK'
<1> USE SkillBounds, SkillNamed DEF S!change, S!loop, S!list, S!Listing, S!AtRest, S!Absent,
    S!TypeOK, S!Package, S!Nothing
<1>1. CASE UNCHANGED skillVars
  BY <1>1 DEF skillVars
<1>2. ASSUME NEW v \in Versions, NEW ns \in S!Roots, S!Import(ns, v) PROVE S!TypeOK'
  <2>1. ns \in Seq(Names) /\ Len(ns) \in 0..2 /\ 1 \in 1..Len(ns) /\ names' = ns
    BY <1>2, SkillRoots DEF S!Import, S!Begin
  <2>0. names' \in Seq(Names) /\ Len(names') \in 0..2 /\ 1 \in 1..Len(names')
    BY <2>1, Zenon
  <2>2. staged' \in [Names -> S!Package]
    BY <1>2 DEF S!Import
  <2>3. /\ skill' \in [Names -> S!Package] /\ backup' \in [Names -> S!Package]
        /\ before' \in [Names -> S!Package] /\ listed' \in [Names -> S!Package]
    BY <1>2 DEF S!Import, S!Begin
  <2>4. /\ change' = "aside" /\ changeKind' = "import" /\ version' = v /\ at' = 1 /\ faults' = 0
        /\ moved' = {} /\ installed' = {} /\ todo' = todo
    BY <1>2 DEF S!Import, S!Begin
  <2> QED
    BY <2>0, <2>2, <2>3, <2>4
<1>3. ASSUME NEW v \in Versions, NEW ns \in S!Roots, S!ImportRefused(ns, v) PROVE S!TypeOK'
  <2>1. ns \in Seq(Names) /\ Len(ns) \in 0..2 /\ 1 \in 1..Len(ns) /\ names' = ns
    BY <1>3, SkillRoots DEF S!ImportRefused, S!Begin
  <2>0. names' \in Seq(Names) /\ Len(names') \in 0..2 /\ 1 \in 1..Len(names')
    BY <2>1, Zenon
  <2>3. /\ skill' \in [Names -> S!Package] /\ backup' \in [Names -> S!Package]
        /\ staged' \in [Names -> S!Package]
        /\ before' \in [Names -> S!Package] /\ listed' \in [Names -> S!Package]
    BY <1>3 DEF S!ImportRefused, S!Begin
  <2>4. /\ change' = "failed" /\ changeKind' = "import" /\ version' = v /\ at' = 1 /\ faults' = 0
        /\ moved' = {} /\ installed' = {} /\ todo' = todo
    BY <1>3 DEF S!ImportRefused, S!Begin
  <2> QED
    BY <2>0, <2>3, <2>4
<1>4. ASSUME NEW v \in Versions, NEW n \in Names, S!Save(n, v) PROVE S!TypeOK'
  BY <1>4 DEF S!Save, S!Begin
<1>5. ASSUME NEW n \in Names, NEW b \in BOOLEAN, S!SetEnabled(n, b) PROVE S!TypeOK'
  BY <1>5 DEF S!SetEnabled, S!Begin
<1>6. ASSUME NEW n \in Names, S!Delete(n) PROVE S!TypeOK'
  BY <1>6 DEF S!Delete, S!Begin
<1>7. ASSUME NEW n \in Names, S!ReadUnlocked(n) PROVE S!TypeOK'
  BY <1>7 DEF S!ReadUnlocked
<1>8. ASSUME S!MoveAside PROVE S!TypeOK'
  BY <1>8 DEF S!MoveAside
<1>9. ASSUME S!NothingThere PROVE S!TypeOK'
  BY <1>9 DEF S!NothingThere
<1>10. ASSUME S!MoveAsideFails PROVE S!TypeOK'
  BY <1>10 DEF S!MoveAsideFails, S!CanFail, S!LastTouched
<1>11. ASSUME S!Place PROVE S!TypeOK'
  <2>0. change = "place" /\ \/ change' = "clean" /\ at' = at /\ at = Len(names)
                            \/ change' = "aside" /\ at' = at + 1 /\ at # Len(names)
    BY <1>11 DEF S!Place
  <2>1. S!Name \in Names /\ at \in 1..2 /\ at' \in 1..2 /\ change' \in {"clean", "aside"}
    <3>1. S!Name \in Names /\ at \in 1..Len(names) /\ Len(names) \in 0..2
      BY <2>0
    <3> DEFINE l == Len(names)
    <3>2. at \in 1..l /\ l \in 0..2 /\ (at' = at \/ (at' = at + 1 /\ at # l))
      BY <2>0, <3>1, Zenon
    <3> HIDE SkillBounds, SkillNamed DEF l, S!TypeOK
    <3>3. at \in 1..2 /\ at' \in 1..2
      BY <3>2
    <3> QED
      BY <2>0, <3>1, <3>3, Zenon
  <2>2. /\ skill' = [skill EXCEPT ![S!Name] = staged[S!Name]]
        /\ staged' = [staged EXCEPT ![S!Name] = S!Absent]
        /\ installed' = installed \cup {S!Name}
    BY <1>11 DEF S!Place
  <2>3. UNCHANGED <<backup, changeKind, names, version, before, moved, faults, todo, listed>>
    BY <1>11, Zenon DEF S!Place, S!change, S!list
  <2>4. {skill', staged'} \subseteq [Names -> S!Package]
    BY <2>1, <2>2
  <2> QED
    BY <2>1, <2>2, <2>3, <2>4
<1>12. ASSUME S!PlaceFails PROVE S!TypeOK'
  BY <1>12 DEF S!PlaceFails, S!CanFail, S!LastTouched
<1>13. ASSUME S!Uninstall PROVE S!TypeOK'
  BY <1>13 DEF S!Uninstall
<1>14. ASSUME S!MoveBack PROVE S!TypeOK'
  <2>1. S!Name \in Names /\ at \in 1..2 /\ at' \in 0..2
    BY <1>14 DEF S!MoveBack
  <2>2. skill' \in [Names -> S!Package] /\ backup' \in [Names -> S!Package]
    <3>1. CASE S!Name \in moved
      <4>1. skill' = [skill EXCEPT ![S!Name] = backup[S!Name]]
              /\ backup' = [backup EXCEPT ![S!Name] = S!Absent]
        BY <1>14, <3>1 DEF S!MoveBack
      <4> QED
        BY <2>1, <4>1
    <3>2. CASE S!Name \notin moved
      BY <1>14, <3>2 DEF S!MoveBack
    <3> QED
      BY <3>1, <3>2
  <2> QED
    BY <1>14, <2>1, <2>2 DEF S!MoveBack
<1>15. ASSUME S!RollbackFails PROVE S!TypeOK'
  BY <1>15 DEF S!RollbackFails, S!CanFail, S!LastTouched
<1>16. ASSUME S!CleanUp PROVE S!TypeOK'
  BY <1>16 DEF S!CleanUp, S!Nothing
<1>17. ASSUME S!Write PROVE S!TypeOK'
  <2>1. S!Name \in Names
    BY <1>17 DEF S!Write
  <2>2. skill[S!Name] \in S!Package
    BY <2>1
  <2>3. /\ [skill[S!Name] EXCEPT !.main = version] \in S!Package
        /\ [skill[S!Name] EXCEPT !.meta = "on"] \in S!Package
        /\ [skill[S!Name] EXCEPT !.meta = "off"] \in S!Package
    BY <2>2
  <2>4. changeKind \in {"save", "enable", "disable"}
    BY <1>17 DEF S!Write, S!ChangeInv
  <2>5. skill' \in [Names -> S!Package]
    <3>1. CASE changeKind = "save"
      BY <1>17, <2>1, <2>3, <3>1 DEF S!Write
    <3>2. CASE changeKind = "enable"
      BY <1>17, <2>1, <2>3, <3>2 DEF S!Write
    <3>3. CASE changeKind = "disable"
      BY <1>17, <2>1, <2>3, <3>3 DEF S!Write
    <3> QED
      BY <2>4, <3>1, <3>2, <3>3
  <2>6. change' = "read" /\ UNCHANGED <<backup, staged, changeKind, names, version, before, at,
                                          moved, installed, faults, listed, todo>>
    BY <1>17, Zenon DEF S!Write, S!change, S!loop, S!list
  <2> QED
    BY <2>5, <2>6
<1>18. ASSUME S!WriteFails PROVE S!TypeOK'
  BY <1>18 DEF S!WriteFails, S!CanFail, S!Fail, S!Nothing
<1>19. ASSUME S!RemoveFile PROVE S!TypeOK'
  <2>1. S!Name \in Names
    BY <1>19 DEF S!RemoveFile
  <2>2. skill[S!Name] \in S!Package
    BY <2>1
  <2>3. PICK p : skill' = [skill EXCEPT ![S!Name] = p] /\ p \in S!Package
    BY <1>19, <2>1, <2>2 DEF S!RemoveFile
  <2> QED
    BY <1>19, <2>1, <2>3 DEF S!RemoveFile
<1>20. ASSUME S!RemoveFails PROVE S!TypeOK'
  BY <1>20 DEF S!RemoveFails, S!CanFail, S!Fail, S!Nothing
<1>21. ASSUME S!Crash PROVE S!TypeOK'
  BY <1>21 DEF S!Crash, S!Nothing
<1>22. ASSUME S!List PROVE S!TypeOK'
  BY <1>22 DEF S!List, S!Nothing, S!ReadersMayEnter
<1>23. ASSUME S!ReadBack PROVE S!TypeOK'
  BY <1>23 DEF S!ReadBack
<1>24. ASSUME S!ReadBackFails PROVE S!TypeOK'
  BY <1>24 DEF S!ReadBackFails, S!CanFail
<1> QED
  BY <1>1, <1>2, <1>3, <1>4, <1>5, <1>6, <1>7, <1>8, <1>9, <1>10, <1>11, <1>12, <1>13, <1>14,
     <1>15, <1>16, <1>17, <1>18, <1>19, <1>20, <1>21, <1>22, <1>23, <1>24, Zenon DEF S!Next

\* A change that moves a directory moves one of its package.
LEMMA SkillChange ==
  ASSUME S!TypeOK, S!ChangeInv, S!Next \/ UNCHANGED skillVars
  PROVE  S!ChangeInv'
<1> USE SkillBounds, SkillNamed DEF S!change, S!loop, S!list, S!Listing, S!AtRest, S!Name,
    S!Absent, S!TypeOK, S!ChangeInv
<1>1. CASE UNCHANGED skillVars
  BY <1>1 DEF skillVars
<1>2. ASSUME NEW v \in Versions, NEW ns \in S!Roots, S!Import(ns, v) PROVE S!ChangeInv'
  <2>1. ns \in Seq(Names) /\ Len(ns) \in 0..2 /\ 1 \in 1..Len(ns) /\ names' = ns
    BY <1>2, SkillRoots DEF S!Import, S!Begin
  <2>0. names' \in Seq(Names) /\ Len(names') \in 0..2 /\ 1 \in 1..Len(names')
    BY <2>1, Zenon
  <2>2. \A i, j \in 1..Len(ns) : ns[i] = ns[j] => i = j
    BY SkillRoots
  <2>3. change' = "aside" /\ changeKind' = "import" /\ at' = 1 /\ faults' = 0
    BY <1>2 DEF S!Import, S!Begin
  <2> QED
    BY <2>0, <2>1, <2>2, <2>3
<1>3. ASSUME NEW v \in Versions, NEW ns \in S!Roots, S!ImportRefused(ns, v) PROVE S!ChangeInv'
  <2>1. names' = ns /\ \A i, j \in 1..Len(ns) : ns[i] = ns[j] => i = j
    BY <1>3, SkillRoots DEF S!ImportRefused, S!Begin
  <2>3. change' = "failed" /\ changeKind' = "import" /\ at' = 1 /\ faults' = 0
    BY <1>3 DEF S!ImportRefused, S!Begin
  <2> QED
    BY <2>1, <2>3
<1>4. ASSUME NEW v \in Versions, NEW n \in Names, S!Save(n, v) PROVE S!ChangeInv'
  BY <1>4 DEF S!Save, S!Begin
<1>5. ASSUME NEW n \in Names, NEW b \in BOOLEAN, S!SetEnabled(n, b) PROVE S!ChangeInv'
  BY <1>5 DEF S!SetEnabled, S!Begin
<1>6. ASSUME NEW n \in Names, S!Delete(n) PROVE S!ChangeInv'
  BY <1>6 DEF S!Delete, S!Begin
<1>7. ASSUME NEW n \in Names, S!ReadUnlocked(n) PROVE S!ChangeInv'
  BY <1>7 DEF S!ReadUnlocked
<1>8. ASSUME S!MoveAside PROVE S!ChangeInv'
  BY <1>8 DEF S!MoveAside
<1>9. ASSUME S!NothingThere PROVE S!ChangeInv'
  BY <1>9 DEF S!NothingThere
<1>10. ASSUME S!MoveAsideFails PROVE S!ChangeInv'
  BY <1>10 DEF S!MoveAsideFails, S!CanFail, S!LastTouched
<1>11. ASSUME S!Place PROVE S!ChangeInv'
  BY <1>11 DEF S!Place
<1>12. ASSUME S!PlaceFails PROVE S!ChangeInv'
  BY <1>12 DEF S!PlaceFails, S!CanFail, S!LastTouched
<1>13. ASSUME S!Uninstall PROVE S!ChangeInv'
  BY <1>13 DEF S!Uninstall
<1>14. ASSUME S!MoveBack PROVE S!ChangeInv'
  BY <1>14 DEF S!MoveBack
<1>15. ASSUME S!RollbackFails PROVE S!ChangeInv'
  BY <1>15 DEF S!RollbackFails, S!CanFail, S!LastTouched
<1>16. ASSUME S!CleanUp PROVE S!ChangeInv'
  <2>1. changeKind = "import"
    BY <1>16 DEF S!CleanUp
  <2>2. change' = (IF change = "clean" THEN "read" ELSE "failed") /\ change \in {"clean", "rollback"}
    BY <1>16 DEF S!CleanUp
  <2>3. UNCHANGED <<changeKind, names, at, faults>>
    BY <1>16, Zenon DEF S!CleanUp, S!change, S!loop
  <2> QED
    BY <2>1, <2>2, <2>3
<1>17. ASSUME S!Write PROVE S!ChangeInv'
  <2>1. changeKind \in {"save", "enable", "disable"} /\ faults = 0 /\ change' = "read"
    BY <1>17 DEF S!Write
  <2>2. UNCHANGED <<changeKind, names, at, faults>>
    BY <1>17, Zenon DEF S!Write, S!change, S!loop
  <2> QED
    BY <2>1, <2>2
<1>18. ASSUME S!WriteFails PROVE S!ChangeInv'
  <2>1. changeKind \in {"save", "enable", "disable"} /\ change' = "failed"
    BY <1>18 DEF S!WriteFails, S!Fail
  <2>2. UNCHANGED <<changeKind, names, at>>
    BY <1>18, Zenon DEF S!WriteFails, S!change, S!loop
  <2> QED
    BY <2>1, <2>2
<1>19. ASSUME S!RemoveFile PROVE S!ChangeInv'
  <2>1. changeKind = "delete" /\ change = "remove" /\ change' \in {"remove", "done"}
    BY <1>19 DEF S!RemoveFile
  <2>2. UNCHANGED <<changeKind, names, at, faults>>
    BY <1>19, Zenon DEF S!RemoveFile, S!change, S!loop
  <2> QED
    BY <2>1, <2>2
<1>20. ASSUME S!RemoveFails PROVE S!ChangeInv'
  BY <1>20 DEF S!RemoveFails, S!CanFail, S!Fail, S!Nothing
<1>21. ASSUME S!Crash PROVE S!ChangeInv'
  BY <1>21 DEF S!Crash, S!Nothing
<1>22. ASSUME S!List PROVE S!ChangeInv'
  BY <1>22 DEF S!List, S!Nothing, S!ReadersMayEnter
<1>23. ASSUME S!ReadBack PROVE S!ChangeInv'
  BY <1>23 DEF S!ReadBack
<1>24. ASSUME S!ReadBackFails PROVE S!ChangeInv'
  BY <1>24 DEF S!ReadBackFails, S!CanFail
<1> QED
  BY <1>1, <1>2, <1>3, <1>4, <1>5, <1>6, <1>7, <1>8, <1>9, <1>10, <1>11, <1>12, <1>13, <1>14,
     <1>15, <1>16, <1>17, <1>18, <1>19, <1>20, <1>21, <1>22, <1>23, <1>24, Zenon DEF S!Next

\* What is staged is what the package brings.
LEMMA SkillStaged ==
  ASSUME S!TypeOK, S!ChangeInv, S!StagedInv, S!Next \/ UNCHANGED skillVars
  PROVE  S!StagedInv'
<1> USE SkillBounds, SkillRoots, SkillNamed DEF S!change, S!loop, S!list, S!Listing, S!AtRest,
    S!Name, S!Absent, S!TypeOK, S!ChangeInv, S!StagedInv, S!New, S!Package, S!Nothing
<1>1. CASE UNCHANGED skillVars
  BY <1>1 DEF skillVars
<1>2. ASSUME NEW v \in Versions, NEW ns \in S!Roots, S!Import(ns, v) PROVE S!StagedInv'
  <2>1. ns \in Seq(Names) /\ Len(ns) \in 0..2 /\ 1 \in 1..Len(ns) /\ names' = ns
    BY <1>2, SkillRoots DEF S!Import, S!Begin
  <2>0. names' \in Seq(Names) /\ Len(names') \in 0..2 /\ 1 \in 1..Len(names')
    BY <2>1, Zenon
  <2>2. \A i \in 1..Len(ns) : ns[i] \in Names /\ staged'[ns[i]] = [main |-> v, meta |-> "none"]
    BY <1>2, <2>1 DEF S!Import
  <2>3. change' = "aside" /\ at' = 1 /\ moved' = {} /\ version' = v
    BY <1>2 DEF S!Import, S!Begin
  <2>4. backup' = backup /\ \A n \in Names : backup[n] = S!Absent
    BY <1>2 DEF S!Import, S!Begin
  <2> QED
    BY <2>1, <2>2, <2>3, <2>4
<1>3. ASSUME NEW v \in Versions, NEW ns \in S!Roots, S!ImportRefused(ns, v) PROVE S!StagedInv'
  BY <1>3 DEF S!ImportRefused, S!Begin
<1>4. ASSUME NEW v \in Versions, NEW n \in Names, S!Save(n, v) PROVE S!StagedInv'
  BY <1>4 DEF S!Save, S!Begin
<1>5. ASSUME NEW n \in Names, NEW b \in BOOLEAN, S!SetEnabled(n, b) PROVE S!StagedInv'
  BY <1>5 DEF S!SetEnabled, S!Begin
<1>6. ASSUME NEW n \in Names, S!Delete(n) PROVE S!StagedInv'
  BY <1>6 DEF S!Delete, S!Begin
<1>7. ASSUME NEW n \in Names, S!ReadUnlocked(n) PROVE S!StagedInv'
  BY <1>7 DEF S!ReadUnlocked
<1>8. ASSUME S!MoveAside PROVE S!StagedInv'
  BY <1>8 DEF S!MoveAside
<1>9. ASSUME S!NothingThere PROVE S!StagedInv'
  BY <1>9 DEF S!NothingThere
<1>10. ASSUME S!MoveAsideFails PROVE S!StagedInv'
  BY <1>10 DEF S!MoveAsideFails, S!CanFail, S!LastTouched
<1>11. ASSUME S!Place PROVE S!StagedInv'
  BY <1>11 DEF S!Place
<1>12. ASSUME S!PlaceFails PROVE S!StagedInv'
  BY <1>12 DEF S!PlaceFails, S!CanFail, S!LastTouched
<1>13. ASSUME S!Uninstall PROVE S!StagedInv'
  BY <1>13 DEF S!Uninstall
<1>14. ASSUME S!MoveBack PROVE S!StagedInv'
  BY <1>14 DEF S!MoveBack
<1>15. ASSUME S!RollbackFails PROVE S!StagedInv'
  BY <1>15 DEF S!RollbackFails, S!CanFail, S!LastTouched
<1>16. ASSUME S!CleanUp PROVE S!StagedInv'
  BY <1>16 DEF S!CleanUp, S!Nothing
<1>17. ASSUME S!Write PROVE S!StagedInv'
  BY <1>17 DEF S!Write
<1>18. ASSUME S!WriteFails PROVE S!StagedInv'
  BY <1>18 DEF S!WriteFails, S!CanFail, S!Fail, S!Nothing
<1>19. ASSUME S!RemoveFile PROVE S!StagedInv'
  BY <1>19 DEF S!RemoveFile
<1>20. ASSUME S!RemoveFails PROVE S!StagedInv'
  BY <1>20 DEF S!RemoveFails, S!CanFail, S!Fail, S!Nothing
<1>21. ASSUME S!Crash PROVE S!StagedInv'
  BY <1>21 DEF S!Crash, S!Nothing
<1>22. ASSUME S!List PROVE S!StagedInv'
  BY <1>22 DEF S!List, S!Nothing, S!ReadersMayEnter
<1>23. ASSUME S!ReadBack PROVE S!StagedInv'
  BY <1>23 DEF S!ReadBack
<1>24. ASSUME S!ReadBackFails PROVE S!StagedInv'
  BY <1>24 DEF S!ReadBackFails, S!CanFail
<1> QED
  BY <1>1, <1>2, <1>3, <1>4, <1>5, <1>6, <1>7, <1>8, <1>9, <1>10, <1>11, <1>12, <1>13, <1>14,
     <1>15, <1>16, <1>17, <1>18, <1>19, <1>20, <1>21, <1>22, <1>23, <1>24, Zenon DEF S!Next

\* The directories before the one at hand are new, the others are as before or aside: on
\* the way forth and, after a failure, on the way back.
LEMMA SkillImport ==
  ASSUME S!TypeOK, S!ChangeInv, S!StagedInv, S!ImportInv, S!Next \/ UNCHANGED skillVars
  PROVE  S!ImportInv'
<1> USE SkillBounds, SkillRoots, SkillNamed DEF S!change, S!loop, S!list, S!Listing, S!AtRest,
    S!Name, S!Absent, S!TypeOK, S!ChangeInv, S!StagedInv, S!ImportInv, S!New, S!Kept, S!Aside,
    S!Placed, S!Package
<1>1. CASE UNCHANGED skillVars
  BY <1>1 DEF skillVars
<1>2. ASSUME NEW v \in Versions, NEW ns \in S!Roots, S!Import(ns, v) PROVE S!ImportInv'
  BY <1>2 DEF S!Import, S!Begin
<1>3. ASSUME NEW v \in Versions, NEW ns \in S!Roots, S!ImportRefused(ns, v) PROVE S!ImportInv'
  BY <1>3 DEF S!ImportRefused, S!Begin
<1>4. ASSUME NEW v \in Versions, NEW n \in Names, S!Save(n, v) PROVE S!ImportInv'
  BY <1>4 DEF S!Save, S!Begin
<1>5. ASSUME NEW n \in Names, NEW b \in BOOLEAN, S!SetEnabled(n, b) PROVE S!ImportInv'
  BY <1>5 DEF S!SetEnabled, S!Begin
<1>6. ASSUME NEW n \in Names, S!Delete(n) PROVE S!ImportInv'
  BY <1>6 DEF S!Delete, S!Begin
<1>7. ASSUME NEW n \in Names, S!ReadUnlocked(n) PROVE S!ImportInv'
  BY <1>7 DEF S!ReadUnlocked
<1>8. ASSUME S!MoveAside PROVE S!ImportInv'
  BY <1>8 DEF S!MoveAside
<1>9. ASSUME S!NothingThere PROVE S!ImportInv'
  BY <1>9 DEF S!NothingThere
<1>10. ASSUME S!MoveAsideFails PROVE S!ImportInv'
  BY <1>10 DEF S!MoveAsideFails, S!CanFail, S!LastTouched
<1>11. ASSUME S!Place PROVE S!ImportInv'
  <2>1. at \in 1..Len(names) /\ names \in Seq(Names) /\ S!Name = names[at] /\ S!Name \in Names
    BY <1>11 DEF S!Place
  <2>2. /\ skill' = [skill EXCEPT ![S!Name] = staged[S!Name]]
        /\ installed' = installed \cup {S!Name}
        /\ UNCHANGED <<backup, changeKind, names, version, before, moved, faults>>
    BY <1>11, Zenon DEF S!Place, S!change
  <2>3. changeKind = "import" /\ faults = 0 /\ staged[S!Name] = S!New
    BY <1>11, <2>1 DEF S!Place
  <2>4. /\ \A n \in Names : (\A i \in 1..Len(names) : names[i] # n) => S!Kept(n)
        /\ \A i \in 1..Len(names) : (i < at => S!Placed(names[i])) /\ (i > at => S!Kept(names[i]))
        /\ S!Aside(S!Name)
    BY <1>11, <2>1, <2>3 DEF S!Place
  <2>5. \A n \in Names : n # S!Name => (S!Kept(n) => S!Kept(n)') /\ (S!Placed(n) => S!Placed(n)')
    BY <2>1, <2>2
  <2>6. \A n \in Names : n = S!Name => S!Placed(n)'
    <3>1. skill'[S!Name] = S!New /\ S!New = S!New'
      BY <2>1, <2>2, <2>3
    <3> QED
      BY <2>2, <2>4, <3>1
  <2>7. \A i \in 1..Len(names) : names[i] \in Names /\ (i # at => names[i] # S!Name)
    BY <2>1, <2>3
  <2>8. /\ \A n \in Names : (\A i \in 1..Len(names) : names[i] # n) => S!Kept(n)'
        /\ \A i \in 1..Len(names) :
             (i <= at => S!Placed(names[i])') /\ (i > at => S!Kept(names[i])')
    <3>1. \A n \in Names : (\A i \in 1..Len(names) : names[i] # n) => S!Kept(n)'
      <4> HIDE DEF S!Kept, S!Placed, S!Aside, S!Name
      <4> QED
        BY <2>1, <2>4, <2>5
    <3>2. ASSUME NEW i \in 1..Len(names)
          PROVE  (i <= at => S!Placed(names[i])') /\ (i > at => S!Kept(names[i])')
      <4> HIDE DEF S!Kept, S!Placed, S!Aside, S!Name
      <4>0. names' = names
        BY <2>2
      <4>1. CASE i = at
        BY <2>1, <2>6, <4>0, <4>1
      <4>2. CASE i # at
        BY <2>1, <2>4, <2>5, <2>7, <4>0, <4>2
      <4> QED
        BY <4>1, <4>2
    <3> QED
      BY <3>1, <3>2
  <2> HIDE SkillBounds, SkillRoots, SkillNamed
  <2>9. CASE at = Len(names)
    <3>1. change' = "clean" /\ \A i \in 1..Len(names) : skill'[names[i]] = S!New'
      BY <1>11, <2>1, <2>8, <2>9 DEF S!Place
    <3> HIDE DEF S!Kept, S!Placed, S!Aside, S!TypeOK, S!ChangeInv, S!StagedInv, S!New
    <3> QED
      BY <2>1, <2>2, <2>8, <3>1
  <2>10. CASE at < Len(names)
    <3>1. change' = "aside" /\ at' = at + 1 /\ at + 1 \in 1..Len(names)
      BY <1>11, <2>1, <2>10 DEF S!Place
    <3> HIDE DEF S!Kept, S!Placed, S!Aside, S!TypeOK, S!ChangeInv, S!StagedInv, S!New
    <3> QED
      BY <2>1, <2>2, <2>8, <3>1
  <2> QED
    BY <2>1, <2>9, <2>10
<1>12. ASSUME S!PlaceFails PROVE S!ImportInv'
  BY <1>12 DEF S!PlaceFails, S!CanFail, S!LastTouched
<1>13. ASSUME S!Uninstall PROVE S!ImportInv'
  BY <1>13 DEF S!Uninstall
<1>14. ASSUME S!MoveBack PROVE S!ImportInv'
  BY <1>14 DEF S!MoveBack
<1>15. ASSUME S!RollbackFails PROVE S!ImportInv'
  BY <1>15 DEF S!RollbackFails, S!CanFail, S!LastTouched
<1>16. ASSUME S!CleanUp PROVE S!ImportInv'
  BY <1>16 DEF S!CleanUp, S!Nothing
<1>17. ASSUME S!Write PROVE S!ImportInv'
  BY <1>17 DEF S!Write
<1>18. ASSUME S!WriteFails PROVE S!ImportInv'
  BY <1>18 DEF S!WriteFails, S!CanFail, S!Fail, S!Nothing
<1>19. ASSUME S!RemoveFile PROVE S!ImportInv'
  BY <1>19 DEF S!RemoveFile
<1>20. ASSUME S!RemoveFails PROVE S!ImportInv'
  BY <1>20 DEF S!RemoveFails, S!CanFail, S!Fail, S!Nothing
<1>21. ASSUME S!Crash PROVE S!ImportInv'
  BY <1>21 DEF S!Crash, S!Nothing
<1>22. ASSUME S!List PROVE S!ImportInv'
  BY <1>22 DEF S!List, S!Nothing, S!ReadersMayEnter
<1>23. ASSUME S!ReadBack PROVE S!ImportInv'
  BY <1>23 DEF S!ReadBack
<1>24. ASSUME S!ReadBackFails PROVE S!ImportInv'
  BY <1>24 DEF S!ReadBackFails, S!CanFail
<1> QED
  BY <1>1, <1>2, <1>3, <1>4, <1>5, <1>6, <1>7, <1>8, <1>9, <1>10, <1>11, <1>12, <1>13, <1>14,
     <1>15, <1>16, <1>17, <1>18, <1>19, <1>20, <1>21, <1>22, <1>23, <1>24, Zenon DEF S!Next

\* A save or a switch changes one skill: it is as before, or what is written.
LEMMA SkillWrite ==
  ASSUME S!TypeOK, S!ChangeInv, S!WriteInv, S!Next \/ UNCHANGED skillVars
  PROVE  S!WriteInv'
<1> USE SkillBounds, SkillRoots, SkillNamed DEF S!change, S!loop, S!list, S!Listing, S!AtRest,
    S!Name, S!Absent, S!TypeOK, S!ChangeInv, S!WriteInv, S!Package, S!Changed
<1>1. CASE UNCHANGED skillVars
  BY <1>1 DEF skillVars
<1>2. ASSUME NEW v \in Versions, NEW ns \in S!Roots, S!Import(ns, v) PROVE S!WriteInv'
  BY <1>2 DEF S!Import, S!Begin
<1>3. ASSUME NEW v \in Versions, NEW ns \in S!Roots, S!ImportRefused(ns, v) PROVE S!WriteInv'
  BY <1>3 DEF S!ImportRefused, S!Begin
<1>4. ASSUME NEW v \in Versions, NEW n \in Names, S!Save(n, v) PROVE S!WriteInv'
  BY <1>4 DEF S!Save, S!Begin
<1>5. ASSUME NEW n \in Names, NEW b \in BOOLEAN, S!SetEnabled(n, b) PROVE S!WriteInv'
  BY <1>5 DEF S!SetEnabled, S!Begin
<1>6. ASSUME NEW n \in Names, S!Delete(n) PROVE S!WriteInv'
  BY <1>6 DEF S!Delete, S!Begin
<1>7. ASSUME NEW n \in Names, S!ReadUnlocked(n) PROVE S!WriteInv'
  BY <1>7 DEF S!ReadUnlocked
<1>8. ASSUME S!MoveAside PROVE S!WriteInv'
  BY <1>8 DEF S!MoveAside
<1>9. ASSUME S!NothingThere PROVE S!WriteInv'
  BY <1>9 DEF S!NothingThere
<1>10. ASSUME S!MoveAsideFails PROVE S!WriteInv'
  BY <1>10 DEF S!MoveAsideFails, S!CanFail, S!LastTouched
<1>11. ASSUME S!Place PROVE S!WriteInv'
  BY <1>11 DEF S!Place
<1>12. ASSUME S!PlaceFails PROVE S!WriteInv'
  BY <1>12 DEF S!PlaceFails, S!CanFail, S!LastTouched
<1>13. ASSUME S!Uninstall PROVE S!WriteInv'
  BY <1>13 DEF S!Uninstall
<1>14. ASSUME S!MoveBack PROVE S!WriteInv'
  BY <1>14 DEF S!MoveBack
<1>15. ASSUME S!RollbackFails PROVE S!WriteInv'
  BY <1>15 DEF S!RollbackFails, S!CanFail, S!LastTouched
<1>16. ASSUME S!CleanUp PROVE S!WriteInv'
  BY <1>16 DEF S!CleanUp, S!Nothing
<1>17. ASSUME S!Write PROVE S!WriteInv'
  BY SMTT(30), <1>17 DEF S!Write
<1>18. ASSUME S!WriteFails PROVE S!WriteInv'
  BY <1>18 DEF S!WriteFails, S!CanFail, S!Fail, S!Nothing
<1>19. ASSUME S!RemoveFile PROVE S!WriteInv'
  BY <1>19 DEF S!RemoveFile
<1>20. ASSUME S!RemoveFails PROVE S!WriteInv'
  BY <1>20 DEF S!RemoveFails, S!CanFail, S!Fail, S!Nothing
<1>21. ASSUME S!Crash PROVE S!WriteInv'
  BY <1>21 DEF S!Crash, S!Nothing
<1>22. ASSUME S!List PROVE S!WriteInv'
  BY <1>22 DEF S!List, S!Nothing, S!ReadersMayEnter
<1>23. ASSUME S!ReadBack PROVE S!WriteInv'
  BY <1>23 DEF S!ReadBack
<1>24. ASSUME S!ReadBackFails PROVE S!WriteInv'
  BY <1>24 DEF S!ReadBackFails, S!CanFail
<1> QED
  BY <1>1, <1>2, <1>3, <1>4, <1>5, <1>6, <1>7, <1>8, <1>9, <1>10, <1>11, <1>12, <1>13, <1>14,
     <1>15, <1>16, <1>17, <1>18, <1>19, <1>20, <1>21, <1>22, <1>23, <1>24, Zenon DEF S!Next

\* No list is read while a change has the lock.
LEMMA SkillLock ==
  ASSUME S!TypeOK, S!LockInv, S!Next \/ UNCHANGED skillVars
  PROVE  S!LockInv'
<1> USE SkillBounds, SkillRoots, SkillNamed DEF S!change, S!loop, S!list, S!Listing, S!AtRest,
    S!Name, S!Absent, S!TypeOK, S!LockInv
<1>1. CASE UNCHANGED skillVars
  BY <1>1 DEF skillVars
<1>2. ASSUME NEW v \in Versions, NEW ns \in S!Roots, S!Import(ns, v) PROVE S!LockInv'
  BY <1>2 DEF S!Import, S!Begin
<1>3. ASSUME NEW v \in Versions, NEW ns \in S!Roots, S!ImportRefused(ns, v) PROVE S!LockInv'
  BY <1>3 DEF S!ImportRefused, S!Begin
<1>4. ASSUME NEW v \in Versions, NEW n \in Names, S!Save(n, v) PROVE S!LockInv'
  BY <1>4 DEF S!Save, S!Begin
<1>5. ASSUME NEW n \in Names, NEW b \in BOOLEAN, S!SetEnabled(n, b) PROVE S!LockInv'
  BY <1>5 DEF S!SetEnabled, S!Begin
<1>6. ASSUME NEW n \in Names, S!Delete(n) PROVE S!LockInv'
  BY <1>6 DEF S!Delete, S!Begin
<1>7. ASSUME NEW n \in Names, S!ReadUnlocked(n) PROVE S!LockInv'
  BY <1>7 DEF S!ReadUnlocked
<1>8. ASSUME S!MoveAside PROVE S!LockInv'
  BY <1>8 DEF S!MoveAside
<1>9. ASSUME S!NothingThere PROVE S!LockInv'
  BY <1>9 DEF S!NothingThere
<1>10. ASSUME S!MoveAsideFails PROVE S!LockInv'
  BY <1>10 DEF S!MoveAsideFails, S!CanFail, S!LastTouched
<1>11. ASSUME S!Place PROVE S!LockInv'
  BY <1>11 DEF S!Place
<1>12. ASSUME S!PlaceFails PROVE S!LockInv'
  BY <1>12 DEF S!PlaceFails, S!CanFail, S!LastTouched
<1>13. ASSUME S!Uninstall PROVE S!LockInv'
  BY <1>13 DEF S!Uninstall
<1>14. ASSUME S!MoveBack PROVE S!LockInv'
  BY <1>14 DEF S!MoveBack
<1>15. ASSUME S!RollbackFails PROVE S!LockInv'
  BY <1>15 DEF S!RollbackFails, S!CanFail, S!LastTouched
<1>16. ASSUME S!CleanUp PROVE S!LockInv'
  BY <1>16 DEF S!CleanUp, S!Nothing
<1>17. ASSUME S!Write PROVE S!LockInv'
  BY <1>17 DEF S!Write
<1>18. ASSUME S!WriteFails PROVE S!LockInv'
  BY <1>18 DEF S!WriteFails, S!CanFail, S!Fail, S!Nothing
<1>19. ASSUME S!RemoveFile PROVE S!LockInv'
  BY <1>19 DEF S!RemoveFile
<1>20. ASSUME S!RemoveFails PROVE S!LockInv'
  BY <1>20 DEF S!RemoveFails, S!CanFail, S!Fail, S!Nothing
<1>21. ASSUME S!Crash PROVE S!LockInv'
  BY <1>21 DEF S!Crash, S!Nothing
<1>22. ASSUME S!List PROVE S!LockInv'
  BY <1>22 DEF S!List, S!Nothing, S!ReadersMayEnter
<1>23. ASSUME S!ReadBack PROVE S!LockInv'
  BY <1>23 DEF S!ReadBack
<1>24. ASSUME S!ReadBackFails PROVE S!LockInv'
  BY <1>24 DEF S!ReadBackFails, S!CanFail
<1> QED
  BY <1>1, <1>2, <1>3, <1>4, <1>5, <1>6, <1>7, <1>8, <1>9, <1>10, <1>11, <1>12, <1>13, <1>14,
     <1>15, <1>16, <1>17, <1>18, <1>19, <1>20, <1>21, <1>22, <1>23, <1>24, Zenon DEF S!Next

\* A list is of the skills of one moment.
LEMMA SkillLists ==
  ASSUME S!TypeOK, S!LockInv, S!ListsAreConsistent, S!Next \/ UNCHANGED skillVars
  PROVE  S!ListsAreConsistent'
<1> USE SkillBounds, SkillRoots, SkillNamed DEF S!change, S!loop, S!list, S!Listing, S!AtRest,
    S!Name, S!Absent, S!TypeOK, S!LockInv, S!ListsAreConsistent, S!Visible, S!Package
<1>1. CASE UNCHANGED skillVars
  BY <1>1 DEF skillVars
<1>2. ASSUME NEW v \in Versions, NEW ns \in S!Roots, S!Import(ns, v) PROVE S!ListsAreConsistent'
  BY <1>2 DEF S!Import, S!Begin
<1>3. ASSUME NEW v \in Versions, NEW ns \in S!Roots,
             S!ImportRefused(ns, v) PROVE S!ListsAreConsistent'
  BY <1>3 DEF S!ImportRefused, S!Begin
<1>4. ASSUME NEW v \in Versions, NEW n \in Names, S!Save(n, v) PROVE S!ListsAreConsistent'
  BY <1>4 DEF S!Save, S!Begin
<1>5. ASSUME NEW n \in Names, NEW b \in BOOLEAN, S!SetEnabled(n, b) PROVE S!ListsAreConsistent'
  BY <1>5 DEF S!SetEnabled, S!Begin
<1>6. ASSUME NEW n \in Names, S!Delete(n) PROVE S!ListsAreConsistent'
  BY <1>6 DEF S!Delete, S!Begin
<1>7. ASSUME NEW n \in Names, S!ReadUnlocked(n) PROVE S!ListsAreConsistent'
  BY <1>7 DEF S!ReadUnlocked
<1>8. ASSUME S!MoveAside PROVE S!ListsAreConsistent'
  BY <1>8 DEF S!MoveAside
<1>9. ASSUME S!NothingThere PROVE S!ListsAreConsistent'
  BY <1>9 DEF S!NothingThere
<1>10. ASSUME S!MoveAsideFails PROVE S!ListsAreConsistent'
  BY <1>10 DEF S!MoveAsideFails, S!CanFail, S!LastTouched
<1>11. ASSUME S!Place PROVE S!ListsAreConsistent'
  BY <1>11 DEF S!Place
<1>12. ASSUME S!PlaceFails PROVE S!ListsAreConsistent'
  BY <1>12 DEF S!PlaceFails, S!CanFail, S!LastTouched
<1>13. ASSUME S!Uninstall PROVE S!ListsAreConsistent'
  BY <1>13 DEF S!Uninstall
<1>14. ASSUME S!MoveBack PROVE S!ListsAreConsistent'
  BY <1>14 DEF S!MoveBack
<1>15. ASSUME S!RollbackFails PROVE S!ListsAreConsistent'
  BY <1>15 DEF S!RollbackFails, S!CanFail, S!LastTouched
<1>16. ASSUME S!CleanUp PROVE S!ListsAreConsistent'
  BY <1>16 DEF S!CleanUp, S!Nothing
<1>17. ASSUME S!Write PROVE S!ListsAreConsistent'
  BY <1>17 DEF S!Write
<1>18. ASSUME S!WriteFails PROVE S!ListsAreConsistent'
  BY <1>18 DEF S!WriteFails, S!CanFail, S!Fail, S!Nothing
<1>19. ASSUME S!RemoveFile PROVE S!ListsAreConsistent'
  BY <1>19 DEF S!RemoveFile
<1>20. ASSUME S!RemoveFails PROVE S!ListsAreConsistent'
  BY <1>20 DEF S!RemoveFails, S!CanFail, S!Fail, S!Nothing
<1>21. ASSUME S!Crash PROVE S!ListsAreConsistent'
  BY <1>21 DEF S!Crash, S!Nothing
<1>22. ASSUME S!List PROVE S!ListsAreConsistent'
  BY <1>22 DEF S!List, S!Nothing, S!ReadersMayEnter
<1>23. ASSUME S!ReadBack PROVE S!ListsAreConsistent'
  BY <1>23 DEF S!ReadBack
<1>24. ASSUME S!ReadBackFails PROVE S!ListsAreConsistent'
  BY <1>24 DEF S!ReadBackFails, S!CanFail
<1> QED
  BY <1>1, <1>2, <1>3, <1>4, <1>5, <1>6, <1>7, <1>8, <1>9, <1>10, <1>11, <1>12, <1>13, <1>14,
     <1>15, <1>16, <1>17, <1>18, <1>19, <1>20, <1>21, <1>22, <1>23, <1>24, Zenon DEF S!Next

\* The registry starts so.
LEMMA SkillStarts == S!Init => S!IInv
<1> SUFFICES ASSUME S!Init PROVE S!IInv
  OBVIOUS
<1> USE SkillBounds DEF S!Init, S!Absent, S!Nothing
<1>1. S!TypeOK
  BY DEF S!TypeOK, S!Package
<1>2. S!ChangeInv /\ S!ImportInv /\ S!StagedInv /\ S!WriteInv /\ S!LockInv /\ S!ListsAreConsistent
  BY DEF S!ChangeInv, S!ImportInv, S!StagedInv, S!WriteInv, S!LockInv, S!ListsAreConsistent,
     S!Listing
<1> QED
  BY <1>1, <1>2 DEF S!IInv

\* Every step of a change, a failure, a restart and a list keep it.
LEMMA SkillStep == ASSUME S!IInv, S!Next \/ UNCHANGED skillVars PROVE S!IInv'
<1> USE DEF S!IInv
<1>1. S!TypeOK' /\ S!ChangeInv' /\ S!StagedInv' /\ S!ImportInv'
  BY SkillTyping, SkillChange, SkillStaged, SkillImport
<1>2. S!WriteInv' /\ S!LockInv' /\ S!ListsAreConsistent'
  BY SkillWrite, SkillLock, SkillLists
<1> QED
  BY <1>1, <1>2

\* What the component states of imports follows.
LEMMA SkillsAreWhole == ASSUME S!IInv PROVE S!ImportsAreWhole /\ S!NoSkillIsLost
<1> USE SkillBounds DEF S!IInv, S!TypeOK, S!ChangeInv
<1>1. S!Imported = {names[i] : i \in 1..Len(names)}
  BY DEF S!Imported
<1>2. ASSUME change \in {"done", "unread"}, changeKind # "delete", NEW n \in Names
      PROVE  skill[n] = IF n \in S!Imported THEN S!Changed(before[n]) ELSE before[n]
  <2>1. faults <= 1
    BY <1>2, Zenon
  <2>2. CASE changeKind = "import"
    BY <1>1, <1>2, <2>1, <2>2 DEF S!ImportInv, S!New, S!Kept, S!Changed
  <2>3. CASE changeKind \in {"save", "enable", "disable"}
    <3>1. Len(names) = 1 /\ S!Imported = {names[1]}
      BY <1>1, <2>3
    <3> QED
      BY <1>2, <2>3, <3>1 DEF S!WriteInv
  <2> QED
    BY <1>2, <2>2, <2>3
<1>3. ASSUME change = "failed", changeKind # "delete", faults <= 1, NEW n \in Names
      PROVE  skill[n] = before[n] \/ (before[n] = S!Absent /\ skill[n].main = 0)
  BY <1>1, <1>3 DEF S!ImportInv, S!WriteInv, S!Kept
<1>4. S!ImportsAreWhole
  BY <1>2, <1>3 DEF S!ImportsAreWhole, S!Visible, S!Absent
<1>5. S!NoSkillIsLost
  BY <1>1 DEF S!NoSkillIsLost, S!ImportInv, S!New, S!Kept, S!Aside, S!Placed, S!Absent
<1> QED
  BY <1>4, <1>5

-----------------------------------------------------------------------------
(* The configuration *)

\* A step of either instance of Configuration, which share their tables.
ConfigurationNext ==
    \/ \E r \in Requests : C!Begin(r) \/ R!Begin(r) \/ C!Step(r)
    \/ \E d \in detections : C!Detected(d)

\* A step of either instance is one of these.
LEMMA ConfigurationMoves == ASSUME C!Next \/ R!Next PROVE ConfigurationNext
<1>1. ASSUME NEW r PROVE R!Step(r) => C!Step(r)
  <2>1. /\ R!Commit(r) => C!Commit(r)
        /\ R!ReadActive(r) => C!ReadActive(r)
        /\ R!ReadSettings(r) => C!ReadSettings(r)
    BY Zenon DEF R!Commit, C!Commit, R!CommitSave, C!CommitSave, R!CommitActivate, C!CommitActivate,
       R!CommitDelete, C!CommitDelete, R!CommitSettings, C!CommitSettings, R!CommitProxy,
          C!CommitProxy,
       R!CommitImport, C!CommitImport, R!Written, C!Written, R!Upserted, C!Upserted, R!Imported,
       C!Imported, R!Activated, C!Activated, R!UniqueActive, C!UniqueActive, R!ProxyUnused,
          C!ProxyUnused,
       R!ReadActive, C!ReadActive, R!ReadSettings, C!ReadSettings, R!Usable, C!Usable, R!Refs,
          C!Refs,
       R!tables, C!tables, R!agent, C!agent, R!Idle, C!Idle, R!NoRow, C!NoRow
  <2>2. /\ R!CommitFails(r) => C!CommitFails(r)
        /\ R!ReadSelected(r) => C!ReadSelected(r)
        /\ R!Lock(r) => C!Lock(r)
        /\ R!ReloadFails(r) => C!ReloadFails(r)
        /\ R!Install(r) => C!Install(r)
        /\ R!BuildFails(r) => C!BuildFails(r)
        /\ R!SetReviewers(r) => C!SetReviewers(r)
    BY Zenon DEF R!CommitFails, C!CommitFails, R!ReadSelected, C!ReadSelected, R!Lock, C!Lock,
       R!LockFree,
       C!LockFree, R!ReloadFails, C!ReloadFails, R!Install, C!Install, R!BuildFails, C!BuildFails,
       R!SetReviewers, C!SetReviewers, R!tables, C!tables, R!agent, C!agent, R!Idle, C!Idle
  <2> QED
    BY <2>1, <2>2, Zenon DEF R!Step, C!Step
<1>2. ASSUME NEW d PROVE R!Detected(d) => C!Detected(d)
  BY Zenon DEF R!Detected, C!Detected, R!CurrentDetection, C!CurrentDetection, R!tables, C!tables
<1> QED
  BY <1>1, <1>2, ConfigurationBounds, Zenon DEF C!Next, R!Next, ConfigurationNext

\* A request that waits for work has written nothing.
LEMMA IdleTyping == C!Idle \in C!Locals /\ C!Idle.wrote = 0 /\ C!Idle.pc = "idle"
BY ConfigurationBounds DEF C!Idle, C!Locals, C!Pcs, C!Kinds, C!Refs

\* A request that begins has only checked.
LEMMA ConfigurationBegins ==
  ASSUME C!TypeOK, NEW r \in Requests, C!Begin(r) \/ R!Begin(r)
  PROVE  /\ request[r].pc = "idle" /\ UNCHANGED <<C!tables, C!agent>>
         /\ \E l \in C!Locals :
               /\ request' = [request EXCEPT ![r] = l]
               /\ l.pc \in {"commit", "lock"} /\ l.wrote = 0
               /\ l.pc = "commit" /\ l.kind \in {"save", "activate", "delete", "import"}
                    => l.target \in Providers
<1>1. request[r].pc = "idle" /\ UNCHANGED <<C!tables, C!agent>>
  BY DEF C!Begin, R!Begin, R!tables, R!agent, C!tables, C!agent
<1>2. \/ C!CheckSave(r) \/ C!CheckActivate(r) \/ C!CheckDelete(r) \/ C!CheckSettings(r)
      \/ C!CheckProxy(r) \/ C!CheckImport(r) \/ C!OnlyReload(r) \/ R!OnlyReload(r)
  BY Zenon DEF C!Begin, R!Begin, R!CheckSave, C!CheckSave, R!CheckActivate, C!CheckActivate,
     R!CheckDelete, C!CheckDelete, R!CheckSettings, C!CheckSettings, R!CheckProxy, C!CheckProxy,
     R!CheckImport, C!CheckImport, R!Idle, C!Idle, R!Refs, C!Refs
<1>3. (\A p \in Providers : providers[p].active \in BOOLEAN) /\ approver \in C!Refs
  BY DEF C!TypeOK, C!Row
<1> DEFINE Asks(l) ==
      /\ l.pc \in {"commit", "lock"} /\ l.wrote = 0
      /\ l.pc = "commit" /\ l.kind \in {"save", "activate", "delete", "import"}
           => l.target \in Providers
<1> DEFINE Asked == \E l \in C!Locals : request' = [request EXCEPT ![r] = l] /\ Asks(l)
<1>4. ASSUME C!CheckSave(r) PROVE Asked
  <2>1. PICK p \in Providers, x \in BOOLEAN : request' = [request EXCEPT ![r] =
           [C!Idle EXCEPT !.pc = "commit", !.kind = "save", !.target = p,
              !.proxied = x, !.active = providers[p].active]]
    BY <1>4, <1>3, Zenon DEF C!CheckSave
  <2> DEFINE b == providers[p].active
  <2>2. b \in BOOLEAN
    BY <1>3, <2>1
  <2> HIDE DEF b
  <2> DEFINE l == [C!Idle EXCEPT !.pc = "commit", !.kind = "save", !.target = p,
              !.proxied = x, !.active = b]
  <2>3. l \in C!Locals
    BY IdleTyping, <2>2 DEF C!Locals, C!Pcs, C!Kinds, C!Refs
  <2>4. Asks(l)
    BY IdleTyping DEF C!Locals
  <2>5. request' = [request EXCEPT ![r] = l]
    BY <2>1 DEF b
  <2> QED
    BY <2>3, <2>4, <2>5, Zenon
<1>5. ASSUME C!CheckActivate(r) PROVE Asked
  <2>1. PICK p \in Providers : request' = [request EXCEPT ![r] =
           [C!Idle EXCEPT !.pc = "commit", !.kind = "activate", !.target = p]]
    BY <1>5, <1>3, Zenon DEF C!CheckActivate
  <2> DEFINE l == [C!Idle EXCEPT !.pc = "commit", !.kind = "activate", !.target = p]
  <2>3. l \in C!Locals
    BY IdleTyping DEF C!Locals, C!Pcs, C!Kinds, C!Refs
  <2>4. Asks(l)
    BY IdleTyping DEF C!Locals
  <2>5. request' = [request EXCEPT ![r] = l]
    BY <2>1
  <2> QED
    BY <2>3, <2>4, <2>5, Zenon
<1>6. ASSUME C!CheckDelete(r) PROVE Asked
  <2>1. PICK p \in Providers : request' = [request EXCEPT ![r] =
           [C!Idle EXCEPT !.pc = "commit", !.kind = "delete", !.target = p,
              !.active = providers[p].active]]
    BY <1>6, <1>3, Zenon DEF C!CheckDelete
  <2> DEFINE b == providers[p].active
  <2>2. b \in BOOLEAN
    BY <1>3, <2>1
  <2> HIDE DEF b
  <2> DEFINE l == [C!Idle EXCEPT !.pc = "commit", !.kind = "delete", !.target = p,
              !.active = b]
  <2>3. l \in C!Locals
    BY IdleTyping, <2>2 DEF C!Locals, C!Pcs, C!Kinds, C!Refs
  <2>4. Asks(l)
    BY IdleTyping DEF C!Locals
  <2>5. request' = [request EXCEPT ![r] = l]
    BY <2>1 DEF b
  <2> QED
    BY <2>3, <2>4, <2>5, Zenon
<1>7. ASSUME C!CheckSettings(r) PROVE Asked
  <2>1. PICK p \in C!Refs : request' = [request EXCEPT ![r] =
           [C!Idle EXCEPT !.pc = "commit", !.kind = "settings", !.target = p]]
    BY <1>7, <1>3 DEF C!CheckSettings
  <2> DEFINE l == [C!Idle EXCEPT !.pc = "commit", !.kind = "settings", !.target = p]
  <2>3. l \in C!Locals
    BY IdleTyping DEF C!Locals, C!Pcs, C!Kinds, C!Refs
  <2>4. Asks(l)
    BY IdleTyping DEF C!Locals
  <2>5. request' = [request EXCEPT ![r] = l]
    BY <2>1
  <2> QED
    BY <2>3, <2>4, <2>5, Zenon
<1>8. ASSUME C!CheckProxy(r) PROVE Asked
  <2>1. request' = [request EXCEPT ![r] = [C!Idle EXCEPT !.pc = "commit", !.kind = "deleteProxy"]]
    BY <1>8, Zenon DEF C!CheckProxy
  <2> DEFINE l == [C!Idle EXCEPT !.pc = "commit", !.kind = "deleteProxy"]
  <2>3. l \in C!Locals
    BY IdleTyping DEF C!Locals, C!Pcs, C!Kinds, C!Refs
  <2>4. Asks(l)
    BY IdleTyping DEF C!Locals
  <2>5. request' = [request EXCEPT ![r] = l]
    BY <2>1
  <2> QED
    BY <2>3, <2>4, <2>5, Zenon
<1>9. ASSUME C!CheckImport(r) PROVE Asked
  <2>1. PICK p \in Providers, x \in BOOLEAN, a \in BOOLEAN : request' = [request EXCEPT ![r] =
           [C!Idle EXCEPT !.pc = "commit", !.kind = "import", !.target = p,
              !.proxied = x, !.active = a]]
    BY <1>9, <1>3, Zenon DEF C!CheckImport
  <2> DEFINE l == [C!Idle EXCEPT !.pc = "commit", !.kind = "import", !.target = p,
              !.proxied = x, !.active = a]
  <2>3. l \in C!Locals
    BY IdleTyping DEF C!Locals, C!Pcs, C!Kinds, C!Refs
  <2>4. Asks(l)
    BY IdleTyping DEF C!Locals
  <2>5. request' = [request EXCEPT ![r] = l]
    BY <2>1
  <2> QED
    BY <2>3, <2>4, <2>5, Zenon
<1>10. ASSUME C!OnlyReload(r) \/ R!OnlyReload(r) PROVE Asked
  <2>1. request' = [request EXCEPT ![r] = [C!Idle EXCEPT !.pc = "lock"]]
    BY <1>10, Zenon DEF C!OnlyReload, R!OnlyReload, R!Idle, C!Idle
  <2> DEFINE l == [C!Idle EXCEPT !.pc = "lock"]
  <2>3. l \in C!Locals
    BY IdleTyping DEF C!Locals, C!Pcs, C!Kinds, C!Refs
  <2>4. Asks(l)
    BY IdleTyping DEF C!Locals
  <2>5. request' = [request EXCEPT ![r] = l]
    BY <2>1
  <2> QED
    BY <2>3, <2>4, <2>5, Zenon
<1>11. Asked
  BY <1>2, <1>4, <1>5, <1>6, <1>7, <1>8, <1>9, <1>10, Zenon
<1> QED
  BY <1>1, <1>11, Zenon

\* A write of the tables is stamped with a new time.
LEMMA ConfigurationWritten ==
  ASSUME C!TypeOK, NEW r \in Requests, NEW then \in {"idle", "lock", "selected"},
         clock < MaxWrites, C!Written(r, then)
  PROVE  /\ clock' = clock + 1 /\ clock' \in 0..MaxWrites
         /\ \E l \in C!Locals : /\ request' = [request EXCEPT ![r] = l]
                                /\ l.pc = then /\ l.wrote <= clock'
<1>1. clock' = clock + 1 /\ clock' \in 0..MaxWrites /\ clock + 1 \in 0..MaxWrites
  BY ConfigurationBounds DEF C!TypeOK, C!Written
<1>2. CASE then = "idle"
  <2>1. request' = [request EXCEPT ![r] = C!Idle]
    BY <1>2 DEF C!Written
  <2>2. 0 <= clock'
    BY <1>1
  <2> QED
    BY <1>1, <1>2, <2>1, <2>2, IdleTyping
<1>3. CASE then # "idle"
  <2>1. request[r].target \in C!Refs
    BY DEF C!TypeOK, C!Locals
  <2>2. PICK t \in C!Refs :
          request' = [request EXCEPT
            ![r] = [C!Idle EXCEPT !.pc = then, !.wrote = clock + 1, !.target = t]]
    BY <1>3, <2>1 DEF C!Written, C!Refs
  <2> DEFINE n == clock + 1
  <2>3. n \in 0..MaxWrites /\ n <= clock'
    BY <1>1
  <2> HIDE DEF n
  <2> DEFINE l == [C!Idle EXCEPT !.pc = then, !.wrote = n, !.target = t]
  <2>4. l \in C!Locals /\ l.pc = then /\ l.wrote = n
    BY <2>3, IdleTyping DEF C!Locals, C!Pcs
  <2>5. request' = [request EXCEPT ![r] = l]
    BY <2>2, Zenon DEF n
  <2> QED
    BY <1>1, <2>3, <2>4, <2>5
<1> QED
  BY <1>2, <1>3

\* A request that writes changes the tables as its kind does, and goes on to reload.
LEMMA ConfigurationCommits ==
  ASSUME C!TypeOK, C!RequestsInv, NEW r \in Requests, C!Commit(r)
  PROVE  /\ request[r].pc = "commit" /\ UNCHANGED C!agent
         /\ clock' = clock + 1 /\ clock' \in 0..MaxWrites
         /\ providers' \in [Providers -> C!Row] /\ proxyExists' \in BOOLEAN /\ approver' \in C!Refs
         /\ \E l \in C!Locals : /\ request' = [request EXCEPT ![r] = l]
                                /\ l.pc \in {"idle", "lock", "selected"} /\ l.wrote <= clock'
<1> DEFINE q == request[r]
<1>1. q \in C!Locals /\ q.pc = "commit" /\ clock < MaxWrites /\ UNCHANGED C!agent
  BY DEF C!TypeOK, C!Commit
<1>2. q.kind \in {"save", "activate", "delete", "import"} => q.target \in Providers
  BY <1>1 DEF C!RequestsInv
<1>3. q.proxied \in BOOLEAN /\ q.active \in BOOLEAN /\ q.target \in C!Refs
  BY <1>1 DEF C!Locals
<1>4. providers \in [Providers -> C!Row] /\ proxyExists \in BOOLEAN /\ approver \in C!Refs
  BY DEF C!TypeOK
<1> DEFINE Tables == /\ providers' \in [Providers -> C!Row] /\ proxyExists' \in BOOLEAN
                     /\ approver' \in C!Refs
           Writes == \E then \in {"idle", "lock", "selected"} : C!Written(r, then)
<1>5. ASSUME C!CommitSave(r) PROVE Tables /\ Writes
  <2>1. q.kind = "save" /\ providers' = C!Upserted(q) /\ UNCHANGED <<proxyExists,
     approver>> /\ Writes
    BY <1>5, Zenon DEF C!CommitSave
  <2> DEFINE p == providers[q.target]
             b == IF p.exists THEN p.active ELSE q.active
             row == [exists |-> TRUE, proxied |-> q.proxied, active |-> b]
  <2>2. b \in BOOLEAN
    BY <1>2, <1>3, <1>4, <2>1 DEF C!Row
  <2>3. row \in C!Row
    <3> HIDE DEF b
    <3> QED
      BY <1>3, <2>2 DEF C!Row
  <2>4. C!Upserted(q) = [providers EXCEPT ![q.target] = row]
    BY DEF C!Upserted
  <2> HIDE DEF row
  <2> QED
    BY <1>4, <2>1, <2>3, <2>4
<1>6. ASSUME C!CommitActivate(r) PROVE Tables /\ Writes
  <2>1. providers' = C!Activated(q.target) /\ UNCHANGED <<proxyExists, approver>> /\ Writes
    BY <1>6, Zenon DEF C!CommitActivate
  <2>2. ASSUME NEW x \in Providers PROVE [providers[x] EXCEPT !.active = (x = q.target)] \in C!Row
    BY <1>4 DEF C!Row
  <2> QED
    BY <1>4, <2>1, <2>2 DEF C!Activated
<1>7. ASSUME C!CommitDelete(r) PROVE Tables /\ Writes
  <2>1. /\ providers' = [providers EXCEPT ![q.target] = C!NoRow]
        /\ UNCHANGED <<proxyExists, approver>> /\ Writes
    BY <1>7, Zenon DEF C!CommitDelete
  <2> QED
    BY <1>4, <2>1 DEF C!NoRow, C!Row
<1>8. ASSUME C!CommitSettings(r) PROVE Tables /\ Writes
  BY <1>3, <1>4, <1>8 DEF C!CommitSettings
<1>9. ASSUME C!CommitProxy(r) PROVE Tables /\ Writes
  BY <1>4, <1>9 DEF C!CommitProxy
<1>10. ASSUME C!CommitImport(r) PROVE Tables /\ Writes
  <2>1. providers' = C!Imported(q) /\ UNCHANGED <<proxyExists, approver>> /\ Writes
    BY <1>10, Zenon DEF C!CommitImport
  <2> DEFINE Row(x) == IF x = q.target
                       THEN [exists |-> TRUE, proxied |-> q.proxied,
                             active |-> IF q.active THEN TRUE
                                        ELSE providers[x].exists /\ providers[x].active]
                       ELSE [providers[x] EXCEPT !.active = @ /\ ~q.active]
  <2>2. ASSUME NEW x \in Providers PROVE Row(x) \in C!Row
    BY <1>3, <1>4 DEF C!Row
  <2>3. C!Imported(q) = [x \in Providers |-> Row(x)]
    BY Zenon DEF C!Imported
  <2> HIDE DEF Row
  <2> QED
    BY <1>4, <2>1, <2>2, <2>3
<1>11. Tables /\ Writes
  BY <1>5, <1>6, <1>7, <1>8, <1>9, <1>10, Zenon DEF C!Commit
<1>12. PICK then \in {"idle", "lock", "selected"} : C!Written(r, then)
  BY <1>11
<1>13. /\ clock' = clock + 1 /\ clock' \in 0..MaxWrites
       /\ \E l \in C!Locals : /\ request' = [request EXCEPT ![r] = l]
                              /\ l.pc = then /\ l.wrote <= clock'
  BY <1>1, <1>12, ConfigurationWritten
<1> QED
  BY <1>1, <1>11, <1>13

\* Every step of a request and a detection leaves the variables well typed.
LEMMA ConfigurationTyping ==
  ASSUME C!TypeOK, C!RequestsInv, ConfigurationNext \/ UNCHANGED configurationVars
  PROVE  C!TypeOK'
<1> USE DEF C!TypeOK, C!Locals, C!Pcs, C!Refs
<1>1. CASE UNCHANGED configurationVars
  BY <1>1 DEF configurationVars
<1>2. ASSUME NEW r \in Requests, C!Begin(r) \/ R!Begin(r) PROVE C!TypeOK'
  <2>1. PICK l \in C!Locals :
          /\ request' = [request EXCEPT ![r] = l] /\ request[r].pc = "idle"
          /\ l.pc \in {"commit", "lock"} /\ l.wrote = 0
          /\ l.pc = "commit" /\ l.kind \in {"save", "activate", "delete", "import"}
               => l.target \in Providers
    BY <1>2, ConfigurationBegins, Zenon
  <2>2. UNCHANGED <<C!tables, C!agent>>
    BY <1>2, ConfigurationBegins, Zenon
  <2> QED
    BY <2>1, <2>2 DEF C!tables, C!agent
<1>3. ASSUME NEW r \in Requests, C!Commit(r) PROVE C!TypeOK'
  <2>1. PICK l \in C!Locals :
          /\ request' = [request EXCEPT ![r] = l] /\ request[r].pc = "commit"
          /\ l.pc \in {"idle", "lock", "selected"} /\ l.wrote <= clock'
    BY <1>3, ConfigurationCommits, Zenon
  <2>2. /\ UNCHANGED C!agent /\ clock' = clock + 1 /\ clock' \in 0..MaxWrites
        /\ providers' \in [Providers -> C!Row] /\ proxyExists' \in BOOLEAN /\ approver' \in C!Refs
    BY <1>3, ConfigurationCommits, Zenon
  <2> QED
    BY <2>1, <2>2 DEF C!agent
<1>4. ASSUME NEW r \in Requests, C!CommitFails(r) PROVE C!TypeOK'
  BY <1>4, IdleTyping DEF C!CommitFails, C!tables, C!agent
<1>5. ASSUME NEW r \in Requests, C!ReadSelected(r) PROVE C!TypeOK'
  <2>1. request[r] \in C!Locals /\ UNCHANGED <<C!tables, C!agent>>
    BY <1>5 DEF C!ReadSelected
  <2>2. /\ [request[r] EXCEPT !.pc = "lock", !.target = None] \in C!Locals
        /\ C!Idle \in C!Locals
    BY <2>1, IdleTyping
  <2>3. PICK l \in C!Locals : request' = [request EXCEPT ![r] = l]
    BY <1>5, <2>2 DEF C!ReadSelected
  <2> QED
    BY <2>1, <2>3 DEF C!tables, C!agent
<1>6. ASSUME NEW r \in Requests, C!Lock(r) PROVE C!TypeOK'
  BY <1>6, IdleTyping DEF C!Lock, C!tables
<1>7. ASSUME NEW r \in Requests, C!ReadActive(r) PROVE C!TypeOK'
  <2>1. request[r] \in C!Locals /\ clock \in 0..MaxWrites /\ UNCHANGED <<C!tables, C!agent>>
    BY <1>7 DEF C!ReadActive
  <2>2. PICK p \in C!Refs : request' = [request EXCEPT ![r] =
            [request[r] EXCEPT !.pc = IF p = None THEN "install" ELSE "settings",
                               !.read = p, !.asOf = clock]]
    BY <1>7 DEF C!ReadActive
  <2> DEFINE step == IF p = None THEN "install" ELSE "settings"
             l == [request[r] EXCEPT !.pc = step, !.read = p, !.asOf = clock]
  <2>3. l \in C!Locals
    <3>1. step \in C!Pcs
      OBVIOUS
    <3> HIDE DEF step
    <3> QED
      BY <2>1, <2>2, <3>1
  <2>4. request' = [request EXCEPT ![r] = l]
    BY <2>2
  <2> HIDE DEF l
  <2> QED
    BY <2>1, <2>3, <2>4 DEF C!tables, C!agent
<1>8. ASSUME NEW r \in Requests, C!ReadSettings(r) PROVE C!TypeOK'
  <2>1. request[r] \in C!Locals /\ UNCHANGED <<C!tables, C!agent>>
    BY <1>8 DEF C!ReadSettings
  <2> DEFINE chosen == IF approver = None THEN request[r].read ELSE approver
             a == IF chosen = request[r].read \/ C!Usable(chosen) THEN chosen ELSE None
             l == [request[r] EXCEPT !.pc = "install", !.approver = a]
  <2>2. a \in C!Refs
    BY <2>1
  <2>3. l \in C!Locals
    <3> HIDE DEF a
    <3> QED
      BY <2>1, <2>2
  <2>4. request' = [request EXCEPT ![r] = l]
    BY <1>8, Zenon DEF C!ReadSettings
  <2> HIDE DEF l
  <2> QED
    BY <2>1, <2>3, <2>4 DEF C!tables, C!agent
<1>9. ASSUME NEW r \in Requests, C!ReloadFails(r) PROVE C!TypeOK'
  BY <1>9, IdleTyping DEF C!ReloadFails, C!tables
<1>10. ASSUME NEW r \in Requests, C!Install(r) PROVE C!TypeOK'
  BY <1>10, IdleTyping DEF C!Install, C!tables
<1>11. ASSUME NEW r \in Requests, C!BuildFails(r) PROVE C!TypeOK'
  <2>1. request[r] \in C!Locals
    BY <1>11
  <2> DEFINE l == [request[r] EXCEPT !.pc = "reviewers", !.read = None, !.approver = None]
  <2>2. l \in C!Locals
    BY <2>1
  <2>3. request' = [request EXCEPT ![r] = l]
    BY <1>11 DEF C!BuildFails
  <2> HIDE DEF l
  <2>4. request' \in [Requests -> C!Locals]
    BY <2>2, <2>3
  <2>5. runtime' \in [provider : C!Refs, asOf : 0..MaxWrites, window : C!Refs]
    BY <1>11, <2>1 DEF C!BuildFails
  <2>6. revision' \in Nat /\ detections' \subseteq [provider : Providers, revision : 0..revision']
    BY <1>11 DEF C!BuildFails
  <2> QED
    BY <1>11, <2>4, <2>5, <2>6 DEF C!BuildFails, C!tables
<1>12. ASSUME NEW r \in Requests, C!SetReviewers(r) PROVE C!TypeOK'
  <2>1. request[r] \in C!Locals /\ request[r].wrote <= clock
    BY <1>12 DEF C!RequestsInv
  <2>2. reviewers' \in [provider : C!Refs, asOf : 0..MaxWrites]
    <3> DEFINE p == IF request[r].read = None THEN None ELSE request[r].approver
    <3>1. p \in C!Refs
      BY <2>1
    <3>2. reviewers' = [provider |-> p, asOf |-> request[r].asOf]
      BY <1>12 DEF C!SetReviewers
    <3> HIDE DEF p
    <3> QED
      BY <2>1, <3>1, <3>2
  <2>3. request' \in [Requests -> C!Locals]
    BY <1>12, IdleTyping DEF C!SetReviewers
  <2>4. acked' \in 0..clock'
    BY <1>12, <2>1 DEF C!SetReviewers, C!tables
  <2> QED
    BY <1>12, <2>2, <2>3, <2>4 DEF C!SetReviewers, C!tables
<1>13. ASSUME NEW d \in detections, C!Detected(d) PROVE C!TypeOK'
  BY <1>13 DEF C!Detected, C!CurrentDetection, C!tables
<1> QED
  BY <1>1, <1>2, <1>3, <1>4, <1>5, <1>6, <1>7, <1>8, <1>9, <1>10, <1>11, <1>12, <1>13, Zenon
     DEF ConfigurationNext, C!Step

\* A request has what its kind needs, and wrote what it says it wrote.
LEMMA ConfigurationRequests ==
  ASSUME C!TypeOK, C!RequestsInv, ConfigurationNext \/ UNCHANGED configurationVars
  PROVE  C!RequestsInv'
<1> USE DEF C!TypeOK, C!RequestsInv, C!Locals, C!Pcs, C!Refs
<1>1. CASE UNCHANGED configurationVars
  BY <1>1 DEF configurationVars
<1>2. ASSUME NEW r \in Requests, C!Begin(r) \/ R!Begin(r) PROVE C!RequestsInv'
  <2>1. PICK l \in C!Locals :
          /\ request' = [request EXCEPT ![r] = l] /\ request[r].pc = "idle"
          /\ l.pc \in {"commit", "lock"} /\ l.wrote = 0
          /\ l.pc = "commit" /\ l.kind \in {"save", "activate", "delete", "import"}
               => l.target \in Providers
    BY <1>2, ConfigurationBegins, Zenon
  <2>2. UNCHANGED <<C!tables, C!agent>>
    BY <1>2, ConfigurationBegins, Zenon
  <2> QED
    BY <2>1, <2>2 DEF C!tables, C!agent
<1>3. ASSUME NEW r \in Requests, C!Commit(r) PROVE C!RequestsInv'
  <2>1. PICK l \in C!Locals :
          /\ request' = [request EXCEPT ![r] = l] /\ request[r].pc = "commit"
          /\ l.pc \in {"idle", "lock", "selected"} /\ l.wrote <= clock'
    BY <1>3, ConfigurationCommits, Zenon
  <2>2. /\ UNCHANGED C!agent /\ clock' = clock + 1 /\ clock' \in 0..MaxWrites
        /\ providers' \in [Providers -> C!Row] /\ proxyExists' \in BOOLEAN /\ approver' \in C!Refs
    BY <1>3, ConfigurationCommits, Zenon
  <2> QED
    BY <2>1, <2>2 DEF C!agent
<1>4. ASSUME NEW r \in Requests, C!CommitFails(r) PROVE C!RequestsInv'
  BY <1>4, IdleTyping DEF C!CommitFails, C!tables, C!agent
<1>5. ASSUME NEW r \in Requests, C!ReadSelected(r) PROVE C!RequestsInv'
  BY <1>5, IdleTyping DEF C!ReadSelected, C!tables, C!agent
<1>6. ASSUME NEW r \in Requests, C!Lock(r) PROVE C!RequestsInv'
  BY <1>6, IdleTyping DEF C!Lock, C!tables
<1>7. ASSUME NEW r \in Requests, C!ReadActive(r) PROVE C!RequestsInv'
  BY <1>7, IdleTyping DEF C!ReadActive, C!tables, C!agent, C!Usable
<1>8. ASSUME NEW r \in Requests, C!ReadSettings(r) PROVE C!RequestsInv'
  BY <1>8, IdleTyping DEF C!ReadSettings, C!tables, C!agent, C!Usable
<1>9. ASSUME NEW r \in Requests, C!ReloadFails(r) PROVE C!RequestsInv'
  BY <1>9, IdleTyping DEF C!ReloadFails, C!tables
<1>10. ASSUME NEW r \in Requests, C!Install(r) PROVE C!RequestsInv'
  BY <1>10, IdleTyping DEF C!Install, C!tables
<1>11. ASSUME NEW r \in Requests, C!BuildFails(r) PROVE C!RequestsInv'
  BY <1>11, IdleTyping DEF C!BuildFails, C!tables
<1>12. ASSUME NEW r \in Requests, C!SetReviewers(r) PROVE C!RequestsInv'
  BY <1>12, IdleTyping DEF C!SetReviewers, C!tables
<1>13. ASSUME NEW d \in detections, C!Detected(d) PROVE C!RequestsInv'
  BY <1>13 DEF C!Detected, C!CurrentDetection, C!tables
<1> QED
  BY <1>1, <1>2, <1>3, <1>4, <1>5, <1>6, <1>7, <1>8, <1>9, <1>10, <1>11, <1>12, <1>13, Zenon
     DEF ConfigurationNext, C!Step

\* One request at a time reloads the agent.
LEMMA ConfigurationLock ==
  ASSUME C!TypeOK, C!RequestsInv, C!LockInv, ConfigurationNext \/ UNCHANGED configurationVars
  PROVE  C!LockInv'
<1> USE ConfigurationBounds DEF C!TypeOK, C!LockInv, C!Reloading
<1>1. CASE UNCHANGED configurationVars
  BY <1>1 DEF configurationVars
<1>2. ASSUME NEW r \in Requests, C!Begin(r) \/ R!Begin(r) PROVE C!LockInv'
  <2>1. PICK l \in C!Locals :
          /\ request' = [request EXCEPT ![r] = l] /\ request[r].pc = "idle"
          /\ l.pc \in {"commit", "lock"} /\ l.wrote = 0
          /\ l.pc = "commit" /\ l.kind \in {"save", "activate", "delete", "import"}
               => l.target \in Providers
    BY <1>2, ConfigurationBegins, Zenon
  <2>2. UNCHANGED <<C!tables, C!agent>>
    BY <1>2, ConfigurationBegins, Zenon
  <2> QED
    BY <2>1, <2>2 DEF C!tables, C!agent
<1>3. ASSUME NEW r \in Requests, C!Commit(r) PROVE C!LockInv'
  <2>1. PICK l \in C!Locals :
          /\ request' = [request EXCEPT ![r] = l] /\ request[r].pc = "commit"
          /\ l.pc \in {"idle", "lock", "selected"} /\ l.wrote <= clock'
    BY <1>3, ConfigurationCommits, Zenon
  <2>2. /\ UNCHANGED C!agent /\ clock' = clock + 1 /\ clock' \in 0..MaxWrites
        /\ providers' \in [Providers -> C!Row] /\ proxyExists' \in BOOLEAN /\ approver' \in C!Refs
    BY <1>3, ConfigurationCommits, Zenon
  <2> QED
    BY <2>1, <2>2 DEF C!agent
<1>4. ASSUME NEW r \in Requests, C!CommitFails(r) PROVE C!LockInv'
  BY <1>4, IdleTyping DEF C!CommitFails, C!tables, C!agent
<1>5. ASSUME NEW r \in Requests, C!ReadSelected(r) PROVE C!LockInv'
  BY <1>5, IdleTyping DEF C!ReadSelected, C!tables, C!agent
<1>6. ASSUME NEW r \in Requests, C!Lock(r) PROVE C!LockInv'
  BY <1>6, IdleTyping DEF C!Lock, C!tables, C!LockFree
<1>7. ASSUME NEW r \in Requests, C!ReadActive(r) PROVE C!LockInv'
  BY <1>7, IdleTyping DEF C!ReadActive, C!tables, C!agent
<1>8. ASSUME NEW r \in Requests, C!ReadSettings(r) PROVE C!LockInv'
  BY <1>8, IdleTyping DEF C!ReadSettings, C!tables, C!agent
<1>9. ASSUME NEW r \in Requests, C!ReloadFails(r) PROVE C!LockInv'
  BY <1>9, IdleTyping DEF C!ReloadFails, C!tables
<1>10. ASSUME NEW r \in Requests, C!Install(r) PROVE C!LockInv'
  BY <1>10, IdleTyping DEF C!Install, C!tables
<1>11. ASSUME NEW r \in Requests, C!BuildFails(r) PROVE C!LockInv'
  BY <1>11, IdleTyping DEF C!BuildFails, C!tables
<1>12. ASSUME NEW r \in Requests, C!SetReviewers(r) PROVE C!LockInv'
  BY <1>12, IdleTyping DEF C!SetReviewers, C!tables
<1>13. ASSUME NEW d \in detections, C!Detected(d) PROVE C!LockInv'
  BY <1>13 DEF C!Detected, C!CurrentDetection, C!tables
<1> QED
  BY <1>1, <1>2, <1>3, <1>4, <1>5, <1>6, <1>7, <1>8, <1>9, <1>10, <1>11, <1>12, <1>13, Zenon
     DEF ConfigurationNext, C!Step

\* What a reload read last under the lock is not older than what is installed.
LEMMA ConfigurationReads ==
  ASSUME C!TypeOK, C!RequestsInv, C!LockInv, C!ReadInv,
         ConfigurationNext \/ UNCHANGED configurationVars
  PROVE  C!ReadInv'
<1> USE ConfigurationBounds DEF C!TypeOK, C!RequestsInv, C!LockInv, C!ReadInv, C!Reloading,
    C!Locals
<1>1. CASE UNCHANGED configurationVars
  BY <1>1 DEF configurationVars
<1>2. ASSUME NEW r \in Requests, C!Begin(r) \/ R!Begin(r) PROVE C!ReadInv'
  <2>1. PICK l \in C!Locals :
          /\ request' = [request EXCEPT ![r] = l] /\ request[r].pc = "idle"
          /\ l.pc \in {"commit", "lock"} /\ l.wrote = 0
          /\ l.pc = "commit" /\ l.kind \in {"save", "activate", "delete", "import"}
               => l.target \in Providers
    BY <1>2, ConfigurationBegins, Zenon
  <2>2. UNCHANGED <<C!tables, C!agent>>
    BY <1>2, ConfigurationBegins, Zenon
  <2> QED
    BY <2>1, <2>2 DEF C!tables, C!agent
<1>3. ASSUME NEW r \in Requests, C!Commit(r) PROVE C!ReadInv'
  <2>1. PICK l \in C!Locals :
          /\ request' = [request EXCEPT ![r] = l] /\ request[r].pc = "commit"
          /\ l.pc \in {"idle", "lock", "selected"} /\ l.wrote <= clock'
    BY <1>3, ConfigurationCommits, Zenon
  <2>2. /\ UNCHANGED C!agent /\ clock' = clock + 1 /\ clock' \in 0..MaxWrites
        /\ providers' \in [Providers -> C!Row] /\ proxyExists' \in BOOLEAN /\ approver' \in C!Refs
    BY <1>3, ConfigurationCommits, Zenon
  <2> QED
    BY <2>1, <2>2 DEF C!agent
<1>4. ASSUME NEW r \in Requests, C!CommitFails(r) PROVE C!ReadInv'
  BY <1>4, IdleTyping DEF C!CommitFails, C!tables, C!agent
<1>5. ASSUME NEW r \in Requests, C!ReadSelected(r) PROVE C!ReadInv'
  BY <1>5, IdleTyping DEF C!ReadSelected, C!tables, C!agent
<1>6. ASSUME NEW r \in Requests, C!Lock(r) PROVE C!ReadInv'
  BY <1>6, IdleTyping DEF C!Lock, C!tables
<1>7. ASSUME NEW r \in Requests, C!ReadActive(r) PROVE C!ReadInv'
  BY <1>7, IdleTyping DEF C!ReadActive, C!tables, C!agent, C!Usable
<1>8. ASSUME NEW r \in Requests, C!ReadSettings(r) PROVE C!ReadInv'
  BY <1>8, IdleTyping DEF C!ReadSettings, C!tables, C!agent, C!Usable
<1>9. ASSUME NEW r \in Requests, C!ReloadFails(r) PROVE C!ReadInv'
  BY <1>9, IdleTyping DEF C!ReloadFails, C!tables
<1>10. ASSUME NEW r \in Requests, C!Install(r) PROVE C!ReadInv'
  BY <1>10, IdleTyping DEF C!Install, C!tables
<1>11. ASSUME NEW r \in Requests, C!BuildFails(r) PROVE C!ReadInv'
  BY <1>11, IdleTyping DEF C!BuildFails, C!tables
<1>12. ASSUME NEW r \in Requests, C!SetReviewers(r) PROVE C!ReadInv'
  BY <1>12, IdleTyping DEF C!SetReviewers, C!tables
<1>13. ASSUME NEW d \in detections, C!Detected(d) PROVE C!ReadInv'
  BY <1>13 DEF C!Detected, C!CurrentDetection, C!tables
<1> QED
  BY <1>1, <1>2, <1>3, <1>4, <1>5, <1>6, <1>7, <1>8, <1>9, <1>10, <1>11, <1>12, <1>13, Zenon
     DEF ConfigurationNext, C!Step

\* The reviewers run the model of the agent, but for a reload on its way to set them.
LEMMA ConfigurationReviewers ==
  ASSUME C!TypeOK, C!RequestsInv, C!LockInv, C!ReadInv, C!ReviewersInv,
         ConfigurationNext \/ UNCHANGED configurationVars
  PROVE  C!ReviewersInv'
<1> USE ConfigurationBounds DEF C!TypeOK, C!LockInv, C!ReadInv, C!ReviewersInv, C!Reloading,
    C!Locals
<1>1. CASE UNCHANGED configurationVars
  BY <1>1 DEF configurationVars
<1>2. ASSUME NEW r \in Requests, C!Begin(r) \/ R!Begin(r) PROVE C!ReviewersInv'
  <2>1. PICK l \in C!Locals :
          /\ request' = [request EXCEPT ![r] = l] /\ request[r].pc = "idle"
          /\ l.pc \in {"commit", "lock"} /\ l.wrote = 0
          /\ l.pc = "commit" /\ l.kind \in {"save", "activate", "delete", "import"}
               => l.target \in Providers
    BY <1>2, ConfigurationBegins, Zenon
  <2>2. UNCHANGED <<C!tables, C!agent>>
    BY <1>2, ConfigurationBegins, Zenon
  <2> QED
    BY <2>1, <2>2 DEF C!tables, C!agent
<1>3. ASSUME NEW r \in Requests, C!Commit(r) PROVE C!ReviewersInv'
  <2>1. PICK l \in C!Locals :
          /\ request' = [request EXCEPT ![r] = l] /\ request[r].pc = "commit"
          /\ l.pc \in {"idle", "lock", "selected"} /\ l.wrote <= clock'
    BY <1>3, ConfigurationCommits, Zenon
  <2>2. /\ UNCHANGED C!agent /\ clock' = clock + 1 /\ clock' \in 0..MaxWrites
        /\ providers' \in [Providers -> C!Row] /\ proxyExists' \in BOOLEAN /\ approver' \in C!Refs
    BY <1>3, ConfigurationCommits, Zenon
  <2> QED
    BY <2>1, <2>2 DEF C!agent
<1>4. ASSUME NEW r \in Requests, C!CommitFails(r) PROVE C!ReviewersInv'
  BY <1>4, IdleTyping DEF C!CommitFails, C!tables, C!agent
<1>5. ASSUME NEW r \in Requests, C!ReadSelected(r) PROVE C!ReviewersInv'
  BY <1>5, IdleTyping DEF C!ReadSelected, C!tables, C!agent
<1>6. ASSUME NEW r \in Requests, C!Lock(r) PROVE C!ReviewersInv'
  BY <1>6, IdleTyping DEF C!Lock, C!tables
<1>7. ASSUME NEW r \in Requests, C!ReadActive(r) PROVE C!ReviewersInv'
  BY <1>7, IdleTyping DEF C!ReadActive, C!tables, C!agent, C!Usable
<1>8. ASSUME NEW r \in Requests, C!ReadSettings(r) PROVE C!ReviewersInv'
  BY <1>8, IdleTyping DEF C!ReadSettings, C!tables, C!agent, C!Usable
<1>9. ASSUME NEW r \in Requests, C!ReloadFails(r) PROVE C!ReviewersInv'
  BY <1>9, IdleTyping DEF C!ReloadFails, C!tables
<1>10. ASSUME NEW r \in Requests, C!Install(r) PROVE C!ReviewersInv'
  BY <1>10, IdleTyping DEF C!Install, C!tables
<1>11. ASSUME NEW r \in Requests, C!BuildFails(r) PROVE C!ReviewersInv'
  BY <1>11, IdleTyping DEF C!BuildFails, C!tables
<1>12. ASSUME NEW r \in Requests, C!SetReviewers(r) PROVE C!ReviewersInv'
  BY <1>12, IdleTyping DEF C!SetReviewers, C!tables
<1>13. ASSUME NEW d \in detections, C!Detected(d) PROVE C!ReviewersInv'
  BY <1>13 DEF C!Detected, C!CurrentDetection, C!tables
<1> QED
  BY <1>1, <1>2, <1>3, <1>4, <1>5, <1>6, <1>7, <1>8, <1>9, <1>10, <1>11, <1>12, <1>13, Zenon
     DEF ConfigurationNext, C!Step

\* A detected window is taken only for the revision and the model it was asked for.
LEMMA ConfigurationDetections ==
  ASSUME C!TypeOK, C!RequestsInv, C!DetectionInv, C!WindowIsOfTheModel,
         ConfigurationNext \/ UNCHANGED configurationVars
  PROVE  C!DetectionInv' /\ C!WindowIsOfTheModel'
<1> USE ConfigurationBounds DEF C!TypeOK, C!DetectionInv, C!WindowIsOfTheModel, C!Locals
<1>1. CASE UNCHANGED configurationVars
  BY <1>1 DEF configurationVars
<1>2. ASSUME NEW r \in Requests,
             C!Begin(r) \/ R!Begin(r) PROVE C!DetectionInv' /\ C!WindowIsOfTheModel'
  <2>1. PICK l \in C!Locals :
          /\ request' = [request EXCEPT ![r] = l] /\ request[r].pc = "idle"
          /\ l.pc \in {"commit", "lock"} /\ l.wrote = 0
          /\ l.pc = "commit" /\ l.kind \in {"save", "activate", "delete", "import"}
               => l.target \in Providers
    BY <1>2, ConfigurationBegins, Zenon
  <2>2. UNCHANGED <<C!tables, C!agent>>
    BY <1>2, ConfigurationBegins, Zenon
  <2> QED
    BY <2>1, <2>2 DEF C!tables, C!agent
<1>3. ASSUME NEW r \in Requests, C!Commit(r) PROVE C!DetectionInv' /\ C!WindowIsOfTheModel'
  <2>1. PICK l \in C!Locals :
          /\ request' = [request EXCEPT ![r] = l] /\ request[r].pc = "commit"
          /\ l.pc \in {"idle", "lock", "selected"} /\ l.wrote <= clock'
    BY <1>3, ConfigurationCommits, Zenon
  <2>2. /\ UNCHANGED C!agent /\ clock' = clock + 1 /\ clock' \in 0..MaxWrites
        /\ providers' \in [Providers -> C!Row] /\ proxyExists' \in BOOLEAN /\ approver' \in C!Refs
    BY <1>3, ConfigurationCommits, Zenon
  <2> QED
    BY <2>1, <2>2 DEF C!agent
<1>4. ASSUME NEW r \in Requests, C!CommitFails(r) PROVE C!DetectionInv' /\ C!WindowIsOfTheModel'
  BY <1>4, IdleTyping DEF C!CommitFails, C!tables, C!agent
<1>5. ASSUME NEW r \in Requests, C!ReadSelected(r) PROVE C!DetectionInv' /\ C!WindowIsOfTheModel'
  BY <1>5, IdleTyping DEF C!ReadSelected, C!tables, C!agent
<1>6. ASSUME NEW r \in Requests, C!Lock(r) PROVE C!DetectionInv' /\ C!WindowIsOfTheModel'
  BY <1>6, IdleTyping DEF C!Lock, C!tables
<1>7. ASSUME NEW r \in Requests, C!ReadActive(r) PROVE C!DetectionInv' /\ C!WindowIsOfTheModel'
  BY <1>7, IdleTyping DEF C!ReadActive, C!tables, C!agent, C!Usable
<1>8. ASSUME NEW r \in Requests, C!ReadSettings(r) PROVE C!DetectionInv' /\ C!WindowIsOfTheModel'
  BY <1>8, IdleTyping DEF C!ReadSettings, C!tables, C!agent, C!Usable
<1>9. ASSUME NEW r \in Requests, C!ReloadFails(r) PROVE C!DetectionInv' /\ C!WindowIsOfTheModel'
  BY <1>9, IdleTyping DEF C!ReloadFails, C!tables
<1>10. ASSUME NEW r \in Requests, C!Install(r) PROVE C!DetectionInv' /\ C!WindowIsOfTheModel'
  BY <1>10, IdleTyping DEF C!Install, C!tables
<1>11. ASSUME NEW r \in Requests, C!BuildFails(r) PROVE C!DetectionInv' /\ C!WindowIsOfTheModel'
  BY <1>11, IdleTyping DEF C!BuildFails, C!tables
<1>12. ASSUME NEW r \in Requests, C!SetReviewers(r) PROVE C!DetectionInv' /\ C!WindowIsOfTheModel'
  BY <1>12, IdleTyping DEF C!SetReviewers, C!tables
<1>13. ASSUME NEW d \in detections, C!Detected(d) PROVE C!DetectionInv' /\ C!WindowIsOfTheModel'
  BY <1>13 DEF C!Detected, C!CurrentDetection, C!tables
<1> QED
  BY <1>1, <1>2, <1>3, <1>4, <1>5, <1>6, <1>7, <1>8, <1>9, <1>10, <1>11, <1>12, <1>13, Zenon
     DEF ConfigurationNext, C!Step

\* A write that was answered was installed by its own reload or by a later one.
LEMMA ConfigurationAnswers ==
  ASSUME C!TypeOK, C!RequestsInv, C!LockInv, C!ReadInv, C!ReloadedWritesAreInstalled,
         ConfigurationNext \/ UNCHANGED configurationVars
  PROVE  C!ReloadedWritesAreInstalled'
<1> USE ConfigurationBounds DEF C!TypeOK, C!LockInv, C!ReadInv, C!ReloadedWritesAreInstalled,
    C!Reloading, C!Locals
<1>1. CASE UNCHANGED configurationVars
  BY <1>1 DEF configurationVars
<1>2. ASSUME NEW r \in Requests, C!Begin(r) \/ R!Begin(r) PROVE C!ReloadedWritesAreInstalled'
  <2>1. PICK l \in C!Locals :
          /\ request' = [request EXCEPT ![r] = l] /\ request[r].pc = "idle"
          /\ l.pc \in {"commit", "lock"} /\ l.wrote = 0
          /\ l.pc = "commit" /\ l.kind \in {"save", "activate", "delete", "import"}
               => l.target \in Providers
    BY <1>2, ConfigurationBegins, Zenon
  <2>2. UNCHANGED <<C!tables, C!agent>>
    BY <1>2, ConfigurationBegins, Zenon
  <2> QED
    BY <2>1, <2>2 DEF C!tables, C!agent
<1>3. ASSUME NEW r \in Requests, C!Commit(r) PROVE C!ReloadedWritesAreInstalled'
  <2>1. PICK l \in C!Locals :
          /\ request' = [request EXCEPT ![r] = l] /\ request[r].pc = "commit"
          /\ l.pc \in {"idle", "lock", "selected"} /\ l.wrote <= clock'
    BY <1>3, ConfigurationCommits, Zenon
  <2>2. /\ UNCHANGED C!agent /\ clock' = clock + 1 /\ clock' \in 0..MaxWrites
        /\ providers' \in [Providers -> C!Row] /\ proxyExists' \in BOOLEAN /\ approver' \in C!Refs
    BY <1>3, ConfigurationCommits, Zenon
  <2> QED
    BY <2>1, <2>2 DEF C!agent
<1>4. ASSUME NEW r \in Requests, C!CommitFails(r) PROVE C!ReloadedWritesAreInstalled'
  BY <1>4, IdleTyping DEF C!CommitFails, C!tables, C!agent
<1>5. ASSUME NEW r \in Requests, C!ReadSelected(r) PROVE C!ReloadedWritesAreInstalled'
  BY <1>5, IdleTyping DEF C!ReadSelected, C!tables, C!agent
<1>6. ASSUME NEW r \in Requests, C!Lock(r) PROVE C!ReloadedWritesAreInstalled'
  BY <1>6, IdleTyping DEF C!Lock, C!tables
<1>7. ASSUME NEW r \in Requests, C!ReadActive(r) PROVE C!ReloadedWritesAreInstalled'
  BY <1>7, IdleTyping DEF C!ReadActive, C!tables, C!agent, C!Usable
<1>8. ASSUME NEW r \in Requests, C!ReadSettings(r) PROVE C!ReloadedWritesAreInstalled'
  BY <1>8, IdleTyping DEF C!ReadSettings, C!tables, C!agent, C!Usable
<1>9. ASSUME NEW r \in Requests, C!ReloadFails(r) PROVE C!ReloadedWritesAreInstalled'
  BY <1>9, IdleTyping DEF C!ReloadFails, C!tables
<1>10. ASSUME NEW r \in Requests, C!Install(r) PROVE C!ReloadedWritesAreInstalled'
  BY <1>10, IdleTyping DEF C!Install, C!tables
<1>11. ASSUME NEW r \in Requests, C!BuildFails(r) PROVE C!ReloadedWritesAreInstalled'
  BY <1>11, IdleTyping DEF C!BuildFails, C!tables
<1>12. ASSUME NEW r \in Requests, C!SetReviewers(r) PROVE C!ReloadedWritesAreInstalled'
  BY <1>12, IdleTyping DEF C!SetReviewers, C!tables
<1>13. ASSUME NEW d \in detections, C!Detected(d) PROVE C!ReloadedWritesAreInstalled'
  BY <1>13 DEF C!Detected, C!CurrentDetection, C!tables
<1> QED
  BY <1>1, <1>2, <1>3, <1>4, <1>5, <1>6, <1>7, <1>8, <1>9, <1>10, <1>11, <1>12, <1>13, Zenon
     DEF ConfigurationNext, C!Step

\* No write makes a second provider active.
LEMMA ConfigurationActive ==
  ASSUME C!TypeOK, C!RequestsInv, C!OneActiveProvider,
         ConfigurationNext \/ UNCHANGED configurationVars
  PROVE  C!OneActiveProvider'
<1> USE DEF C!TypeOK, C!OneActiveProvider
<1>1. CASE UNCHANGED configurationVars
  BY <1>1 DEF configurationVars
<1>2. ASSUME NEW r \in Requests, C!Begin(r) \/ R!Begin(r) PROVE C!OneActiveProvider'
  <2>1. PICK l \in C!Locals :
          /\ request' = [request EXCEPT ![r] = l] /\ request[r].pc = "idle"
          /\ l.pc \in {"commit", "lock"} /\ l.wrote = 0
          /\ l.pc = "commit" /\ l.kind \in {"save", "activate", "delete", "import"}
               => l.target \in Providers
    BY <1>2, ConfigurationBegins, Zenon
  <2>2. UNCHANGED <<C!tables, C!agent>>
    BY <1>2, ConfigurationBegins, Zenon
  <2> QED
    BY <2>1, <2>2 DEF C!tables, C!agent
<1>3. ASSUME NEW r \in Requests, C!Commit(r) PROVE C!OneActiveProvider'
  <2>1. /\ C!RequestsInv /\ request[r].pc = "commit"
        /\ \/ C!CommitSave(r) \/ C!CommitActivate(r) \/ C!CommitDelete(r)
           \/ C!CommitSettings(r) \/ C!CommitProxy(r) \/ C!CommitImport(r)
    BY <1>3, Zenon DEF C!Commit
  <2>2. CASE C!CommitSave(r)
    BY <2>2, Zenon DEF C!CommitSave, C!UniqueActive
  <2>3. CASE C!CommitActivate(r)
    <3>1. providers' = C!Activated(request[r].target)
      BY <2>3, Zenon DEF C!CommitActivate
    <3>2. ASSUME NEW p \in Providers, providers'[p].active PROVE p = request[r].target
      BY <3>1, <3>2 DEF C!Activated, C!Row
    <3> QED
      BY <3>2
  <2>4. CASE C!CommitDelete(r)
    BY <2>4 DEF C!CommitDelete, C!NoRow
  <2>5. CASE C!CommitSettings(r) \/ C!CommitProxy(r)
    BY <2>5 DEF C!CommitSettings, C!CommitProxy
  <2>6. CASE C!CommitImport(r)
    <3> DEFINE q == request[r]
    <3>1. providers' = C!Imported(q)
      BY <2>6, Zenon DEF C!CommitImport
    <3>2. q.active \in BOOLEAN
      BY DEF C!Locals
    <3>3. ASSUME NEW p \in Providers, providers'[p].active
          PROVE  IF q.active THEN p = q.target ELSE providers[p].active
      <4>1. CASE p = q.target
        BY <3>1, <3>2, <3>3, <4>1 DEF C!Imported, C!Row
      <4>2. CASE p # q.target
        <5>1. providers'[p] = [providers[p] EXCEPT !.active = providers[p].active /\ ~q.active]
          BY <3>1, <4>2 DEF C!Imported
        <5>2. providers'[p].active = (providers[p].active /\ ~q.active)
          BY <5>1 DEF C!Row
        <5> QED
          BY <3>2, <3>3, <4>2, <5>2
      <4> QED
        BY <4>1, <4>2
    <3> QED
      BY <3>2, <3>3
  <2> QED
    BY <2>1, <2>2, <2>3, <2>4, <2>5, <2>6
<1>4. ASSUME NEW r \in Requests, C!CommitFails(r) PROVE C!OneActiveProvider'
  BY <1>4, IdleTyping DEF C!CommitFails, C!tables, C!agent
<1>5. ASSUME NEW r \in Requests, C!ReadSelected(r) PROVE C!OneActiveProvider'
  BY <1>5, IdleTyping DEF C!ReadSelected, C!tables, C!agent
<1>6. ASSUME NEW r \in Requests, C!Lock(r) PROVE C!OneActiveProvider'
  BY <1>6, IdleTyping DEF C!Lock, C!tables
<1>7. ASSUME NEW r \in Requests, C!ReadActive(r) PROVE C!OneActiveProvider'
  BY <1>7, IdleTyping DEF C!ReadActive, C!tables, C!agent, C!Usable
<1>8. ASSUME NEW r \in Requests, C!ReadSettings(r) PROVE C!OneActiveProvider'
  BY <1>8, IdleTyping DEF C!ReadSettings, C!tables, C!agent, C!Usable
<1>9. ASSUME NEW r \in Requests, C!ReloadFails(r) PROVE C!OneActiveProvider'
  BY <1>9, IdleTyping DEF C!ReloadFails, C!tables
<1>10. ASSUME NEW r \in Requests, C!Install(r) PROVE C!OneActiveProvider'
  BY <1>10, IdleTyping DEF C!Install, C!tables
<1>11. ASSUME NEW r \in Requests, C!BuildFails(r) PROVE C!OneActiveProvider'
  BY <1>11, IdleTyping DEF C!BuildFails, C!tables
<1>12. ASSUME NEW r \in Requests, C!SetReviewers(r) PROVE C!OneActiveProvider'
  BY <1>12, IdleTyping DEF C!SetReviewers, C!tables
<1>13. ASSUME NEW d \in detections, C!Detected(d) PROVE C!OneActiveProvider'
  BY <1>13 DEF C!Detected, C!CurrentDetection, C!tables
<1> QED
  BY <1>1, <1>2, <1>3, <1>4, <1>5, <1>6, <1>7, <1>8, <1>9, <1>10, <1>11, <1>12, <1>13, Zenon
     DEF ConfigurationNext, C!Step

\* The configuration starts so.
LEMMA ConfigurationStarts == C!Init => C!IInv
<1> SUFFICES ASSUME C!Init PROVE C!IInv
  OBVIOUS
<1>1. PICK a \in Providers :
        /\ providers = [p \in Providers |-> [C!NoRow EXCEPT !.exists = TRUE, !.active = (p = a)]]
        /\ proxyExists = TRUE /\ approver = None
        /\ runtime = [provider |-> a, asOf |-> 0, window |-> None]
        /\ reviewers = [provider |-> a, asOf |-> 0]
        /\ reloading = None /\ detections = {} /\ revision = 0
        /\ request = [r \in Requests |-> C!Idle] /\ clock = 0 /\ acked = 0
  BY Zenon DEF C!Init
<1>2. \A p \in Providers : providers[p] = [exists |-> TRUE, active |-> (p = a), proxied |-> FALSE]
  BY <1>1 DEF C!NoRow
<1>3. providers \in [Providers -> C!Row] /\ C!OneActiveProvider
  BY <1>1, <1>2 DEF C!OneActiveProvider, C!Row
<1>4. /\ proxyExists = TRUE /\ approver = None
      /\ runtime = [provider |-> a, asOf |-> 0, window |-> None]
      /\ reviewers = [provider |-> a, asOf |-> 0]
      /\ reloading = None /\ detections = {} /\ revision = 0
      /\ request = [r \in Requests |-> C!Idle] /\ clock = 0 /\ acked = 0
  BY <1>1
<1>5. /\ runtime.provider = a /\ runtime.asOf = 0 /\ runtime.window = None
      /\ reviewers.asOf = 0
      /\ runtime \in [provider : C!Refs, asOf : 0..MaxWrites, window : C!Refs]
      /\ reviewers \in [provider : C!Refs, asOf : 0..MaxWrites]
  BY <1>4, ConfigurationBounds DEF C!Refs
<1>6. C!TypeOK
  BY <1>3, <1>4, <1>5, IdleTyping DEF C!TypeOK, C!Refs
<1>7. C!RequestsInv /\ C!LockInv /\ C!ReadInv
  BY <1>4, IdleTyping, ConfigurationBounds DEF C!RequestsInv, C!LockInv, C!ReadInv, C!Reloading
<1>8. /\ C!ReviewersInv /\ C!DetectionInv /\ C!ReloadedWritesAreInstalled
      /\ C!WindowIsOfTheModel
  BY <1>4, <1>5 DEF C!ReviewersInv, C!DetectionInv, C!ReloadedWritesAreInstalled,
     C!WindowIsOfTheModel
<1> QED
  BY <1>3, <1>6, <1>7, <1>8 DEF C!IInv

\* Every step of a request, a reload and a detection keeps it.
LEMMA ConfigurationStep ==
  ASSUME C!IInv, ConfigurationNext \/ UNCHANGED configurationVars
  PROVE  C!IInv'
<1> USE DEF C!IInv
<1>1. C!TypeOK' /\ C!RequestsInv' /\ C!LockInv' /\ C!ReadInv'
  BY ConfigurationTyping, ConfigurationRequests, ConfigurationLock, ConfigurationReads
<1>2. /\ C!ReviewersInv' /\ C!DetectionInv' /\ C!WindowIsOfTheModel'
      /\ C!ReloadedWritesAreInstalled' /\ C!OneActiveProvider'
  BY ConfigurationReviewers, ConfigurationDetections, ConfigurationAnswers, ConfigurationActive
<1> QED
  BY <1>1, <1>2

\* When nothing is reloading the reviewers run what the agent runs.
LEMMA ReviewersFollow == ASSUME C!IInv PROVE C!ReviewersFollowRunner
BY ConfigurationBounds DEF C!IInv, C!ReviewersFollowRunner, C!ReviewersInv, C!LockInv, C!Reloading

\* A step that deletes the proxy finds nothing that refers to it.
LEMMA ProxiesStay ==
  ASSUME C!TypeOK, C!RequestsInv, ConfigurationNext \/ UNCHANGED configurationVars
  PROVE  [C!ProxyStays]_C!vars
<1> SUFFICES ASSUME proxyExists, ~proxyExists' PROVE C!ProxyUnused
  BY Zenon DEF C!ProxyStays, C!ProxyUnused
<1>1. ASSUME NEW r \in Requests, C!Commit(r) PROVE C!ProxyUnused
  BY <1>1, Zenon DEF C!Commit, C!CommitSave, C!CommitActivate, C!CommitDelete, C!CommitSettings,
     C!CommitProxy, C!CommitImport
<1>2. proxyExists' # proxyExists
  OBVIOUS
<1>3. ASSUME NEW r \in Requests, C!Begin(r) \/ R!Begin(r) PROVE FALSE
  BY <1>2, <1>3, ConfigurationBegins DEF C!tables
<1>4. ASSUME NEW r \in Requests, C!Step(r), ~C!Commit(r) PROVE FALSE
  BY <1>2, <1>4 DEF C!Step, C!CommitFails, C!ReadSelected, C!Lock, C!ReadActive, C!ReadSettings,
     C!ReloadFails, C!Install, C!BuildFails, C!SetReviewers, C!tables
<1>5. ASSUME NEW d, C!Detected(d) PROVE FALSE
  BY <1>2, <1>5 DEF C!Detected, C!tables
<1> QED
  BY <1>1, <1>2, <1>3, <1>4, <1>5 DEF ConfigurationNext, configurationVars

-----------------------------------------------------------------------------
(* Hosts *)

\* The last element of a sequence is one of its elements.
LEMMA LastOfSequence ==
  ASSUME NEW V, NEW s \in Seq(V), Len(s) \in 1..Len(s)
  PROVE  s[Len(s)] \in V
OBVIOUS

\* What the bounds of the hosts are.
LEMMA HostNumbers == MaxJumps \in Nat /\ HostRuns \in Nat /\ IsFiniteSet(HostIds)
BY HostBounds

\* A request names hosts, and names of hosts.
LEMMA HostScopes ==
  ASSUME NEW r \in HostRequests
  PROVE  Scope[r].ids \subseteq HostIds /\ Scope[r].names \subseteq HostNames
BY HostBounds

\* What the walk along a table of hosts does: from start to the jump host of each host
\* met, and to none behind the end or a missing row.
Walks(ids, none, K, table, first, p) ==
    /\ p \in [0..K + 1 -> ids \cup {none}] /\ p[0] = first
    /\ \A n \in 1..K + 1 :
         p[n] = IF p[n - 1] = none \/ table[p[n - 1]] = none THEN none ELSE table[p[n - 1]].jump

\* A table of hosts whose jump hosts are hosts or none.
Table(ids, none, table) ==
    none \notin ids /\ \A id \in ids : table[id] # none => table[id].jump \in ids \cup {none}

\* A chain of hosts, each the jump host of the one before.
Chained(ids, none, table, c, n) ==
    /\ c \in [0..n -> ids]
    /\ \A m \in 0..n : table[c[m]] # none
    /\ \A m \in 1..n : table[c[m - 1]].jump = c[m]
    /\ table[c[n]].jump = none

\* A walk that meets nothing wrong is a chain that ends.
LEMMA WalkEnds ==
  ASSUME NEW ids, NEW none, NEW K \in Nat, NEW table, NEW first \in ids, NEW p,
         Table(ids, none, table), Walks(ids, none, K, table, first, p), table[first] # none,
         \A n \in 1..K + 1 : p[n] # none => n # K + 1 /\ table[p[n]] # none
  PROVE  \E n \in 0..K : \E c \in [0..n -> ids] : c[0] = first /\ Chained(ids, none, table, c, n)
<1> USE DEF Walks, Table, Chained
<1> DEFINE T == {n \in 0..K + 1 : p[n] = none}
<1>1. K + 1 \in T /\ T \in SUBSET Nat
  OBVIOUS
<1>2. PICK m \in T : \A k \in T : m <= k
  <2> HIDE DEF T
  <2> QED
    BY <1>1, Smallest
<1>3. m \in 1..K + 1 /\ p[m] = none
  BY <1>2
<1>4. \A i \in 0..m - 1 : p[i] \in ids /\ table[p[i]] # none
  BY <1>2, <1>3
<1> DEFINE c == [i \in 0..m - 1 |-> p[i]]
<1>5. c \in [0..m - 1 -> ids] /\ c[0] = first
  BY <1>3, <1>4
<1>6. \A i \in 0..m - 1 : table[c[i]] # none
  BY <1>4
<1>7. ASSUME NEW i \in 1..m - 1 PROVE table[c[i - 1]].jump = c[i]
  <2>1. c[i - 1] = p[i - 1] /\ c[i] = p[i] /\ i - 1 \in 0..m - 1 /\ i \in 1..K + 1
    BY <1>3
  <2> QED
    BY <1>4, <2>1
<1>8. table[c[m - 1]].jump = none
  <2>1. c[m - 1] = p[m - 1] /\ m - 1 \in 0..m - 1
    BY <1>3
  <2> QED
    BY <1>3, <1>4, <2>1
<1>9. m - 1 \in 0..K
  BY <1>3
<1> HIDE DEF c
<1>10. Chained(ids, none, table, c, m - 1)
  BY <1>5, <1>6, <1>7, <1>8
<1> QED
  BY <1>5, <1>9, <1>10

\* A chain that ends passes no host twice: from a repetition on it would never end.
LEMMA ChainsDoNotRepeat ==
  ASSUME NEW ids, NEW none, NEW table, NEW n \in Nat, NEW c, Table(ids, none, table),
         Chained(ids, none, table, c, n), NEW i \in 0..n, NEW j \in 0..n, i < j
  PROVE  c[i] # c[j]
<1> USE DEF Chained, Table
<1> SUFFICES ASSUME c[i] = c[j] PROVE FALSE
  OBVIOUS
<1> DEFINE V == {k \in 0..n - j : c[i + k] = c[j + k]}
<1>1. 0 \in V
  OBVIOUS
<1>2. ASSUME NEW k \in 1..n - j, k - 1 \in V PROVE k \in V
  <2>0. i + k \in 1..n /\ j + k \in 1..n
    OBVIOUS
  <2>1. /\ i + k \in 1..n /\ j + k \in 1..n /\ c[i + (k - 1)] = c[j + (k - 1)]
        /\ i + (k - 1) = (i + k) - 1 /\ j + (k - 1) = (j + k) - 1
    BY <1>2, <2>0
  <2>2. table[c[(i + k) - 1]].jump = c[i + k] /\ table[c[(j + k) - 1]].jump = c[j + k]
    BY <2>1
  <2> QED
    BY <2>1, <2>2
<1>3. n - j \in Nat /\ n - j \in 0..n - j
  OBVIOUS
<1>4. n - j \in V
  <2> HIDE DEF V
  <2> QED
    BY <1>1, <1>2, <1>3, Induction
<1>5. c[i + (n - j)] = c[n]
  BY <1>4
<1>6. i + (n - j) \in 0..n /\ (i + (n - j)) + 1 \in 1..n
  OBVIOUS
<1>7. table[c[i + (n - j)]].jump = c[(i + (n - j)) + 1]
  BY <1>6
<1> QED
  BY <1>5, <1>6, <1>7

\* What an import does to the hosts it does not contain.
Keeps(ids, none, imported, old, new) ==
    \A id \in ids : id \notin imported /\ old[id] # none => new[id] = old[id]

\* A walk that goes along a chain as far as both reach.
GoesAlong(p, m, c, n, none) == (\A i \in 0..m : i <= n => p[i] = c[i]) /\ (m > n => p[m] = none)

\* As long as a walk after an import meets no imported host it goes along the chain there
\* was before.
LEMMA WalkStays ==
  ASSUME NEW ids, NEW none, NEW K, NEW old, NEW new, NEW imported, NEW first, NEW p, NEW n, NEW c,
         NEW m, K \in Nat, first \in ids, n \in 0..K, m \in 1..K + 1,
         Table(ids, none, old), Table(ids, none, new), Keeps(ids, none, imported, old, new),
         Walks(ids, none, K, new, first, p), Chained(ids, none, old, c, n), c[0] = first,
         \A i \in 0..m - 1 : p[i] \notin imported
  PROVE  GoesAlong(p, m, c, n, none)
<1> USE DEF Walks, Chained, Table, Keeps, GoesAlong
<1> DEFINE V == {i \in 0..m : i <= n => p[i] = c[i]}
<1>1. 0 \in V
  OBVIOUS
<1>2. ASSUME NEW i \in 1..m, i - 1 \in V PROVE i \in V
  <2>1. CASE i <= n
    <3>1. /\ i - 1 \in 0..n /\ i - 1 \in 0..m - 1 /\ i \in 1..n /\ i \in 1..K + 1
          /\ p[i - 1] = c[i - 1]
      BY <1>2, <2>1
    <3>2. new[c[i - 1]] = old[c[i - 1]] /\ old[c[i - 1]] # none /\ c[i - 1] \in ids
      BY <3>1
    <3>3. p[i] = new[p[i - 1]].jump
      BY <3>1, <3>2
    <3> QED
      BY <3>1, <3>2, <3>3
  <2> QED
    BY <2>1
<1>3. \A i \in 0..m : i \in V
  <2> HIDE DEF V
  <2>1. m \in Nat
    OBVIOUS
  <2> QED
    BY <1>1, <1>2, <2>1, Induction
<1>4. \A i \in 0..m : i <= n => p[i] = c[i]
  BY <1>3
<1>5. ASSUME m > n PROVE p[m] = none
  <2>1. n \in 0..m - 1 /\ p[n] = c[n]
    BY <1>4, <1>5
  <2>2. new[c[n]] = old[c[n]] /\ old[c[n]] # none /\ c[n] \in ids /\ old[c[n]].jump = none
    BY <2>1
  <2>3. p[n + 1] = none
    BY <2>1, <2>2
  <2> DEFINE N == {i \in 0..m - (n + 1) : p[(n + 1) + i] = none}
  <2>4. 0 \in N
    BY <2>1, <2>3
  <2>5. ASSUME NEW i \in 1..m - (n + 1), i - 1 \in N PROVE i \in N
    <3>1. (n + 1) + i \in 1..K + 1 /\ (n + 1) + (i - 1) = ((n + 1) + i) - 1
      OBVIOUS
    <3> QED
      BY <2>5, <3>1
  <2>6. m - (n + 1) \in Nat /\ m - (n + 1) \in 0..m - (n + 1) /\ (n + 1) + (m - (n + 1)) = m
    BY <2>1
  <2>7. m - (n + 1) \in N
    <3> HIDE DEF N
    <3> QED
      BY <2>4, <2>5, <2>6, Induction
  <2> QED
    BY <2>6, <2>7
<1> QED
  BY <1>4, <1>5

\* The walk of validateConfigurationHostGraph is one.
LEMMA HostWalk ==
  ASSUME NEW table, Table(HostIds, None, table), NEW first \in HostIds
  PROVE  Walks(HostIds, None, MaxJumps, table, first, H!Walk(table, first))
<1> DEFINE step == [id \in H!Refs |->
                      IF id = None \/ table[id] = None THEN None ELSE table[id].jump]
           Steps(f) == f = [n \in 0..MaxJumps + 1 |->
             IF n = 0 THEN first
             ELSE IF f[n - 1] = None \/ table[f[n - 1]] = None THEN None ELSE table[f[n - 1]].jump]
<1>1. step \in [H!Refs -> H!Refs] /\ first \in H!Refs /\ MaxJumps + 1 \in Nat
  BY HostNumbers DEF Table, H!Refs
<1>2. PICK f : Recursive(f, MaxJumps + 1, H!Refs, first, step)
  <2> HIDE DEF step
  <2> QED
    BY <1>1, Recursion, Zenon
<1> USE DEF Recursive
<1>3. ASSUME NEW n \in 1..MaxJumps + 1 PROVE n - 1 \in 0..MaxJumps + 1 /\ f[n - 1] \in H!Refs
  BY <1>2, HostNumbers
<1>4. Steps(f)
  <2>1. ASSUME NEW n \in 0..MaxJumps + 1
        PROVE  f[n] = IF n = 0 THEN first
               ELSE IF f[n - 1] = None \/ table[f[n - 1]] = None THEN None ELSE table[f[n - 1]].jump
    <3>1. f[n] = IF n = 0 THEN first ELSE step[f[n - 1]]
      BY <1>2
    <3>2. CASE n = 0
      BY <3>1, <3>2
    <3>3. CASE n # 0
      BY <1>3, <3>1, <3>3, HostNumbers
    <3> QED
      BY <3>2, <3>3
  <2>2. f = [n \in 0..MaxJumps + 1 |-> f[n]]
    BY <1>2
  <2> HIDE DEF step
  <2> QED
    BY <2>1, <2>2
<1> DEFINE w == CHOOSE h : Steps(h)
<1>5. Steps(w)
  BY <1>4, Zenon
<1>6. H!Walk(table, first) = w
  BY Zenon DEF H!Walk
<1> HIDE DEF w, step
<1>7. w \in [0..MaxJumps + 1 -> H!Refs]
  <2>1. /\ DOMAIN w = 0..MaxJumps + 1
        /\ \A n \in 0..MaxJumps + 1 : w[n] = IF n = 0 THEN first
             ELSE IF w[n - 1] = None \/ table[w[n - 1]] = None THEN None ELSE table[w[n - 1]].jump
    BY <1>5
  <2> DEFINE V == {n \in 0..MaxJumps + 1 : w[n] \in H!Refs}
  <2>2. 0 \in V
    BY <1>1, <2>1, HostNumbers
  <2>3. ASSUME NEW n \in 1..MaxJumps + 1, n - 1 \in V PROVE n \in V
    <3>1. /\ w[n] = IF w[n - 1] = None \/ table[w[n - 1]] = None THEN None ELSE table[w[n - 1]].jump
          /\ w[n - 1] \in H!Refs
      BY <2>1, <2>3, HostNumbers
    <3>2. CASE w[n - 1] = None \/ table[w[n - 1]] = None
      BY <3>1, <3>2 DEF H!Refs
    <3>3. CASE w[n - 1] # None /\ table[w[n - 1]] # None
      BY <3>1, <3>3 DEF Table, H!Refs
    <3> QED
      BY <3>2, <3>3
  <2>4. \A n \in 0..MaxJumps + 1 : n \in V
    <3> HIDE DEF V
    <3> QED
      BY <1>1, <2>2, <2>3, Induction
  <2>5. w = [n \in 0..MaxJumps + 1 |-> w[n]]
    BY <1>5
  <2>6. \A n \in 0..MaxJumps + 1 : w[n] \in H!Refs
    BY <2>4
  <2> HIDE DEF V, Steps
  <2> QED
    BY <2>5, <2>6
<1>8. ASSUME NEW n \in 1..MaxJumps + 1
      PROVE  w[n] = IF w[n - 1] = None \/ table[w[n - 1]] = None THEN None ELSE table[w[n - 1]].jump
  BY <1>5, HostNumbers
<1>9. w[0] = first
  BY <1>5, HostNumbers
<1> QED
  BY <1>6, <1>7, <1>8, <1>9, Zenon DEF Walks, H!Refs

\* A walk that is accepted connects its host, if that was imported or could be connected to
\* before: what is wrong on the way would be behind an imported host, and is excused only
\* where the chain was wrong already.
LEMMA HostAccepted ==
  ASSUME NEW old, NEW new, NEW imported, NEW first \in HostIds,
         Table(HostIds, None, old), Table(HostIds, None, new),
         Keeps(HostIds, None, imported, old, new),
         \A id \in HostIds : id \in imported => new[id] # None,
         new[first] # None, H!WalkAccepts(new, imported, first),
         first \in imported \/ (old[first] # None /\ H!Connects(old, first))
  PROVE  H!Connects(new, first)
<1> DEFINE p == H!Walk(new, first)
           Wrong(n) == \/ n = MaxJumps + 1
                       \/ new[p[n]] = None
                       \/ \E m \in 0..n - 1 : p[m] = p[n]
           wrong == {n \in 1..MaxJumps + 1 : p[n] # None /\ Wrong(n)}
<1>1. Walks(HostIds, None, MaxJumps, new, first, p)
  BY HostWalk
<1>2. MaxJumps \in Nat
  BY HostNumbers
<1>3. \A n \in wrong : (\E m \in wrong : m < n) \/ \A m \in 0..n - 1 : p[m] \notin imported
  <2> DEFINE path == [n \in 0..MaxJumps + 1 |-> p[n]]
  <2>1. path = p
    BY <1>1 DEF Walks
  <2> HIDE DEF p
  <2>2. \A n \in wrong : (\E m \in wrong : m < n) \/ \A m \in 0..n - 1 : ~H!Meets(imported, p[m])
    BY <2>1 DEF H!WalkAccepts, p
  <2> QED
    BY <2>2 DEF H!Meets
<1> HIDE DEF p
<1>4. ASSUME wrong = {} PROVE H!Connects(new, first)
  <2>1. \A n \in 1..MaxJumps + 1 : p[n] # None => n # MaxJumps + 1 /\ new[p[n]] # None
    BY <1>4
  <2>2. PICK n \in 0..MaxJumps : \E c \in [0..n -> HostIds] :
           c[0] = first /\ Chained(HostIds, None, new, c, n)
    BY <1>1, <1>2, <2>1, WalkEnds
  <2> QED
    BY <2>2, Zenon DEF H!Connects, H!Chain, Chained
<1>5. ASSUME wrong # {} PROVE FALSE
  <2>1. PICK m \in wrong : \A k \in wrong : m <= k
    <3>1. wrong \in SUBSET Nat
      BY <1>2
    <3> HIDE DEF wrong
    <3> QED
      BY <1>5, <3>1, Smallest
  <2>2. m \in 1..MaxJumps + 1 /\ p[m] # None /\ Wrong(m)
    BY <2>1
  <2>3. \A i \in 0..m - 1 : p[i] \notin imported
    <3>1. ~ \E k \in wrong : k < m
      <4> HIDE DEF wrong
      <4>1. \A k \in wrong : k \in Nat
        BY <1>2 DEF wrong
      <4> QED
        BY <1>2, <2>1, <2>2, <4>1
    <3> QED
      BY <1>3, <2>1, <3>1, Zenon
  <2> HIDE DEF wrong, Wrong
  <2>4. p[0] = first /\ first \notin imported
    BY <1>1, <2>2, <2>3 DEF Walks
  <2>5. PICK n \in 0..MaxJumps : \E c \in [0..n -> HostIds] : c[0] = first /\ H!Chain(old, c, n)
    BY <2>4, Zenon DEF H!Connects
  <2>6. PICK c \in [0..n -> HostIds] : c[0] = first /\ Chained(HostIds, None, old, c, n)
    BY <2>5, Zenon DEF H!Chain, Chained
  <2>7. (\A i \in 0..m : i <= n => p[i] = c[i]) /\ (m > n => p[m] = None)
    <3>1. GoesAlong(p, m, c, n, None)
      BY <1>1, <1>2, <2>2, <2>3, <2>6, WalkStays, Zenon
    <3> QED
      BY <3>1 DEF GoesAlong
  <2>8. m <= n
    BY <1>2, <2>2, <2>7
  <2>9. p[m] = c[m] /\ c[m] \in HostIds /\ old[c[m]] # None /\ m \in 0..n
    BY <2>2, <2>6, <2>7, <2>8 DEF Chained
  <2>10. new[p[m]] # None
    BY <2>3, <2>9 DEF Keeps
  <2>11. m # MaxJumps + 1
    BY <1>2, <2>8
  <2>12. PICK i \in 0..m - 1 : p[i] = p[m]
    BY <2>2, <2>10, <2>11, Zenon DEF Wrong
  <2>13. c[i] = c[m] /\ i \in 0..n /\ i < m
    BY <2>2, <2>7, <2>8, <2>9, <2>12
  <2> QED
    BY <2>6, <2>9, <2>13, ChainsDoNotRepeat
<1> QED
  BY <1>4, <1>5

\* Finiteness and cardinality as the component has them.
LEMMA HostCardinality ==
  ASSUME NEW V PROVE H!Cardinality(V) = Cardinality(V) /\ (H!IsFiniteSet(V) <=> IsFiniteSet(V))
BY DEF H!Cardinality, Cardinality, H!IsFiniteSet, IsFiniteSet

\* A local state is at one of the places.
LEMMA HostPcs ==
  ASSUME NEW f \in [HostRequests -> H!Locals]
  PROVE  \A r \in HostRequests : f[r].pc \in H!Pcs
BY DEF H!Locals

\* The hosts of a package are matched with hosts.
LEMMA HostTargets ==
  ASSUME H!Typed, NEW r \in HostRequests, NEW package \in H!Packages(r)
  PROVE  /\ DOMAIN package \in SUBSET HostIds /\ package \in [DOMAIN package -> H!Entry]
         /\ \A id \in DOMAIN package : H!Target(package, id) \in HostIds
         /\ H!Targets(package) \subseteq HostIds
         /\ \A ref \in H!Refs : H!Remap(package, ref) \in H!Refs
<1>1. DOMAIN package \in SUBSET HostIds /\ package \in [DOMAIN package -> H!Entry]
  BY HostScopes DEF H!Packages, H!Entry, H!Refs
<1>2. ASSUME NEW id \in DOMAIN package PROVE H!Target(package, id) \in HostIds
  BY <1>1, <1>2 DEF H!Target, H!Present
<1> QED
  BY <1>1, <1>2 DEF H!Targets, H!Remap, H!Refs

\* A prepared row is a row that can log in and refers to what it is remapped to.
LEMMA HostPrepared ==
  ASSUME H!Typed, NEW r \in HostRequests, NEW package \in H!Packages(r), NEW login \in H!Logins,
         NEW id \in DOMAIN package
  PROVE  LET row == H!Prepared(package, login, id) IN
         /\ row \in H!Row /\ H!CanLogIn(row)
         /\ row.name = package[id].name /\ row.jump = H!Remap(package, package[id].jump)
<1> DEFINE matched == H!Target(package, id)
           key == \/ login = "keyIncluded"
                  \/ login = "keyLeftOut" /\ hosts[matched] # None /\ hosts[matched].key
           auth == IF login = "agent" THEN "agent" ELSE "key"
           agent == H!AgentEnabled(login, key)
<1>1. /\ package[id] \in H!Entry /\ matched \in HostIds
      /\ H!Remap(package, package[id].jump) \in H!Refs
  BY HostTargets DEF H!Entry
<1>2. key \in BOOLEAN /\ agent \in BOOLEAN
  BY Zenon DEF H!AgentEnabled
<1>3. auth = "key" /\ agent => key
  BY DEF H!AgentEnabled
<1>4. H!Prepared(package, login, id) =
        [name |-> package[id].name, jump |-> H!Remap(package, package[id].jump),
         auth |-> auth, key |-> key, agent |-> agent]
  BY Zenon DEF H!Prepared
<1>5. auth \in {"agent", "key"}
  OBVIOUS
<1> HIDE DEF key, agent, auth, matched
<1>6. H!Prepared(package, login, id) \in H!Row
  BY <1>1, <1>2, <1>4, <1>5 DEF H!Row, H!Entry
<1>7. H!CanLogIn(H!Prepared(package, login, id))
  BY <1>2, <1>3, <1>4 DEF H!CanLogIn
<1> QED
  BY <1>4, <1>6, <1>7

\* There is one prepared row per target, each of a host of the package.
LEMMA HostPreparedRows ==
  ASSUME H!Typed, NEW r \in HostRequests, NEW package \in H!Packages(r), NEW login \in H!Logins
  PROVE  LET prepared == H!PreparedRows(package, login) IN
         /\ prepared \in [H!Targets(package) -> H!Row]
         /\ \A t \in DOMAIN prepared : H!CanLogIn(prepared[t])
<1> DEFINE Source(t) == CHOOSE id \in DOMAIN package : H!Target(package, id) = t
<1>1. ASSUME NEW t \in H!Targets(package) PROVE Source(t) \in DOMAIN package
  BY DEF H!Targets
<1>2. H!PreparedRows(package, login) =
        [t \in H!Targets(package) |-> H!Prepared(package, login, Source(t))]
  BY Zenon DEF H!PreparedRows
<1> HIDE DEF Source
<1>3. ASSUME NEW t \in H!Targets(package)
      PROVE  LET row == H!Prepared(package, login, Source(t)) IN row \in H!Row /\ H!CanLogIn(row)
  BY <1>1, HostPrepared
<1> QED
  BY <1>2, <1>3

\* Different hosts of a package that is accepted have different targets.
LEMMA HostDistinct ==
  ASSUME H!Typed, NEW r \in HostRequests, NEW package \in H!Packages(r), H!DistinctTargets(package),
         NEW i \in DOMAIN package, NEW j \in DOMAIN package,
         H!Target(package, i) = H!Target(package, j)
  PROVE  i = j
<1> DEFINE V == DOMAIN package
           f == [id \in V |-> H!Target(package, id)]
<1>1. IsFiniteSet(V)
  BY HostNumbers, FS_Subset, HostTargets
<1>2. f \in Surjection(V, H!Targets(package))
  BY DEF Surjection, H!Targets
<1>3. Cardinality(V) = Cardinality(H!Targets(package))
  BY HostCardinality DEF H!DistinctTargets
<1>4. f \in Injection(V, H!Targets(package))
  BY <1>1, <1>2, <1>3, FS_SurjSameCardinalityImpliesInj
<1> QED
  BY <1>4 DEF Injection, IsInjective

\* The row that is prepared for a host of the package keeps its name and its jump host.
LEMMA HostKept ==
  ASSUME H!Typed, NEW r \in HostRequests, NEW package \in H!Packages(r), NEW login \in H!Logins,
         H!DistinctTargets(package),
         NEW id \in DOMAIN package
  PROVE  LET prepared == H!PreparedRows(package, login)
             t == H!Target(package, id)
         IN  /\ t \in DOMAIN prepared /\ prepared[t].name = package[id].name
             /\ prepared[t].jump = H!Remap(package, package[id].jump)
<1> DEFINE t == H!Target(package, id)
           source == CHOOSE i \in DOMAIN package : H!Target(package, i) = t
<1>1. source \in DOMAIN package /\ H!Target(package, source) = t
  OBVIOUS
<1>2. source = id
  BY <1>1, HostDistinct
<1>3. t \in H!Targets(package)
  BY DEF H!Targets
<1>4. H!PreparedRows(package, login)[t] = H!Prepared(package, login, source)
  BY <1>3 DEF H!PreparedRows
<1>5. t \in DOMAIN H!PreparedRows(package, login)
  BY <1>3 DEF H!PreparedRows
<1> QED
  BY <1>2, <1>4, <1>5, HostPrepared

\* The rows that are prepared keep the references of the package.
LEMMA HostReferences ==
  ASSUME H!Typed, NEW r \in HostRequests, NEW package \in H!Packages(r), NEW login \in H!Logins,
         H!DistinctTargets(package)
  PROVE  LET prepared == H!PreparedRows(package, login) IN
         \A id \in DOMAIN package : \E t \in DOMAIN prepared :
              /\ prepared[t].name = package[id].name
              /\ package[id].jump \in DOMAIN package =>
                   /\ prepared[t].jump \in DOMAIN prepared
                   /\ prepared[prepared[t].jump].name = package[package[id].jump].name
<1> DEFINE prepared == H!PreparedRows(package, login)
<1> SUFFICES ASSUME NEW id \in DOMAIN package
             PROVE  \E t \in DOMAIN prepared :
                      /\ prepared[t].name = package[id].name
                      /\ package[id].jump \in DOMAIN package =>
                           /\ prepared[t].jump \in DOMAIN prepared
                           /\ prepared[prepared[t].jump].name = package[package[id].jump].name
  BY Zenon
<1> DEFINE t == H!Target(package, id)
           jump == package[id].jump
<1>1. t \in DOMAIN prepared /\ prepared[t].name = package[id].name
        /\ prepared[t].jump = H!Remap(package, jump)
  BY HostKept
<1>2. ASSUME jump \in DOMAIN package
      PROVE  prepared[t].jump \in DOMAIN prepared
               /\ prepared[prepared[t].jump].name = package[jump].name
  <2>1. prepared[t].jump = H!Target(package, jump)
    BY <1>1, <1>2 DEF H!Remap
  <2>2. H!Target(package, jump) \in DOMAIN prepared
          /\ prepared[H!Target(package, jump)].name = package[jump].name
    BY <1>2, HostKept
  <2> QED
    BY <2>1, <2>2
<1> QED
  BY <1>1, <1>2

\* A request that waits for work is well typed.
LEMMA HostIdle ==
  /\ H!Empty \in UNION {[V -> H!Row] : V \in SUBSET HostIds}
  /\ H!Empty \in UNION {[V -> H!Entry] : V \in SUBSET HostIds}
  /\ H!Idle \in H!Locals /\ H!Idle.pc = "idle"
<1>1. /\ H!Empty \in [{} -> H!Row] /\ H!Empty \in [{} -> H!Entry]
      /\ {} \in SUBSET HostIds
  BY DEF H!Empty
<1>2. /\ H!Empty \in UNION {[V -> H!Row] : V \in SUBSET HostIds}
      /\ H!Empty \in UNION {[V -> H!Entry] : V \in SUBSET HostIds}
  BY <1>1, Zenon
<1>3. H!Idle.pc = "idle"
  BY DEF H!Idle
<1> HIDE DEF H!Empty
<1> DEFINE As == UNION {[V -> H!Row] : V \in SUBSET HostIds}
           Bs == UNION {[V -> H!Entry] : V \in SUBSET HostIds}
<1>4. H!Empty \in As /\ H!Empty \in Bs
  BY <1>2
<1> HIDE DEF As, Bs
<1>5. H!Idle \in [pc : H!Pcs, target : H!Refs, row : H!Row \cup {None}, rows : As,
                  package : Bs, chain : Seq([id : HostIds, row : H!Row]), untouched : BOOLEAN]
  BY <1>4 DEF H!Idle, H!Pcs, H!Refs
<1> QED
  BY <1>2, <1>3, <1>5 DEF H!Locals, As, Bs

\* What the requests' local states keep to.
HostGood(local) ==
    /\ local \in H!Locals /\ H!HasRows(local) /\ H!HasChain(local) /\ H!KeepsReferences(local)

\* A save that begins has a row that can log in.
LEMMA HostSaveReads ==
  ASSUME H!Typed, NEW r \in HostRequests, NEW id \in HostIds, NEW input \in H!Inputs(r),
         NEW upload \in BOOLEAN,
         H!SaveReads(r, id, input, upload)
  PROVE  \E l : hostRequest' = [hostRequest EXCEPT ![r] = l] /\ HostGood(l) /\ H!Validated(l)
<1> DEFINE key == input.auth = "key" /\ (upload \/ (hosts[id] # None /\ hosts[id].key))
           row == [input EXCEPT !.key = key]
           l == [H!Idle EXCEPT !.pc = "saving", !.target = id, !.row = row]
<1>1. key \in BOOLEAN /\ (input.auth = "key" => key)
  BY Zenon DEF H!SaveReads
<1>2. hostRequest' = [hostRequest EXCEPT ![r] = l]
  BY Zenon DEF H!SaveReads, H!Begin
<1> HIDE DEF key
<1>3. row \in H!Row /\ H!CanLogIn(row)
  BY <1>1, HostScopes DEF H!Inputs, H!Row, H!Refs, H!CanLogIn
<1> HIDE DEF row
<1>4. l \in H!Locals /\ l.pc = "saving" /\ l.target = id /\ l.row = row
  BY <1>3, HostIdle DEF H!Locals, H!Pcs, H!Refs
<1> HIDE DEF l
<1>5. HostGood(l) /\ H!Validated(l)
  BY <1>3, <1>4 DEF HostGood, H!HasRows, H!HasChain, H!KeepsReferences, H!Validated
<1> QED
  BY <1>2, <1>5

\* A deletion that begins has a host to delete.
LEMMA HostDeleteChecks ==
  ASSUME NEW r \in HostRequests, NEW id \in HostIds, H!DeleteChecks(r, id)
  PROVE  \E l : hostRequest' = [hostRequest EXCEPT ![r] = l] /\ HostGood(l) /\ H!Validated(l)
<1> DEFINE l == [H!Idle EXCEPT !.pc = "deleting", !.target = id]
<1>1. hostRequest' = [hostRequest EXCEPT ![r] = l]
  BY Zenon DEF H!DeleteChecks, H!Begin
<1>2. l \in H!Locals /\ l.pc = "deleting" /\ l.target = id
  BY HostIdle DEF H!Locals, H!Pcs, H!Refs
<1> HIDE DEF l
<1> QED
  BY <1>1, <1>2 DEF HostGood, H!HasRows, H!HasChain, H!KeepsReferences, H!Validated

\* An import that begins has rows that keep the package's references and make a valid graph.
LEMMA HostImportReads ==
  ASSUME H!Typed, NEW r \in HostRequests, NEW package \in H!Packages(r), NEW login \in H!Logins,
         H!ImportReads(r, package, login)
  PROVE  \E l : hostRequest' = [hostRequest EXCEPT ![r] = l] /\ HostGood(l) /\ H!Validated(l)
<1> DEFINE prepared == H!PreparedRows(package, login)
           l == [H!Idle EXCEPT !.pc = "applying", !.package = package, !.rows = prepared,
                                !.untouched = TRUE]
<1>1. hostRequest' = [hostRequest EXCEPT ![r] = l] /\ H!DistinctTargets(package)
      /\ H!GraphAccepted(H!Imported(prepared), DOMAIN prepared)
  BY Zenon DEF H!ImportReads, H!Begin, H!Resolvable
<1>2. prepared \in [H!Targets(package) -> H!Row] /\ H!Targets(package) \in SUBSET HostIds
      /\ \A t \in DOMAIN prepared : H!CanLogIn(prepared[t])
  BY HostPreparedRows, HostTargets
<1>3. \A id \in DOMAIN package : \E t \in DOMAIN prepared :
         /\ prepared[t].name = package[id].name
         /\ package[id].jump \in DOMAIN package =>
              /\ prepared[t].jump \in DOMAIN prepared
              /\ prepared[prepared[t].jump].name = package[package[id].jump].name
  BY <1>1, HostReferences, Zenon
<1> HIDE DEF prepared
<1>4. prepared \in UNION {[V -> H!Row] : V \in SUBSET HostIds}
  BY <1>2, Zenon
<1>5. package \in UNION {[V -> H!Entry] : V \in SUBSET HostIds}
  BY Zenon, HostTargets
<1>6. l \in H!Locals /\ l.pc = "applying" /\ l.rows = prepared /\ l.package = package
  <2> DEFINE As == UNION {[V -> H!Row] : V \in SUBSET HostIds}
             Bs == UNION {[V -> H!Entry] : V \in SUBSET HostIds}
  <2>1. prepared \in As /\ package \in Bs
    BY <1>4, <1>5
  <2>2. H!Idle \in [pc : H!Pcs, target : H!Refs, row : H!Row \cup {None}, rows : As,
                    package : Bs, chain : Seq([id : HostIds, row : H!Row]), untouched : BOOLEAN]
    BY HostIdle DEF H!Locals
  <2> HIDE DEF As, Bs
  <2>3. /\ l \in [pc : H!Pcs, target : H!Refs, row : H!Row \cup {None}, rows : As,
                 package : Bs, chain : Seq([id : HostIds, row : H!Row]), untouched : BOOLEAN]
        /\ l.pc = "applying" /\ l.rows = prepared /\ l.package = package
    BY <2>1, <2>2 DEF H!Pcs
  <2> QED
    BY <2>3 DEF H!Locals, As, Bs
<1> HIDE DEF l
<1>7. H!HasRows(l) /\ H!HasChain(l)
  BY <1>2, <1>6 DEF H!HasRows, H!HasChain
<1>8. H!KeepsReferences(l)
  BY <1>3, <1>6, Zenon DEF H!KeepsReferences
<1> QED
  BY <1>1, <1>6, <1>7, <1>8, Zenon DEF HostGood, H!Validated

\* A connection begins with a chain of one host.
LEMMA HostResolveTarget ==
  ASSUME H!Typed, NEW r \in HostRequests, NEW id \in HostIds, H!ResolveTarget(r, id)
  PROVE  \E l : hostRequest' = [hostRequest EXCEPT ![r] = l] /\ HostGood(l) /\ H!Validated(l)
<1> DEFINE hop == [id |-> id, row |-> hosts[id]]
           chain == <<hop>>
           l == [H!Idle EXCEPT !.pc = "resolving", !.target = id, !.chain = chain]
<1>1. hostRequest' = [hostRequest EXCEPT ![r] = l] /\ hosts[id] # None
  BY Zenon DEF H!ResolveTarget, H!Begin
<1>2. hop \in [id : HostIds, row : H!Row] /\ hop.id = id
  BY <1>1 DEF H!Typed, H!TypeOK
<1> HIDE DEF hop
<1>3. chain \in Seq([id : HostIds, row : H!Row]) /\ Len(chain) = 1 /\ H!Read(chain) = {id}
  BY <1>2 DEF H!Read
<1> HIDE DEF chain
<1>4. l \in H!Locals /\ l.pc = "resolving" /\ l.chain = chain
  BY <1>3, HostIdle DEF H!Locals, H!Pcs, H!Refs
<1> HIDE DEF l
<1>5. H!IsFiniteSet({id}) /\ H!Cardinality({id}) = 1
  BY FS_Singleton, HostCardinality
<1>6. 1 \in 1..MaxJumps + 1
  BY HostNumbers
<1> QED
  BY <1>1, <1>3, <1>4, <1>5, <1>6 DEF HostGood, H!HasRows, H!HasChain, H!KeepsReferences,
     H!Validated

\* A connection that goes on passes a new host and is not too long.
LEMMA HostResolveJump ==
  ASSUME H!Typed, NEW r \in HostRequests, HostGood(hostRequest[r]), H!ResolveJump(r)
  PROVE  \E l : hostRequest' = [hostRequest EXCEPT ![r] = l] /\ HostGood(l) /\ H!Validated(l)
<1> DEFINE q == hostRequest[r]
           chain == q.chain
           jump == H!NextJump(chain)
           hop == [id |-> jump, row |-> hosts[jump]]
           longer == Append(chain, hop)
           l == [q EXCEPT !.chain = longer]
<1>1. /\ q.pc = "resolving" /\ jump # None /\ Len(chain) - 1 < MaxJumps /\ hosts[jump] # None
      /\ jump \notin H!Read(chain)
  BY Zenon DEF H!ResolveJump, H!NewTo
<1>2. hostRequest' = [hostRequest EXCEPT ![r] = l]
  BY DEF H!ResolveJump
<1>3. /\ q \in H!Locals /\ chain \in Seq([id : HostIds, row : H!Row])
      /\ Len(chain) \in 1..MaxJumps + 1 /\ Len(chain) \in Nat
      /\ H!IsFiniteSet(H!Read(chain)) /\ H!Cardinality(H!Read(chain)) = Len(chain)
  BY <1>1 DEF HostGood, H!HasChain, H!Locals
<1>a. jump = chain[Len(chain)].row.jump
  BY Zenon DEF H!NextJump
<1> HIDE DEF chain, jump, q
<1>4. jump \in HostIds
  <2>1. Len(chain) \in 1..Len(chain)
    BY <1>3
  <2>2. chain[Len(chain)] \in [id : HostIds, row : H!Row]
    BY <1>3, <2>1, LastOfSequence
  <2> QED
    BY <1>1, <1>a, <2>2 DEF H!Row, H!Refs
<1>5. hop \in [id : HostIds, row : H!Row] /\ hop.id = jump
  BY <1>1, <1>4 DEF H!Typed, H!TypeOK
<1> HIDE DEF hop
<1>6. longer \in Seq([id : HostIds, row : H!Row]) /\ Len(longer) = Len(chain) + 1
  BY <1>3, <1>5
<1>7. H!Read(longer) = H!Read(chain) \cup {jump}
  <2>1. /\ DOMAIN chain = 1..Len(chain) /\ DOMAIN longer = 1..(Len(chain) + 1)
        /\ \A n \in 1..Len(chain) : longer[n] = chain[n]
        /\ longer[Len(chain) + 1] = hop
    BY <1>3, <1>5
  <2>2. 1..(Len(chain) + 1) = (1..Len(chain)) \cup {Len(chain) + 1}
    BY <1>3
  <2>3. ASSUME NEW id \in H!Read(longer) PROVE id \in H!Read(chain) \cup {jump}
    <3>1. PICK n \in DOMAIN longer : id = longer[n].id
      BY <2>3, Zenon DEF H!Read
    <3>2. CASE n \in 1..Len(chain)
      BY <2>1, <3>1, <3>2 DEF H!Read
    <3>3. CASE n = Len(chain) + 1
      BY <1>5, <2>1, <3>1, <3>3
    <3> QED
      BY <2>1, <2>2, <3>1, <3>2, <3>3
  <2>4. ASSUME NEW id \in H!Read(chain) PROVE id \in H!Read(longer)
    <3>1. PICK n \in DOMAIN chain : id = chain[n].id
      BY <2>4, Zenon DEF H!Read
    <3>2. n \in DOMAIN longer /\ id = longer[n].id
      BY <2>1, <2>2, <3>1
    <3> QED
      BY <3>2, Zenon DEF H!Read
  <2>5. jump \in H!Read(longer)
    <3>1. Len(chain) + 1 \in DOMAIN longer /\ jump = longer[Len(chain) + 1].id
      BY <1>5, <2>1, <2>2
    <3> QED
      BY <3>1, Zenon DEF H!Read
  <2> QED
    BY <2>3, <2>4, <2>5
<1>8. H!IsFiniteSet(H!Read(longer)) /\ H!Cardinality(H!Read(longer)) = Len(longer)
  <2>1. IsFiniteSet(H!Read(chain)) /\ Cardinality(H!Read(chain)) = Len(chain)
    BY <1>3, HostCardinality
  <2>2. /\ IsFiniteSet(H!Read(chain) \cup {jump})
        /\ Cardinality(H!Read(chain) \cup {jump}) = Cardinality(H!Read(chain)) + 1
    BY <1>1, <2>1, FS_AddElement
  <2> QED
    BY <1>6, <1>7, <2>1, <2>2, HostCardinality
<1>9. Len(longer) \in 1..MaxJumps + 1
  BY <1>1, <1>3, <1>6, HostNumbers
<1> HIDE DEF longer
<1>10. l \in H!Locals /\ l.pc = "resolving" /\ l.chain = longer
  BY <1>1, <1>3, <1>6 DEF H!Locals
<1> HIDE DEF l
<1> QED
  BY <1>2, <1>8, <1>9, <1>10 DEF HostGood, H!HasRows, H!HasChain, H!KeepsReferences,
     H!Validated

\* The other steps of a request keep what it has.
LEMMA HostGoesOn ==
  ASSUME H!Typed, NEW r \in HostRequests, HostGood(hostRequest[r]),
         H!SaveChecksJump(r) \/ H!ResolveEnds(r) \/ H!Refused(r)
  PROVE  \E l : hostRequest' = [hostRequest EXCEPT ![r] = l] /\ HostGood(l) /\ H!Validated(l)
<1> USE DEF HostGood, H!HasRows, H!HasChain, H!KeepsReferences, H!Validated
<1> DEFINE q == hostRequest[r]
<1>1. CASE H!SaveChecksJump(r)
  <2> DEFINE l == [q EXCEPT !.pc = "upserting"]
  <2>1. hostRequest' = [hostRequest EXCEPT ![r] = l] /\ q.pc = "saving"
    BY <1>1 DEF H!SaveChecksJump
  <2>2. /\ l \in H!Locals /\ l.pc = "upserting" /\ l.target = q.target /\ l.row = q.row
    BY DEF H!Locals, H!Pcs
  <2> HIDE DEF l, q
  <2> QED
    BY <2>1, <2>2 DEF q
<1>2. CASE H!ResolveEnds(r)
  <2> DEFINE l == [q EXCEPT !.pc = "resolved"]
  <2>1. hostRequest' = [hostRequest EXCEPT ![r] = l] /\ q.pc = "resolving" /\ H!AllEnabled(q.chain)
    BY <1>2 DEF H!ResolveEnds
  <2>2. l \in H!Locals /\ l.pc = "resolved" /\ l.chain = q.chain
    BY DEF H!Locals, H!Pcs
  <2> HIDE DEF l, q
  <2> QED
    BY <2>1, <2>2 DEF q
<1>3. CASE H!Refused(r)
  BY <1>3, HostIdle DEF H!Refused
<1> QED
  BY <1>1, <1>2, <1>3

\* A row that is written is well typed, can log in, and has a name of its own.
LEMMA HostWritten ==
  ASSUME H!Typed, H!AgentHostsCanLogIn, NEW r \in HostRequests, HostGood(hostRequest[r]),
         H!UpsertHost(r) \/ H!DeleteHost(r) \/ H!ApplyConfiguration(r)
  PROVE  /\ hosts' \in [HostIds -> H!Row \cup {None}] /\ H!UniqueNames(hosts')
         /\ \A id \in H!Present(hosts') : H!CanLogIn(hosts'[id])
         /\ UNCHANGED begun
         /\ hostRequest' = [q \in HostRequests |->
              IF q = r THEN H!Idle ELSE [hostRequest[q] EXCEPT !.untouched = FALSE]]
<1> USE HostBounds DEF H!Typed, H!TypeOK, H!Write, H!AgentHostsCanLogIn, H!Present
<1>1. CASE H!UpsertHost(r)
  <2> DEFINE id == hostRequest[r].target
             row == hostRequest[r].row
  <2>1. /\ hosts' = [hosts EXCEPT ![id] = row] /\ hostRequest[r].pc = "upserting"
        /\ H!UniqueNames(hosts')
    BY <1>1, Zenon DEF H!UpsertHost
  <2>2. id \in HostIds /\ row \in H!Row /\ H!CanLogIn(row)
    BY <2>1, Zenon DEF HostGood, H!HasRows
  <2> HIDE DEF id, row
  <2>3. /\ hosts' \in [HostIds -> H!Row \cup {None}]
        /\ \A i \in HostIds : hosts'[i] = IF i = id THEN row ELSE hosts[i]
    BY <2>1, <2>2
  <2>4. \A i \in H!Present(hosts') : H!CanLogIn(hosts'[i])
    BY <2>2, <2>3
  <2> QED
    BY <1>1, <2>1, <2>3, <2>4 DEF H!UpsertHost
<1>2. CASE H!DeleteHost(r)
  <2> DEFINE id == hostRequest[r].target
  <2>1. hosts' = [hosts EXCEPT ![id] = None] /\ hostRequest[r].pc = "deleting"
    BY <1>2, Zenon DEF H!DeleteHost
  <2>2. id \in HostIds
    BY <2>1, Zenon DEF HostGood, H!HasRows
  <2> HIDE DEF id
  <2>3. /\ hosts' \in [HostIds -> H!Row \cup {None}]
        /\ \A i \in HostIds : hosts'[i] = IF i = id THEN None ELSE hosts[i]
    BY <2>1, <2>2
  <2>4. H!UniqueNames(hosts')
    BY <2>3 DEF H!UniqueNames
  <2>5. \A i \in H!Present(hosts') : H!CanLogIn(hosts'[i])
    BY <2>3
  <2> QED
    BY <1>2, <2>3, <2>4, <2>5 DEF H!DeleteHost
<1>3. CASE H!ApplyConfiguration(r)
  <2> DEFINE prepared == hostRequest[r].rows
  <2>1. hosts' = H!Imported(prepared) /\ hostRequest[r].pc = "applying" /\ H!UniqueNames(hosts')
    BY <1>3, Zenon DEF H!ApplyConfiguration
  <2>2. PICK V \in SUBSET HostIds : prepared \in [V -> H!Row]
    BY DEF HostGood, H!Locals
  <2>3. \A t \in DOMAIN prepared : H!CanLogIn(prepared[t])
    BY <2>1, Zenon DEF HostGood, H!HasRows
  <2> HIDE DEF prepared
  <2>4. /\ hosts' \in [HostIds -> H!Row \cup {None}]
        /\ \A i \in HostIds : hosts'[i] = IF i \in V THEN prepared[i] ELSE hosts[i]
    BY <2>1, <2>2 DEF H!Imported
  <2>5. \A i \in H!Present(hosts') : H!CanLogIn(hosts'[i])
    BY <2>2, <2>3, <2>4
  <2> QED
    BY <1>3, <2>1, <2>4, <2>5 DEF H!ApplyConfiguration
<1> QED
  BY <1>1, <1>2, <1>3

\* The graph of an import stays valid while the table stays.
LEMMA HostUnmoved == ASSUME NEW l, hosts' = hosts PROVE H!Validated(l)' <=> H!Validated(l)
<1>1. H!Imported(l.rows)' = H!Imported(l.rows)
  BY DEF H!Imported
<1> QED
  BY <1>1 DEF H!Validated

\* A step of one request that writes no row keeps the invariant if its local state does.
LEMMA HostMoves ==
  ASSUME H!IInv, NEW r \in HostRequests, NEW l, hostRequest' = [hostRequest EXCEPT ![r] = l],
         HostGood(l), H!Validated(l),
         hosts' = hosts, begun' \in 0..HostRuns
  PROVE  H!IInv'
<1>1. HostGood(l)' /\ \A q \in HostRequests : HostGood(hostRequest[q])
  BY DEF H!IInv, H!Typed, H!TypeOK, HostGood, H!ImportKeepsReferences
<1>2. ASSUME NEW q \in HostRequests PROVE HostGood(hostRequest[q])'
  BY <1>1 DEF H!IInv, H!Typed, H!TypeOK
<1>3. H!Typed' /\ H!AgentHostsCanLogIn'
  <2>1. hostRequest' \in [HostRequests -> H!Locals]
    BY DEF H!IInv, H!Typed, HostGood
  <2> QED
    BY <2>1, HostPcs DEF H!IInv, H!Typed, H!TypeOK, H!AgentHostsCanLogIn, H!Present, H!UniqueNames,
       HostGood
<1>4. ASSUME NEW q \in HostRequests PROVE H!Validated(hostRequest[q])'
  <2>1. hostRequest'[q] = IF q = r THEN l ELSE hostRequest[q]
    BY DEF H!IInv, H!Typed
  <2>2. PICK x : x = hostRequest'[q]
    OBVIOUS
  <2>3. H!Validated(x)
    BY <2>1, <2>2 DEF H!IInv
  <2>4. H!Imported(x.rows)' = H!Imported(x.rows)
    BY DEF H!Imported
  <2>5. H!Validated(x)'
    BY <2>3, <2>4 DEF H!Validated
  <2> QED
    BY <2>2, <2>5 DEF H!Validated, H!Imported
<1> QED
  BY <1>2, <1>3, <1>4 DEF H!IInv, H!ImportKeepsReferences, HostGood

\* Every step of a save, a deletion, an import and a connection keeps it.
LEMMA HostStep == ASSUME H!IInv, H!Next \/ UNCHANGED hostVars PROVE H!IInv'
<1> USE DEF H!IInv
<1>1. CASE UNCHANGED hostVars
  <2>1. ASSUME NEW q \in HostRequests PROVE H!Validated(hostRequest[q])'
    <3>1. H!Imported(hostRequest[q].rows)' = H!Imported(hostRequest[q].rows)
            /\ hostRequest' = hostRequest
      BY <1>1 DEF H!Imported, hostVars
    <3> QED
      BY <3>1 DEF H!Validated
  <2> QED
    BY <1>1, <2>1 DEF hostVars, H!Typed, H!TypeOK, H!AgentHostsCanLogIn, H!ImportKeepsReferences,
       H!Present, H!UniqueNames
<1>2. \A q \in HostRequests : HostGood(hostRequest[q])
  BY DEF H!Typed, H!TypeOK, HostGood, H!ImportKeepsReferences
<1>3. ASSUME NEW r \in HostRequests,
             \/ \E id \in HostIds, input \in H!Inputs(r), upload \in BOOLEAN :
                   H!SaveReads(r, id, input, upload)
             \/ \E id \in HostIds : H!DeleteChecks(r, id) \/ H!ResolveTarget(r, id)
             \/ \E package \in H!Packages(r), login \in H!Logins : H!ImportReads(r, package, login)
      PROVE  H!IInv'
  <2>1. PICK l : hostRequest' = [hostRequest EXCEPT ![r] = l] /\ HostGood(l) /\ H!Validated(l)
    <3>1. CASE \E id \in HostIds, input \in H!Inputs(r),
       upload \in BOOLEAN : H!SaveReads(r, id, input, upload)
      BY <3>1, HostSaveReads, Zenon
    <3>2. CASE \E id \in HostIds : H!DeleteChecks(r, id) \/ H!ResolveTarget(r, id)
      BY <3>2, HostDeleteChecks, HostResolveTarget, Zenon
    <3>3. CASE \E package \in H!Packages(r), login \in H!Logins : H!ImportReads(r, package, login)
      BY <3>3, HostImportReads, Zenon
    <3> QED
      BY <1>3, <3>1, <3>2, <3>3, Zenon
  <2>2. hosts' = hosts /\ begun' = begun + 1 /\ begun < HostRuns
    BY <1>3 DEF H!SaveReads, H!DeleteChecks, H!ResolveTarget, H!ImportReads, H!Begin, H!Free
  <2>3. begun' \in 0..HostRuns
    BY <2>2, HostNumbers DEF H!Typed, H!TypeOK
  <2> QED
    BY <2>1, <2>2, <2>3, HostMoves
<1>4. ASSUME NEW r \in HostRequests,
             H!SaveChecksJump(r) \/ H!ResolveJump(r) \/ H!ResolveEnds(r) \/ H!Refused(r)
      PROVE  H!IInv'
  <2>1. PICK l : hostRequest' = [hostRequest EXCEPT ![r] = l] /\ HostGood(l) /\ H!Validated(l)
    BY <1>2, <1>4, HostResolveJump, HostGoesOn, Zenon
  <2>2. hosts' = hosts /\ begun' = begun
    BY <1>4 DEF H!SaveChecksJump, H!ResolveJump, H!ResolveEnds, H!Refused
  <2>3. begun' \in 0..HostRuns
    BY <2>2 DEF H!Typed, H!TypeOK
  <2> QED
    BY <2>1, <2>2, <2>3, HostMoves
<1>5. ASSUME NEW r \in HostRequests, H!UpsertHost(r) \/ H!DeleteHost(r) \/ H!ApplyConfiguration(r)
      PROVE  H!IInv'
  <2>1. /\ hosts' \in [HostIds -> H!Row \cup {None}] /\ H!UniqueNames(hosts')
        /\ \A id \in H!Present(hosts') : H!CanLogIn(hosts'[id])
        /\ begun' = begun
        /\ hostRequest' = [q \in HostRequests |-> IF q = r THEN H!Idle
                                  ELSE [hostRequest[q] EXCEPT !.untouched = FALSE]]
    BY <1>2, <1>5, HostWritten, Zenon
  <2>2. HostGood(H!Idle)
    BY HostIdle DEF HostGood, H!HasRows, H!HasChain, H!KeepsReferences
  <2>3. ASSUME NEW q \in HostRequests PROVE HostGood([hostRequest[q] EXCEPT !.untouched = FALSE])
    <3> DEFINE l == [hostRequest[q] EXCEPT !.untouched = FALSE]
    <3>1. HostGood(hostRequest[q])
      BY <1>2
    <3>2. /\ l \in H!Locals /\ l.pc = hostRequest[q].pc /\ l.target = hostRequest[q].target
          /\ l.row = hostRequest[q].row /\ l.rows = hostRequest[q].rows
          /\ l.package = hostRequest[q].package
          /\ l.chain = hostRequest[q].chain
      BY <3>1 DEF HostGood, H!Locals
    <3> HIDE DEF l
    <3> QED
      BY <3>1, <3>2 DEF HostGood, H!HasRows, H!HasChain, H!KeepsReferences, l
  <2>4. ASSUME NEW q \in HostRequests PROVE HostGood(hostRequest'[q])
    BY <2>1, <2>2, <2>3
  <2>5. hostRequest' \in [HostRequests -> H!Locals]
    BY <2>1, <2>4 DEF HostGood
  <2>6. H!Typed' /\ H!AgentHostsCanLogIn'
    BY <2>1, <2>5, HostPcs DEF H!IInv, H!Typed, H!TypeOK, H!AgentHostsCanLogIn
  <2>7. ASSUME NEW q \in HostRequests PROVE H!Validated(hostRequest[q])'
    <3>1. hostRequest'[q].pc = "idle" \/ hostRequest'[q].untouched = FALSE
      BY <1>2, <2>1, HostIdle DEF HostGood, H!Locals
    <3> QED
      BY <3>1 DEF H!Validated
  <2> QED
    BY <2>4, <2>6, <2>7 DEF HostGood, H!ImportKeepsReferences
<1> QED
  <2>1. ASSUME NEW r \in HostRequests, H!Step(r) PROVE H!IInv'
    <3>1. \A id \in Scope[r].ids : id \in HostIds
      BY HostScopes
    <3> QED
      BY <2>1, <3>1, <1>3, <1>4, <1>5, Zenon DEF H!Step
  <2> QED
    BY <1>1, <2>1 DEF H!Next

\* The hosts start so.
LEMMA HostStarts == H!Init => H!IInv
<1> SUFFICES ASSUME H!Init PROVE H!IInv
  OBVIOUS
<1>1. PICK present \in SUBSET HostIds, jumps \in [HostIds -> H!Refs] :
        hosts = [id \in HostIds |->
          IF id \notin present THEN None
          ELSE [name |-> NameOf[id], jump |-> jumps[id], auth |-> "agent", key |-> FALSE,
                agent |-> TRUE]]
  BY Zenon DEF H!Init
<1>2. /\ \A id \in HostIds : NameOf[id] \in HostNames
      /\ \A i, j \in HostIds : NameOf[i] = NameOf[j] => i = j
  BY HostBounds
<1>3. ASSUME NEW id \in HostIds, id \in present
      PROVE  hosts[id] \in H!Row /\ hosts[id].name = NameOf[id] /\ H!CanLogIn(hosts[id])
  BY <1>1, <1>2, <1>3 DEF H!Row, H!CanLogIn
<1>4. ASSUME NEW id \in HostIds, id \notin present PROVE hosts[id] = None
  BY <1>1, <1>4
<1>5. hosts \in [HostIds -> H!Row \cup {None}] /\ H!UniqueNames(hosts) /\ H!AgentHostsCanLogIn
  <2>1. hosts = [id \in HostIds |-> hosts[id]]
    BY <1>1
  <2> QED
    BY <2>1, <1>2, <1>3, <1>4 DEF H!UniqueNames, H!Present, H!AgentHostsCanLogIn
<1>6. hostRequest = [r \in HostRequests |-> H!Idle] /\ begun = 0
  BY Zenon DEF H!Init
<1>7. H!Typed
  <2>1. hostRequest \in [HostRequests -> H!Locals] /\ begun \in 0..HostRuns
    BY <1>6, HostIdle, HostNumbers
  <2> QED
    BY <1>5, <2>1, HostPcs DEF H!Typed, H!TypeOK
<1>8. \A r \in HostRequests : /\ H!HasRows(hostRequest[r]) /\ H!HasChain(hostRequest[r])
                   /\ H!KeepsReferences(hostRequest[r]) /\ H!Validated(hostRequest[r])
  BY <1>6, HostIdle DEF H!HasRows, H!HasChain, H!KeepsReferences, H!Validated
<1> QED
  BY <1>5, <1>7, <1>8 DEF H!IInv, H!ImportKeepsReferences

\* A connection that was resolved is sound.
LEMMA HostConnections == ASSUME H!IInv PROVE H!ConnectionsAreSound
<1> SUFFICES ASSUME NEW r \in HostRequests, hostRequest[r].pc = "resolved"
             PROVE  LET chain == hostRequest[r].chain IN
                    /\ H!Cardinality(H!Read(chain)) = Len(chain) /\ Len(chain) <= MaxJumps + 1
                    /\ \A n \in DOMAIN chain : chain[n].row.agent
  BY Zenon DEF H!ConnectionsAreSound
<1>1. H!HasChain(hostRequest[r])
  BY Zenon DEF H!IInv
<1> DEFINE chain == hostRequest[r].chain
<1>2. /\ Len(chain) \in 1..MaxJumps + 1 /\ H!Cardinality(H!Read(chain)) = Len(chain)
      /\ H!AllEnabled(chain)
  BY <1>1, Zenon DEF H!HasChain
<1> HIDE DEF chain
<1>3. Len(chain) <= MaxJumps + 1
  BY <1>2
<1>4. \A n \in DOMAIN chain : chain[n].row.agent
  BY <1>2, Zenon DEF H!AllEnabled
<1> QED
  BY <1>2, <1>3, <1>4, Zenon DEF chain

\* An import whose references were looked up in the transaction leaves none open.
LEMMA HostRefer ==
  ASSUME H!IInv, H!Next \/ UNCHANGED hostVars
  PROVE  [H!ImportRefersToRows]_(H!vars)
<1> SUFFICES ASSUME NEW r \in HostRequests, H!ApplyConfiguration(r),
                    NEW t \in DOMAIN hostRequest[r].rows,
                    hosts'[t].jump # None
             PROVE  hosts'[hosts'[t].jump] # None
  BY Zenon DEF H!ImportRefersToRows
<1> DEFINE prepared == hostRequest[r].rows
<1>1. hosts' = H!Imported(prepared) /\ H!ReferenceExists(hosts', prepared[t].jump)
  BY Zenon DEF H!ApplyConfiguration, H!Write
<1>2. DOMAIN prepared \subseteq HostIds
  BY DEF H!IInv, H!Typed, H!TypeOK, H!Locals
<1>3. hosts'[t] = prepared[t]
  BY <1>1, <1>2 DEF H!Imported
<1> QED
  BY <1>1, <1>3 DEF H!ReferenceExists

\* An import that nothing interrupted connects its hosts and keeps the connections there were.
LEMMA HostConnect ==
  ASSUME H!IInv, H!Next \/ UNCHANGED hostVars
  PROVE  [H!ImportKeepsConnections]_(H!vars)
<1> SUFFICES ASSUME NEW r \in HostRequests, H!ApplyConfiguration(r), hostRequest[r].untouched,
                    NEW id \in H!Present(hosts'),
                    \/ id \in DOMAIN hostRequest[r].rows
                    \/ hosts[id] # None /\ H!Connects(hosts, id)
             PROVE  H!Connects(hosts', id)
  BY Zenon DEF H!ImportKeepsConnections
<1> DEFINE prepared == hostRequest[r].rows
           imported == DOMAIN prepared
<1>1. hosts' = H!Imported(prepared) /\ hostRequest[r].pc = "applying"
  BY Zenon DEF H!ApplyConfiguration, H!Write
<1>2. H!GraphAccepted(hosts', imported)
  <2>1. H!Validated(hostRequest[r])
    BY Zenon DEF H!IInv
  <2> QED
    BY <1>1, <2>1, Zenon DEF H!Validated
<1>3. PICK V \in SUBSET HostIds : prepared \in [V -> H!Row]
  BY DEF H!IInv, H!Typed, H!Locals
<1> HIDE DEF prepared
<1>4. /\ id \in HostIds /\ hosts'[id] # None
      /\ H!WalkAccepts(hosts', imported, id)
  BY <1>2 DEF H!GraphAccepted, H!Present
<1>5. /\ \A i \in HostIds : hosts'[i] = IF i \in V THEN prepared[i] ELSE hosts[i]
      /\ imported = V
  BY <1>1, <1>3 DEF H!Imported
<1>6. Table(HostIds, None, hosts) /\ Table(HostIds, None, hosts')
  <2>1. hosts \in [HostIds -> H!Row \cup {None}] /\ None \notin HostIds
    BY HostBounds DEF H!IInv, H!Typed, H!TypeOK
  <2>2. Table(HostIds, None, hosts)
    BY <2>1 DEF Table, H!Row, H!Refs
  <2>3. ASSUME NEW i \in HostIds, hosts'[i] # None PROVE hosts'[i].jump \in HostIds \cup {None}
    <3>1. CASE i \in V
      BY <1>3, <1>5, <3>1 DEF H!Row, H!Refs
    <3>2. CASE i \notin V
      BY <1>5, <2>2, <2>3, <3>2 DEF Table
    <3> QED
      BY <3>1, <3>2
  <2> QED
    BY <2>1, <2>2, <2>3, Zenon DEF Table
<1>7. Keeps(HostIds, None, imported, hosts, hosts')
  BY <1>5 DEF Keeps
<1>8. \A i \in HostIds : i \in imported => hosts'[i] # None
  BY <1>3, <1>5, HostBounds
<1>9. id \in imported \/ (hosts[id] # None /\ H!Connects(hosts, id))
  BY DEF prepared
<1> HIDE DEF imported
<1> QED
  BY <1>4, <1>6, <1>7, <1>8, <1>9, HostAccepted

-----------------------------------------------------------------------------
(* What the run states *)

\* A step of the run is one of a component or leaves that component alone.
LEMMA DataMoves ==
  ASSUME [Next]_vars
  PROVE  /\ D!Next \/ UNCHANGED commitVars
         /\ S!Next \/ UNCHANGED skillVars
         /\ ConfigurationNext \/ UNCHANGED configurationVars
         /\ H!Next \/ UNCHANGED hostVars
<1> USE DEF Next, MoveCommits, MoveText, MoveConfiguration, MoveHosts, MoveHistory, MoveSkills,
    MoveLogs, MoveFeed, MoveContext, MoveBudget, Rest, recordVars, vars
<1>1. /\ D!Next \/ UNCHANGED commitVars
      /\ S!Next \/ UNCHANGED skillVars
  BY Zenon
<1>2. ConfigurationNext \/ UNCHANGED configurationVars
  BY ConfigurationMoves, Zenon
<1>3. H!Next \/ UNCHANGED hostVars
  BY HostBounds, Zenon DEF H!Next
<1> QED
  BY <1>1, <1>2, <1>3

\* In every state the operations on a file know what they look at, and what stands at the
\* path is flushed (workspace.go, transfer.go).
THEOREM CommitInvariance == Spec => []D!IInv
<1>1. Init => D!IInv
  BY CommitStarts DEF Init
<1>2. ASSUME D!IInv, [Next]_vars PROVE D!IInv'
  BY <1>2, DataMoves, CommitStep
<1> QED
  BY <1>1, <1>2, PTL DEF Spec

\* In every state of a change of the skills its place, the directories and what they are
\* moved from fit together, for an import as long as at most one call has failed (registry.go).
THEOREM SkillInvariance == Spec => []S!IInv
<1>1. Init => S!IInv
  BY SkillStarts DEF Init
<1>2. ASSUME S!IInv, [Next]_vars PROVE S!IInv'
  BY <1>2, DataMoves, SkillStep
<1> QED
  BY <1>1, <1>2, PTL DEF Spec

\* A change of a file on this host that was reported survives a power loss, and an edit
\* replaces none that it did not know of and that was there at its last look; an import of
\* skills that is answered is in place as a whole, one whose one failing call came before
\* is undone, and lists are of one state (workspace.go, files.go, registry.go).
THEOREM ChangesStayWhole == Spec => []ChangesAreWhole
<1>1. D!IInv /\ S!IInv => ChangesAreWhole
  BY CommitsAreDurable, SkillsAreWhole DEF ChangesAreWhole, D!IInv, S!IInv
<1> QED
  BY <1>1, CommitInvariance, SkillInvariance, PTL

\* In every state of the configuration one request at a time reloads, what it read is not
\* older than what runs, and a write that was answered runs (runtime.go, service.go).
THEOREM ConfigurationInvariance == Spec => []C!IInv
<1>1. Init => C!IInv
  BY ConfigurationStarts DEF Init
<1>2. ASSUME C!IInv, [Next]_vars PROVE C!IInv'
  BY <1>2, DataMoves, ConfigurationStep
<1> QED
  BY <1>1, <1>2, PTL DEF Spec

\* In every state the requests on hosts have rows that can log in and references that are
\* kept, the connections under way repeat no host, and the graph of an import that nothing
\* interrupted is valid (configuration.go, ssh.go).
THEOREM HostInvariance == Spec => []H!IInv
<1>1. Init => H!IInv
  BY HostStarts DEF Init
<1>2. ASSUME H!IInv, [Next]_vars PROVE H!IInv'
  BY <1>2, DataMoves, HostStep
<1> QED
  BY <1>1, <1>2, PTL DEF Spec

\* What the agent runs includes every change of the configuration whose request reloaded it
\* and was answered, its reviewers come from the same reload, one provider is active, a
\* detected window is of the model that runs, a deletion takes no proxy that is referenced
\* at that moment; no import breaks a reference between hosts or a connection to one, and
\* what is connected to goes through enabled hosts, without a loop (runtime.go,
\* configuration.go, ssh.go).
THEOREM ConfigurationStaysSafe == Spec => ConfigurationSafe
<1>1. C!IInv => /\ C!OneActiveProvider /\ C!ReloadedWritesAreInstalled /\ C!ReviewersFollowRunner
                /\ C!WindowIsOfTheModel /\ C!TypeOK
  BY ReviewersFollow DEF C!IInv
<1>2. H!IInv => /\ H!TypeOK /\ H!ImportKeepsReferences /\ H!AgentHostsCanLogIn
                /\ H!ConnectionsAreSound
  BY HostConnections DEF H!IInv, H!Typed
<1>3. ASSUME C!IInv, [Next]_vars PROVE [C!ProxyStays]_C!vars
  BY <1>3, DataMoves, ProxiesStay DEF C!IInv
<1>4. ASSUME H!IInv, [Next]_vars PROVE [H!ImportKeepsConnections]_(H!vars)
  BY <1>4, DataMoves, HostConnect
<1>5. ASSUME H!IInv, [Next]_vars PROVE [H!ImportRefersToRows]_(H!vars)
  BY <1>5, DataMoves, HostRefer
<1> QED
  BY <1>1, <1>2, <1>3, <1>4, <1>5, ConfigurationInvariance, HostInvariance, PTL
     DEF Spec, ConfigurationSafe, C!ReferencedProxyStays, H!ImportBreaksNoHost,
         H!ImportedReferencesExist
=============================================================================
