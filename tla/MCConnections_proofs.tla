------------------------ MODULE MCConnections_proofs ------------------------
(***************************************************************************)
(* Proofs about the connections under the tools: the SFTP pool, for any    *)
(* finite set of operations and any number of entries, and SSH calls, for  *)
(* any number of hops, keys, key changes and calls.  They are stated of    *)
(* the run MCRemote, about the components as it instantiates them.         *)
(*                                                                         *)
(* That users keep their connection rests on the count of the users being  *)
(* true, which NoConnectionLost says; that no connection is lost rests on  *)
(* an open one that is not stale being the pool's (EntryInv).  Neither is  *)
(* inductive without what an operation knows of the entry it holds         *)
(* (LeaseInv): that it connects alone, before anybody uses the entry.      *)
(*                                                                         *)
(* That a session runs only over confirmed host keys needs what a call     *)
(* trusts to be confirmed (TrustInv) and the hops behind it to be          *)
(* authenticated (CallInv).  That a call that returned left nothing open   *)
(* needs to know whose goroutine still dials (DialInv).                    *)
(***************************************************************************)
EXTENDS MCRemote, FiniteSetTheorems, TLAPS

-----------------------------------------------------------------------------
(* The SFTP pool *)

\* SFTPPool counts with the Cardinality of FiniteSets.
LEMMA PoolCount == ASSUME NEW X PROVE P!Cardinality(X) = Cardinality(X)
  BY DEF P!Cardinality, Cardinality

\* A user more: the set grows by one.
LEMMA PoolOneMore ==
  ASSUME NEW X \in SUBSET Callers, NEW c \in Callers, c \notin X
  PROVE  P!Cardinality(X \cup {c}) = P!Cardinality(X) + 1 /\ P!Cardinality(X) \in Nat
<1>1. IsFiniteSet(X)
  BY PoolBounds, FS_Subset
<1>2. Cardinality(X \cup {c}) = Cardinality(X) + 1 /\ Cardinality(X) \in Nat
  BY <1>1, FS_AddElement, FS_CardinalityType
<1> QED
  BY <1>2, PoolCount

\* A user less: it shrinks by one.
LEMMA PoolOneLess ==
  ASSUME NEW X \in SUBSET Callers, NEW c \in X
  PROVE  P!Cardinality(X \ {c}) = P!Cardinality(X) - 1 /\ P!Cardinality(X) \in Nat
<1>1. IsFiniteSet(X)
  BY PoolBounds, FS_Subset
<1>2. Cardinality(X \ {c}) = Cardinality(X) - 1 /\ Cardinality(X) \in Nat
  BY <1>1, FS_RemoveElement, FS_CardinalityType
<1> QED
  BY <1>2, PoolCount

\* The number of users is zero if there are none, and never above that of the callers.
LEMMA PoolCounted ==
  ASSUME NEW X \in SUBSET Callers
  PROVE  /\ P!Cardinality(X) \in 0 .. P!Cardinality(Callers)
         /\ P!Cardinality(X) = 0 <=> X = {}
<1>1. IsFiniteSet(X) /\ IsFiniteSet(Callers)
  BY PoolBounds, FS_Subset
<1>2. Cardinality(X) <= Cardinality(Callers) /\ Cardinality(X) \in Nat /\ Cardinality(Callers) \in Nat
  BY <1>1, PoolBounds, FS_Subset, FS_CardinalityType
<1>3. Cardinality(X) = 0 <=> X = {}
  BY <1>1, FS_EmptySet
<1> QED
  BY <1>2, <1>3, PoolCount

LEMMA PoolUsersAreCallers == \A e : P!Users(e) \in SUBSET Callers
BY DEF P!Users

-----------------------------------------------------------------------------
(* Who uses an entry *)

\* An operation that neither has a connection before nor after a step, or the same.
LEMMA PoolUsersKept ==
  ASSUME \A d \in Callers : \/ opener'[d] = opener[d] /\ lease'[d] = lease[d]
                            \/ opener[d] \notin {"open", "use"} /\ opener'[d] \notin {"open", "use"}
                            \/ opener[d] = "open" /\ opener'[d] = "use" /\ lease'[d] = lease[d]
  PROVE  \A e : P!Users(e)' = P!Users(e)
BY DEF P!Users

\* An operation gets the connection of entry e.
LEMMA PoolUserJoins ==
  ASSUME NEW c \in Callers, NEW e \in Entries, opener[c] \notin {"open", "use"},
         opener'[c] = "open", lease'[c] = e,
         \A d \in Callers \ {c} : opener'[d] = opener[d] /\ lease'[d] = lease[d]
  PROVE  /\ P!Users(e)' = P!Users(e) \cup {c} /\ c \notin P!Users(e)
         /\ \A f \in Entries \ {e} : P!Users(f)' = P!Users(f)
<1>1. c \notin P!Users(e) /\ c \in P!Users(e)'
  BY DEF P!Users
<1>2. \A f : \A d \in Callers \ {c} : d \in P!Users(f)' <=> d \in P!Users(f)
  BY DEF P!Users
<1>3. \A f \in Entries \ {e} : c \notin P!Users(f) /\ c \notin P!Users(f)'
  BY DEF P!Users
<1>4. \A f : P!Users(f) \subseteq Callers /\ P!Users(f)' \subseteq Callers
  BY DEF P!Users
<1>5. P!Users(e)' = P!Users(e) \cup {c}
  BY <1>1, <1>2, <1>4
<1>6. \A f \in Entries \ {e} : P!Users(f)' = P!Users(f)
  BY <1>2, <1>3, <1>4
<1> QED
  BY <1>1, <1>5, <1>6

\* An operation gives the connection of its entry back.
LEMMA PoolUserLeaves ==
  ASSUME NEW c \in Callers, NEW e \in Entries, opener[c] \in {"open", "use"}, lease[c] = e,
         opener'[c] \notin {"open", "use"},
         \A d \in Callers \ {c} : opener'[d] = opener[d] /\ lease'[d] = lease[d]
  PROVE  /\ P!Users(e)' = P!Users(e) \ {c} /\ c \in P!Users(e)
         /\ \A f \in Entries \ {e} : P!Users(f)' = P!Users(f)
BY DEF P!Users

-----------------------------------------------------------------------------
(* The steps *)

\* A step that changes no entry, and no users, of which the operation may take a
\* lease to wait for or give one up.
LEMMA PoolEntriesKept ==
  ASSUME P!IInv, UNCHANGED <<pool, sftpClient, refs, stale, idleTimer, firing>>, ready \subseteq ready',
         done => done', \A e : P!Users(e)' = P!Users(e)
  PROVE  P!UsersKeepConnection' /\ P!NoConnectionLost' /\ P!EntryInv'
<1>1. P!UsersKeepConnection'
  BY DEF P!IInv, P!UsersKeepConnection
<1>2. P!NoConnectionLost'
  BY DEF P!IInv, P!NoConnectionLost
<1>3. P!EntryInv'
  BY DEF P!IInv, P!EntryInv
<1> QED
  BY <1>1, <1>2, <1>3

\* The steps of an operation that has no connection yet and gets none.
LEMMA PoolWithoutConnection ==
  ASSUME P!IInv, NEW c \in Callers,
         \/ P!Begin(c) \/ P!AcquireClosed(c) \/ P!InsertPlaceholder(c) \/ P!ConnectFails(c)
         \/ P!ConnectedTooLate(c) \/ P!JoinWaiting(c) \/ P!Woken(c) \/ P!WaitCancelled(c)
  PROVE  P!IInv'
<1>0. P!TypeOK /\ P!LeaseInv /\ P!UsersKeepConnection /\ P!NoConnectionLost /\ P!EntryInv
  BY DEF P!IInv
<1> USE PoolBounds DEF P!Goto, P!entry
<1>1. CASE P!Begin(c) \/ P!AcquireClosed(c)
  <2>1. \A e : P!Users(e)' = P!Users(e)
    BY <1>0, <1>1, PoolUsersKept DEF P!Begin, P!AcquireClosed, P!TypeOK
  <2>2. UNCHANGED <<lease, retried, pool, P!entry, done>>
    BY <1>1 DEF P!Begin, P!AcquireClosed
  <2>3. opener[c] \in {"idle", "acquire"} /\ (opener' = [opener EXCEPT ![c] = "acquire"] \/ opener' = [opener EXCEPT ![c] = "failed"])
    BY <1>1 DEF P!Begin, P!AcquireClosed
  <2>4. P!TypeOK' /\ P!LeaseInv'
    BY <1>0, <2>2, <2>3 DEF P!TypeOK, P!LeaseInv
  <2> QED
    BY <2>1, <2>2, <2>4, PoolEntriesKept DEF P!IInv
<1>2. CASE P!InsertPlaceholder(c)
  <2>1. PICK e \in P!Fresh : /\ pool' = e /\ lease' = [lease EXCEPT ![c] = e]
                           /\ opener[c] = "acquire" /\ opener' = [opener EXCEPT ![c] = "connect"]
                           /\ pool = Nobody /\ UNCHANGED <<retried, P!entry, done>>
    BY <1>2 DEF P!InsertPlaceholder
  <2>2. /\ e \in Entries /\ e # pool /\ sftpClient[e] = "none" /\ e \notin ready
        /\ \A d \in Callers : lease[d] # e
    <3>1. e \in Entries /\ e \notin P!Made
      BY DEF P!Fresh, P!Made
    <3> QED
      BY <3>1 DEF P!Made
  <2>3. \A f : P!Users(f)' = P!Users(f)
    BY <1>0, <2>1, PoolUsersKept DEF P!TypeOK
  <2>4. P!TypeOK'
    BY <1>0, <2>1, <2>2 DEF P!TypeOK
  <2>5. P!LeaseInv'
    BY <1>0, <2>1, <2>2 DEF P!TypeOK, P!LeaseInv
  <2>6. P!UsersKeepConnection'
    BY <1>0, <2>1, <2>3 DEF P!UsersKeepConnection
  <2>7. e \notin stale
    BY <1>0, <2>2 DEF P!EntryInv
  <2>8. P!NoConnectionLost' /\ P!EntryInv'
    <3>1. \A f \in Entries : sftpClient[f] = "open" => f \in stale /\ P!Users(f) # {}
      BY <1>0, <2>1 DEF P!NoConnectionLost, P!EntryInv
    <3> QED
      BY <1>0, <2>1, <2>3, <2>7, <3>1 DEF P!NoConnectionLost, P!EntryInv
  <2> QED
    BY <2>4, <2>5, <2>6, <2>8 DEF P!IInv
<1>3. CASE P!ConnectFails(c) \/ P!ConnectedTooLate(c)
  <2> DEFINE e == lease[c]
  <2>1. /\ opener[c] = "connect" /\ opener' = [opener EXCEPT ![c] = "failed"]
        /\ lease' = [lease EXCEPT ![c] = Nobody] /\ ready' = ready \cup {e}
        /\ pool' = pool \/ (pool = e /\ pool' = Nobody)
        /\ UNCHANGED <<retried, sftpClient, refs, stale, idleTimer, firing, done>>
    BY <1>3 DEF P!ConnectFails, P!ConnectedTooLate
  <2>2. e \in Entries /\ sftpClient[e] = "none"
    BY <1>0, <2>1 DEF P!TypeOK, P!LeaseInv
  <2>3. \A f : P!Users(f)' = P!Users(f)
    BY <1>0, <2>1, PoolUsersKept DEF P!TypeOK
  <2>4. P!TypeOK'
    BY <1>0, <2>1, <2>2 DEF P!TypeOK
  <2>5. P!LeaseInv'
    BY <1>0, <2>1, <2>2 DEF P!TypeOK, P!LeaseInv
  <2>6. P!UsersKeepConnection'
    BY <1>0, <2>1, <2>3 DEF P!UsersKeepConnection
  <2>7. Nobody \notin stale
    BY <1>0 DEF P!TypeOK
  <2>8. P!NoConnectionLost' /\ P!EntryInv'
    <3>1. pool' \notin stale'
      BY <1>0, <2>1, <2>7 DEF P!NoConnectionLost
    <3>2. \A f \in Entries : sftpClient[f] = "open" /\ pool = f => pool' = f
      BY <2>1, <2>2
    <3> QED
      BY <1>0, <2>1, <2>3, <3>1, <3>2 DEF P!NoConnectionLost, P!EntryInv
  <2> QED
    BY <2>4, <2>5, <2>6, <2>8 DEF P!IInv
<1>4. CASE P!JoinWaiting(c)
  <2>1. /\ opener[c] = "acquire" /\ opener' = [opener EXCEPT ![c] = "wait"] /\ pool # Nobody
        /\ lease' = [lease EXCEPT ![c] = pool]
        /\ UNCHANGED <<retried, pool, P!entry, done>>
    BY <1>4 DEF P!JoinWaiting
  <2>2. \A e : P!Users(e)' = P!Users(e)
    BY <1>0, <2>1, PoolUsersKept DEF P!TypeOK
  <2>3. P!TypeOK' /\ P!LeaseInv'
    BY <1>0, <2>1 DEF P!TypeOK, P!LeaseInv
  <2> QED
    BY <2>1, <2>2, <2>3, PoolEntriesKept DEF P!IInv
<1>5. CASE P!Woken(c) \/ P!WaitCancelled(c)
  <2>1. /\ opener[c] = "wait" /\ (opener' = [opener EXCEPT ![c] = "acquire"] \/ opener' = [opener EXCEPT ![c] = "failed"])
        /\ lease' = [lease EXCEPT ![c] = Nobody]
        /\ UNCHANGED <<retried, pool, P!entry, done>>
    BY <1>5 DEF P!Woken, P!WaitCancelled
  <2>2. \A e : P!Users(e)' = P!Users(e)
    BY <1>0, <2>1, PoolUsersKept DEF P!TypeOK
  <2>3. P!TypeOK' /\ P!LeaseInv'
    BY <1>0, <2>1 DEF P!TypeOK, P!LeaseInv
  <2> QED
    BY <2>1, <2>2, <2>3, PoolEntriesKept DEF P!IInv
<1> QED
  BY <1>1, <1>2, <1>3, <1>4, <1>5

\* The first user of a connection comes with it.
LEMMA PoolConnectedStep ==
  ASSUME P!IInv, NEW c \in Callers, P!Connected(c)
  PROVE  P!IInv'
<1>0. P!TypeOK /\ P!LeaseInv /\ P!UsersKeepConnection /\ P!NoConnectionLost /\ P!EntryInv
  BY DEF P!IInv
<1> PICK e \in Entries : lease[c] = e
  BY <1>0 DEF P!TypeOK, P!LeaseInv, P!Connected, P!Goto
<1>1. /\ opener[c] = "connect" /\ opener' = [opener EXCEPT ![c] = "open"] /\ pool = e /\ ~done
      /\ sftpClient' = [sftpClient EXCEPT ![e] = "open"] /\ refs' = [refs EXCEPT ![e] = 1]
      /\ ready' = ready \cup {e}
      /\ UNCHANGED <<lease, retried, pool, stale, idleTimer, firing, done>>
  BY DEF P!Connected, P!Goto
<1>2. /\ sftpClient[e] = "none"
      /\ \A d \in Callers \ {c} : lease[d] = e => opener[d] = "wait"
  BY <1>0, <1>1 DEF P!TypeOK, P!LeaseInv
<1>3. P!Users(e) = {}
  BY <1>1, <1>2 DEF P!Users
<1>4. P!Users(e)' = {c} /\ \A f \in Entries \ {e} : P!Users(f)' = P!Users(f)
  BY <1>0, <1>1, <1>2, <1>3, PoolUserJoins DEF P!TypeOK
<1>5. P!Cardinality({c}) = 1 /\ 1 \in 0 .. P!Cardinality(Callers)
  <2>1. P!Cardinality({} \cup {c}) = P!Cardinality({}) + 1 /\ P!Cardinality({}) \in Nat
    BY PoolOneMore
  <2>2. P!Cardinality({}) = 0
    BY PoolCounted
  <2>3. {} \cup {c} = {c} /\ {c} \in SUBSET Callers
    OBVIOUS
  <2> QED
    BY <2>1, <2>2, <2>3, PoolCounted
<1>6. P!TypeOK'
  BY <1>0, <1>1, <1>2, <1>5 DEF P!TypeOK
<1>7. P!LeaseInv'
  <2>1. ASSUME NEW d \in Callers
        PROVE  /\ lease'[d] # Nobody <=> opener'[d] \in {"connect", "wait", "open", "use"}
               /\ opener'[d] = "connect" =>
                    /\ sftpClient'[lease'[d]] = "none"
                    /\ \A x \in Callers : opener'[x] = "connect" /\ lease'[x] = lease'[d] => x = d
               /\ opener'[d] \in {"open", "use"} => sftpClient'[lease'[d]] # "none"
    BY <1>0, <1>1, <1>2 DEF P!TypeOK, P!LeaseInv
  <2> QED
    BY <2>1 DEF P!LeaseInv
<1>8. P!UsersKeepConnection'
  BY <1>0, <1>1, <1>2, <1>4 DEF P!TypeOK, P!UsersKeepConnection
<1>9. P!NoConnectionLost'
  <2>1. refs'[e] = P!Cardinality(P!Users(e)') /\ P!Users(e)' # {}
    BY <1>0, <1>1, <1>2, <1>4, <1>5 DEF P!TypeOK
  <2>2. \A f \in Entries \ {e} : refs'[f] = refs[f] /\ sftpClient'[f] = sftpClient[f]
    BY <1>0, <1>1 DEF P!TypeOK
  <2> QED
    <3>1. \A f \in Entries \ {e} :
            /\ refs'[f] = P!Cardinality(P!Users(f)')
            /\ sftpClient'[f] = "open" /\ P!Users(f)' = {} => pool' = f /\ (f \in idleTimer' \/ firing'[f] > 0)
      BY <1>0, <1>1, <1>4, <2>2 DEF P!NoConnectionLost
    <3>2. pool' \notin stale'
      BY <1>0, <1>1 DEF P!NoConnectionLost
    <3> QED
      BY <2>1, <3>1, <3>2 DEF P!NoConnectionLost
<1>10. P!EntryInv'
  BY <1>0, <1>1, <1>2 DEF P!TypeOK, P!EntryInv
<1> QED
  BY <1>6, <1>7, <1>8, <1>9, <1>10 DEF P!IInv

\* One more user of the pool's connection.
LEMMA PoolShareStep ==
  ASSUME P!IInv, NEW c \in Callers, P!Share(c)
  PROVE  P!IInv'
<1>0. P!TypeOK /\ P!LeaseInv /\ P!UsersKeepConnection /\ P!NoConnectionLost /\ P!EntryInv
  BY DEF P!IInv
<1>1. /\ opener[c] = "acquire" /\ opener' = [opener EXCEPT ![c] = "open"] /\ ~done
      /\ sftpClient[pool] # "none" /\ pool \notin stale /\ pool \in Entries
      /\ idleTimer' = idleTimer \ {pool} /\ refs' = [refs EXCEPT ![pool] = refs[pool] + 1]
      /\ lease' = [lease EXCEPT ![c] = pool]
      /\ UNCHANGED <<retried, pool, sftpClient, ready, stale, firing, done>>
  BY <1>0 DEF P!Share, P!Goto, P!TypeOK
<1>2. sftpClient[pool] = "open"
  BY <1>0, <1>1 DEF P!TypeOK, P!EntryInv
<1>3. /\ P!Users(pool)' = P!Users(pool) \cup {c} /\ c \notin P!Users(pool)
      /\ \A f \in Entries \ {pool} : P!Users(f)' = P!Users(f)
  <2>1. opener'[c] = "open" /\ lease'[c] = pool /\ opener[c] \notin {"open", "use"}
        /\ \A d \in Callers \ {c} : opener'[d] = opener[d] /\ lease'[d] = lease[d]
    BY <1>0, <1>1 DEF P!TypeOK
  <2> QED
    BY <1>1, <2>1 DEF P!Users
<1>4. /\ P!Cardinality(P!Users(pool) \cup {c}) = refs[pool] + 1
      /\ refs[pool] + 1 \in 0 .. P!Cardinality(Callers)
  <2>1. P!Cardinality(P!Users(pool) \cup {c}) = P!Cardinality(P!Users(pool)) + 1
    BY <1>3, PoolUsersAreCallers, PoolOneMore
  <2>2. P!Cardinality(P!Users(pool)) = refs[pool]
    BY <1>0, <1>1 DEF P!NoConnectionLost
  <2>3. P!Cardinality(P!Users(pool) \cup {c}) \in 0 .. P!Cardinality(Callers)
    BY PoolUsersAreCallers, PoolCounted
  <2> QED
    BY <2>1, <2>2, <2>3
<1>5. P!TypeOK'
  BY <1>0, <1>1, <1>4 DEF P!TypeOK
<1>6. P!LeaseInv'
  BY <1>0, <1>1, PoolBounds DEF P!TypeOK, P!LeaseInv
<1>7. P!UsersKeepConnection'
  BY <1>0, <1>1, <1>2, <1>3 DEF P!UsersKeepConnection
<1>8. P!NoConnectionLost'
  BY <1>0, <1>1, <1>3, <1>4 DEF P!TypeOK, P!NoConnectionLost
<1>9. P!EntryInv'
  BY <1>0, <1>1 DEF P!EntryInv
<1> QED
  BY <1>5, <1>6, <1>7, <1>8, <1>9 DEF P!IInv

LEMMA PoolOpenSessionStep ==
  ASSUME P!IInv, NEW c \in Callers, P!OpenSession(c)
  PROVE  P!IInv'
<1>0. P!TypeOK /\ P!LeaseInv
  BY DEF P!IInv
<1>1. /\ opener[c] = "open" /\ opener' = [opener EXCEPT ![c] = "use"]
      /\ UNCHANGED <<lease, retried, pool, sftpClient, ready, refs, stale, idleTimer, firing, done>>
  BY DEF P!OpenSession, P!Goto, P!entry
<1>2. \A e : P!Users(e)' = P!Users(e)
  BY <1>0, <1>1, PoolUsersKept DEF P!TypeOK
<1>3. P!TypeOK' /\ P!LeaseInv'
  BY <1>0, <1>1 DEF P!TypeOK, P!LeaseInv
<1> QED
  BY <1>1, <1>2, <1>3, PoolEntriesKept DEF P!IInv

\* A user leaves; the last one of a stale connection closes it, the last one of
\* another sets its timer.
LEMMA PoolReleaseStep ==
  ASSUME P!IInv, NEW c \in Callers, NEW isStale \in BOOLEAN, opener[c] \in {"open", "use"},
         NEW to \in {"acquire", "failed", "done"}, opener' = [opener EXCEPT ![c] = to],
         P!ReleaseEntry(lease[c], isStale), lease' = [lease EXCEPT ![c] = Nobody],
         retried' \subseteq Callers
  PROVE  P!IInv'
<1>0. P!TypeOK /\ P!LeaseInv /\ P!UsersKeepConnection /\ P!NoConnectionLost /\ P!EntryInv
  BY DEF P!IInv
<1> PICK e \in Entries : lease[c] = e
  BY <1>0 DEF P!TypeOK, P!LeaseInv
<1>1. sftpClient[e] # "none"
  BY <1>0 DEF P!TypeOK, P!LeaseInv
<1>2. /\ P!Users(e)' = P!Users(e) \ {c} /\ c \in P!Users(e)
      /\ \A f \in Entries \ {e} : P!Users(f)' = P!Users(f)
  BY <1>0, PoolUserLeaves DEF P!TypeOK
<1>3. /\ P!Cardinality(P!Users(e)') = refs[e] - 1
      /\ refs[e] - 1 \in 0 .. P!Cardinality(Callers)
      /\ refs[e] - 1 = 0 <=> P!Users(e)' = {}
  <2>1. P!Cardinality(P!Users(e) \ {c}) = P!Cardinality(P!Users(e)) - 1
    BY <1>2, PoolUsersAreCallers, PoolOneLess
  <2>2. P!Cardinality(P!Users(e)) = refs[e]
    BY <1>0, <1>1 DEF P!NoConnectionLost
  <2>3. P!Users(e)' \in SUBSET Callers
    BY <1>2, PoolUsersAreCallers
  <2> QED
    BY <1>2, <2>1, <2>2, <2>3, PoolCounted
<1>4. /\ refs' = [refs EXCEPT ![e] = refs[e] - 1]
      /\ stale' = IF isStale THEN stale \cup {e} ELSE stale
      /\ pool' = IF isStale /\ pool = e THEN Nobody ELSE pool
      /\ sftpClient' = [sftpClient EXCEPT ![e] = IF P!Users(e)' = {} /\ e \in stale' THEN "closed" ELSE sftpClient[e]]
      /\ idleTimer' = IF P!Users(e)' = {} /\ e \notin stale' THEN idleTimer \cup {e} ELSE idleTimer
      /\ UNCHANGED <<ready, firing, done>>
  <2>1. refs' = [refs EXCEPT ![e] = refs[e] - 1]
    BY DEF P!ReleaseEntry
  <2>2. refs'[e] = refs[e] - 1
    BY <1>0, <1>1, <2>1 DEF P!TypeOK
  <2>3. refs'[e] = 0 <=> P!Users(e)' = {}
    BY <1>3, <2>2
  <2> QED
    BY <2>1, <2>3 DEF P!ReleaseEntry
<1>5. P!TypeOK'
  <2>1. refs' \in [Entries -> 0 .. P!Cardinality(Callers)]
    BY <1>0, <1>1, <1>3, <1>4 DEF P!TypeOK
  <2>2. sftpClient' \in [Entries -> {"none", "open", "closed"}]
    BY <1>0, <1>1, <1>4 DEF P!TypeOK
  <2>3. opener' \in [Callers -> {"idle", "acquire", "connect", "wait", "open", "use", "done", "failed"}]
        /\ lease' \in [Callers -> Entries \cup {Nobody}]
    BY <1>0 DEF P!TypeOK
  <2> QED
    BY <1>0, <1>1, <1>4, <2>1, <2>2, <2>3 DEF P!TypeOK
<1>6. P!LeaseInv'
  <2>1. \A f \in Entries : sftpClient'[f] = "none" <=> sftpClient[f] = "none"
    BY <1>0, <1>1, <1>4 DEF P!TypeOK
  <2>2. \A d \in Callers : lease[d] # Nobody => lease[d] \in Entries
    BY <1>0 DEF P!TypeOK
  <2> QED
    BY <1>0, <2>1, <2>2 DEF P!TypeOK, P!LeaseInv
<1>7. P!UsersKeepConnection'
  <2>1. ASSUME NEW f \in Entries, P!Users(f)' # {} PROVE sftpClient'[f] = "open" \/ done
    <3>1. P!Users(f) # {}
      BY <1>2, <2>1
    <3>2. sftpClient'[f] = sftpClient[f]
      <4>1. CASE f = e
        BY <1>0, <1>4, <2>1, <4>1 DEF P!TypeOK
      <4>2. CASE f # e
        BY <1>0, <1>4, <4>2 DEF P!TypeOK
      <4> QED
        BY <4>1, <4>2
    <3> QED
      BY <1>0, <3>1, <3>2 DEF P!UsersKeepConnection
  <2> QED
    BY <1>4, <2>1 DEF P!UsersKeepConnection
<1>8. Nobody \notin stale'
  BY <1>0, <1>1, <1>4, PoolBounds DEF P!TypeOK
<1>9. pool' \notin stale'
  BY <1>0, <1>4, <1>8 DEF P!NoConnectionLost
<1>10. P!EntryInv'
  <2>1. ASSUME NEW f \in Entries
        PROVE  /\ sftpClient'[f] = "closed" => f \in stale'
               /\ f \in stale' => sftpClient'[f] # "none" \/ f \in ready'
               /\ sftpClient'[f] = "open" /\ f \notin stale' => pool' = f
               /\ f \in idleTimer' \/ firing'[f] > 0 => sftpClient'[f] # "none"
    <3>1. CASE f = e
      BY <1>0, <1>1, <1>4, <3>1 DEF P!TypeOK, P!EntryInv
    <3>2. CASE f # e
      BY <1>0, <1>1, <1>4, <3>2 DEF P!TypeOK, P!EntryInv
    <3> QED
      BY <3>1, <3>2
  <2> QED
    BY <2>1 DEF P!EntryInv
<1>11. P!NoConnectionLost'
  <2>1. ASSUME NEW f \in Entries
        PROVE  /\ refs'[f] = P!Cardinality(P!Users(f)')
               /\ sftpClient'[f] = "open" /\ P!Users(f)' = {} => pool' = f /\ (f \in idleTimer' \/ firing'[f] > 0)
    <3>1. CASE f = e
      <4>1. refs'[e] = P!Cardinality(P!Users(e)')
        BY <1>0, <1>1, <1>3, <1>4 DEF P!TypeOK
      <4>2. sftpClient'[e] = "open" /\ P!Users(e)' = {} => e \notin stale' /\ e \in idleTimer'
        BY <1>0, <1>1, <1>4 DEF P!TypeOK
      <4> QED
        <5>1. sftpClient'[e] = "open" /\ e \notin stale' => pool' = e
          BY <1>1, <1>10 DEF P!EntryInv
        <5> QED
          BY <3>1, <4>1, <4>2, <5>1
    <3>2. CASE f # e
      BY <1>0, <1>1, <1>2, <1>4, <3>2 DEF P!TypeOK, P!NoConnectionLost
    <3> QED
      BY <3>1, <3>2
  <2> QED
    BY <1>9, <2>1 DEF P!NoConnectionLost
<1> QED
  BY <1>5, <1>6, <1>7, <1>10, <1>11 DEF P!IInv

\* The idle timer: only what nobody uses is closed.
LEMMA PoolTimerStep ==
  ASSUME P!IInv, NEW e \in Entries, P!TimerFires(e) \/ P!Expire(e)
  PROVE  P!IInv'
<1>0. P!TypeOK /\ P!LeaseInv /\ P!UsersKeepConnection /\ P!NoConnectionLost /\ P!EntryInv
  BY DEF P!IInv
<1>1. \A f : P!Users(f)' = P!Users(f)
  BY DEF P!TimerFires, P!Expire, P!Users
<1>2. CASE P!TimerFires(e)
  BY <1>0, <1>1, <1>2
     DEF P!IInv, P!TimerFires, P!TypeOK, P!LeaseInv, P!UsersKeepConnection, P!NoConnectionLost, P!EntryInv
<1>3. CASE P!Expire(e)
  <2>1. /\ firing' = [firing EXCEPT ![e] = firing[e] - 1] /\ firing[e] \in 1 .. 2
        /\ idleTimer' = idleTimer \ {e}
        /\ UNCHANGED <<opener, lease, retried, ready, refs, done>>
    BY <1>0, <1>3 DEF P!Expire, P!TypeOK
  <2>2. refs[e] = 0 <=> P!Users(e) = {}
    BY <1>0, PoolUsersAreCallers, PoolCounted DEF P!NoConnectionLost
  <2>3. CASE refs[e] = 0 /\ pool = e
    <3>1. pool' = Nobody /\ stale' = stale \cup {e} /\ sftpClient' = [sftpClient EXCEPT ![e] = "closed"]
      BY <1>3, <2>3 DEF P!Expire
    <3>2. sftpClient[e] # "none" /\ e \notin {Nobody}
      BY <1>0, <2>1, PoolBounds DEF P!EntryInv
    <3>3. P!TypeOK'
      BY <1>0, <2>1, <3>1 DEF P!TypeOK
    <3>4. P!LeaseInv'
      BY <1>0, <2>1, <3>1, <3>2 DEF P!TypeOK, P!LeaseInv
    <3>5. P!UsersKeepConnection'
      BY <1>0, <1>1, <2>1, <2>2, <2>3, <3>1 DEF P!TypeOK, P!UsersKeepConnection
    <3>6. P!EntryInv'
      BY <1>0, <2>1, <2>3, <3>1, <3>2 DEF P!TypeOK, P!EntryInv
    <3>7. pool' \notin stale'
      BY <1>0, <3>1, PoolBounds DEF P!TypeOK
    <3>8. \A f \in Entries :
            /\ refs'[f] = P!Cardinality(P!Users(f)')
            /\ sftpClient'[f] = "open" /\ P!Users(f)' = {} => pool' = f /\ (f \in idleTimer' \/ firing'[f] > 0)
      BY <1>0, <1>1, <2>1, <2>3, <3>1, <3>2 DEF P!TypeOK, P!NoConnectionLost
    <3>9. P!NoConnectionLost'
      BY <3>7, <3>8 DEF P!NoConnectionLost
    <3> QED
      BY <3>3, <3>4, <3>5, <3>6, <3>9 DEF P!IInv
  <2>4. CASE ~ (refs[e] = 0 /\ pool = e)
    <3>1. UNCHANGED <<pool, stale, sftpClient>>
      BY <1>3, <2>4 DEF P!Expire
    <3>2. P!TypeOK' /\ P!LeaseInv' /\ P!UsersKeepConnection' /\ P!EntryInv'
      BY <1>0, <1>1, <2>1, <3>1 DEF P!TypeOK, P!LeaseInv, P!UsersKeepConnection, P!EntryInv
    <3>3. P!NoConnectionLost'
      BY <1>0, <1>1, <2>1, <2>2, <2>4, <3>1 DEF P!TypeOK, P!NoConnectionLost
    <3> QED
      BY <3>2, <3>3 DEF P!IInv
  <2> QED
    BY <2>3, <2>4
<1> QED
  BY <1>2, <1>3

\* Close of the transport: the pool's connection is closed and its waiters are told.
LEMMA PoolCloseStep ==
  ASSUME P!IInv, P!CloseTransport
  PROVE  P!IInv'
<1>0. P!TypeOK /\ P!LeaseInv /\ P!UsersKeepConnection /\ P!NoConnectionLost /\ P!EntryInv
  BY DEF P!IInv
<1>1. /\ done' = TRUE /\ pool' = Nobody /\ UNCHANGED <<opener, lease, retried, refs, firing>>
      /\ Nobody \notin Entries
  BY PoolBounds DEF P!CloseTransport, P!entry
<1>2. \A f : P!Users(f)' = P!Users(f)
  BY <1>1 DEF P!Users
<1>3. P!UsersKeepConnection'
  BY <1>1 DEF P!UsersKeepConnection
<1>4. CASE pool = Nobody
  <2>1. UNCHANGED P!entry
    BY <1>4 DEF P!CloseTransport
  <2> QED
    BY <1>0, <1>1, <1>2, <1>3, <1>4, <2>1
       DEF P!IInv, P!entry, P!TypeOK, P!LeaseInv, P!NoConnectionLost, P!EntryInv
<1>5. CASE pool # Nobody
  <2>1. /\ pool \in Entries /\ stale' = stale \cup {pool} /\ idleTimer' = idleTimer \ {pool}
        /\ sftpClient' = [sftpClient EXCEPT ![pool] = IF sftpClient[pool] = "none" THEN "none" ELSE "closed"]
        /\ ready' = ready \cup {pool}
    BY <1>0, <1>5 DEF P!CloseTransport, P!TypeOK
  <2>2. P!TypeOK'
    BY <1>0, <1>1, <2>1 DEF P!TypeOK
  <2>3. \A f \in Entries : sftpClient'[f] = "none" <=> sftpClient[f] = "none"
    BY <1>0, <2>1 DEF P!TypeOK
  <2>4. P!LeaseInv'
    BY <1>0, <1>1, <2>3 DEF P!TypeOK, P!LeaseInv
  <2>5. P!EntryInv'
    BY <1>0, <1>1, <2>1 DEF P!TypeOK, P!EntryInv
  <2>6. P!NoConnectionLost'
    <3>1. pool' \notin stale'
      BY <1>0, <1>1, <2>1 DEF P!TypeOK
    <3>2. \A f \in Entries : sftpClient'[f] = "open" => sftpClient[f] = "open" /\ f # pool
      BY <1>0, <2>1 DEF P!TypeOK
    <3> QED
      BY <1>0, <1>1, <1>2, <3>1, <3>2 DEF P!NoConnectionLost
  <2> QED
    BY <1>3, <2>2, <2>4, <2>5, <2>6 DEF P!IInv
<1> QED
  BY <1>4, <1>5

LEMMA PoolStepPreserves == ASSUME P!IInv, P!Next \/ UNCHANGED poolVars PROVE P!IInv'
<1>1. CASE UNCHANGED poolVars
  <2>1. \A e : P!Users(e)' = P!Users(e)
    BY <1>1 DEF poolVars, P!Users
  <2> QED
    BY <1>1, <2>1 DEF poolVars, P!IInv, P!TypeOK, P!LeaseInv, P!UsersKeepConnection, P!NoConnectionLost, P!EntryInv
<1>2. ASSUME NEW c \in Callers, P!Begin(c) \/ P!Step(c) \/ P!WaitCancelled(c) PROVE P!IInv'
  <2>1. CASE P!OpenFails(c)
    <3>1. PICK to \in {"acquire", "failed"} : opener[c] = "open" /\ opener' = [opener EXCEPT ![c] = to]
      BY <2>1 DEF P!OpenFails, P!Goto
    <3>2. /\ P!ReleaseEntry(lease[c], TRUE) /\ lease' = [lease EXCEPT ![c] = Nobody]
          /\ retried' \subseteq Callers
      BY <2>1 DEF P!OpenFails, P!IInv, P!TypeOK
    <3> QED
      BY <3>1, <3>2, PoolReleaseStep
  <2>2. CASE P!CloseLease(c)
    <3>1. opener[c] = "use" /\ opener' = [opener EXCEPT ![c] = "done"]
      BY <2>2 DEF P!CloseLease, P!Goto
    <3>2. /\ P!ReleaseEntry(lease[c], FALSE) /\ lease' = [lease EXCEPT ![c] = Nobody]
          /\ retried' \subseteq Callers
      BY <2>2 DEF P!CloseLease, P!IInv, P!TypeOK
    <3> QED
      BY <3>1, <3>2, PoolReleaseStep
  <2> QED
    BY <1>2, <2>1, <2>2, PoolWithoutConnection, PoolConnectedStep, PoolShareStep, PoolOpenSessionStep DEF P!Step
<1> QED
  BY <1>1, <1>2, PoolTimerStep, PoolCloseStep DEF P!Next

LEMMA PoolInitially == P!Init => P!IInv
<1> SUFFICES ASSUME P!Init PROVE P!IInv
  OBVIOUS
<1>1. \A e : P!Users(e) = {}
  BY DEF P!Init, P!Users
<1>2. P!Cardinality({}) = 0 /\ 0 \in 0 .. P!Cardinality(Callers)
  BY PoolCounted
<1>3. P!TypeOK
  <2>1. refs \in [Entries -> 0 .. P!Cardinality(Callers)] /\ firing \in [Entries -> 0 .. 2]
    BY <1>2 DEF P!Init
  <2> QED
    BY <2>1 DEF P!Init, P!TypeOK
<1>4. P!LeaseInv /\ P!EntryInv
  BY DEF P!Init, P!LeaseInv, P!EntryInv
<1>5. P!UsersKeepConnection /\ P!NoConnectionLost
  BY <1>1, <1>2 DEF P!Init, P!UsersKeepConnection, P!NoConnectionLost
<1> QED
  BY <1>3, <1>4, <1>5 DEF P!IInv

\* Leases, entries and the count of the users agree in every state of the pool.
THEOREM PoolInvariance == Spec => []P!IInv
<1>1. Init => P!IInv
  BY PoolInitially DEF Init
<1>2. ASSUME Next \/ UNCHANGED vars PROVE P!Next \/ UNCHANGED poolVars
  BY <1>2 DEF Next, vars, MoveTunnels, MovePool, MoveShells, MoveJournal, MoveSSH
<1>3. P!IInv /\ [Next]_vars => P!IInv'
  BY <1>2, PoolStepPreserves
<1> QED
  BY <1>1, <1>3, PTL DEF Spec

-----------------------------------------------------------------------------
(* SSH calls *)

\* strictHostKeyCallback changes the call's phase and what it read.
LEMMA SshKnownHostsRead ==
  ASSUME N!TypeOK, NEW ok \in BOOLEAN, N!LoadKnownHosts(ok), ~N!Fails
  PROVE  /\ call.phase = "verify" /\ call'.phase = "auth" /\ call'.file = known
         /\ call'.kind = call.kind /\ call'.expected = call.expected
         /\ call'.hop = call.hop /\ call'.live = call.live
         /\ known \subseteq N!Hops \X Keys
         /\ N!TypeOK'
         /\ UNCHANGED <<open, dialer, servers, keepalive, accepted, keyOf, known, scanned, confirmed,
                       calls, changes>>
<1>1. /\ call.phase = "verify" /\ call' = [call EXCEPT !.phase = "auth", !.file = known]
      /\ UNCHANGED <<open, dialer, servers, keepalive, accepted, keyOf, known, scanned, confirmed,
                    calls, changes>>
  BY DEF N!LoadKnownHosts
<1>2. known \subseteq N!Hops \X Keys
  BY DEF N!TypeOK
<1>3. /\ call'.phase = "auth" /\ call'.file = known
      /\ call'.kind = call.kind /\ call'.expected = call.expected
      /\ call'.hop = call.hop /\ call'.live = call.live
  BY <1>1 DEF N!TypeOK
<1>4. call' \in [kind : N!Kinds \cup {"none"}, expected : Keys \cup {N!NoKey}, phase : N!Phases,
                 hop : 0..Target, live : BOOLEAN, file : SUBSET (N!Hops \X Keys)]
  BY <1>1, <1>2 DEF N!TypeOK, N!Phases
<1>5. N!TypeOK'
  BY <1>1, <1>4 DEF N!TypeOK
<1> QED
  BY <1>1, <1>2, <1>3, <1>5

\* StartSession changes the call's phase and may add the session; one that is added
\* belongs to a call that runs.
LEMMA SshSessionStarted ==
  ASSUME N!TypeOK, NEW ok \in BOOLEAN, N!StartSession(ok)
  PROVE  /\ call.phase = "connected"
         /\ call'.phase \in {"running", "closing_sftp", "closing"}
         /\ call'.kind = call.kind /\ call'.expected = call.expected
         /\ call'.hop = call.hop /\ call'.live = call.live /\ call'.file = call.file
         /\ open' \in {open, open \cup {<<"session", Target>>}}
         /\ N!TypeOK'
         /\ UNCHANGED <<dialer, servers, keepalive, accepted, keyOf, known, scanned, confirmed,
                        calls, changes>>
<1>1. /\ call.phase = "connected"
      /\ open' \in {open, open \cup {<<"session", Target>>}}
      /\ \E p \in {"running", "closing_sftp", "closing"} : call' = [call EXCEPT !.phase = p]
      /\ UNCHANGED <<dialer, servers, keepalive, accepted, keyOf, known, scanned, confirmed,
                     calls, changes>>
  <2>1. N!ClosingOf(call.kind) \in {"closing_sftp", "closing"}
    BY DEF N!ClosingOf
  <2>2. CASE ok
    BY <2>2 DEF N!StartSession
  <2>3. CASE ~ok
    BY <2>1, <2>3 DEF N!StartSession
  <2> QED
    BY <2>2, <2>3
<1>2. PICK p \in {"running", "closing_sftp", "closing"} : call' = [call EXCEPT !.phase = p]
  BY <1>1
<1>3. /\ call'.phase = p /\ call'.kind = call.kind /\ call'.expected = call.expected
      /\ call'.hop = call.hop /\ call'.live = call.live /\ call'.file = call.file
  BY <1>2 DEF N!TypeOK
<1>4. call' \in [kind : N!Kinds \cup {"none"}, expected : Keys \cup {N!NoKey}, phase : N!Phases,
                 hop : 0..Target, live : BOOLEAN, file : SUBSET (N!Hops \X Keys)]
  BY <1>2 DEF N!TypeOK, N!Phases
<1>5. open' \subseteq {"raw", "client", "agent"} \X N!Hops \cup {<<"session", Target>>}
  BY <1>1 DEF N!TypeOK
<1>6. N!TypeOK'
  BY <1>1, <1>4, <1>5 DEF N!TypeOK
<1> QED
  BY <1>1, <1>2, <1>3, <1>6

\* Every step leaves every variable well typed.
LEMMA SshTypingStep == ASSUME N!TypeOK, N!CallInv, N!DialInv, N!Next \/ UNCHANGED sshVars PROVE N!TypeOK'
<1> USE HopBounds DEF N!TypeOK, N!Hops, N!Kinds, N!Phases, N!Idle, N!NoKey, N!NoDialer
<1>0. CASE UNCHANGED sshVars
  BY <1>0 DEF sshVars
<1>1. CASE N!ContextEnds
  BY <1>1 DEF N!ContextEnds
<1>2. CASE N!ServersStop
  BY ZenonT(60), <1>2 DEF N!ServersStop
<1>3. CASE N!StartDial
  BY <1>3 DEF N!StartDial
<1>4. CASE N!DialTaken
  <2>1. CASE N!Fails
    BY <1>4, <2>1 DEF N!DialTaken, N!Fails
  <2>2. CASE ~N!Fails
    <3>1. call' = [call EXCEPT !.phase = "verify"] /\ UNCHANGED <<open, accepted>>
      BY <1>4, <2>2 DEF N!DialTaken
    <3>2. dialer' \in [state : {"none", "dialing", "connected", "failed"},
                        hop : 0..Target, abandoned : BOOLEAN]
      BY <1>4 DEF N!DialTaken
    <3> QED
      BY <1>4, <3>1, <3>2 DEF N!DialTaken
  <2> QED
    BY <2>1, <2>2
<1>5. CASE N!DialCancelled
  BY <1>5 DEF N!DialCancelled
<1>6. CASE N!DialLate
  BY <1>6 DEF N!DialLate
<1>7. CASE N!DialAbandoned
  <2>1. dialer' \in [state : {"none", "dialing", "connected", "failed"},
                      hop : 0..Target, abandoned : BOOLEAN]
    BY <1>7 DEF N!DialAbandoned
  <2>2. open' \subseteq open
    BY <1>7 DEF N!DialAbandoned
  <2>3. call' = N!Idle /\ accepted' \in [N!Hops -> Keys \cup {N!NoKey}]
    BY <1>7 DEF N!DialAbandoned
  <2> QED
    BY <1>7, <2>1, <2>2, <2>3 DEF N!DialAbandoned
<1>8. CASE N!AbandonedDialEnds
  BY <1>8 DEF N!AbandonedDialEnds
<1>9. CASE N!Handshake
  <2>1. call.hop \in N!Hops /\ call.phase = "handshake"
    BY <1>9 DEF N!Handshake, N!CallInv, N!Connecting
  <2>2. open' \subseteq open \cup {<<"client", call.hop>>} /\ accepted' \in [N!Hops -> Keys \cup {N!NoKey}]
    BY <1>9, <2>1 DEF N!Handshake
  <2>3. CASE N!AtTarget
    <3>1. /\ call' = [call EXCEPT !.phase = "connected"] /\ keepalive' = N!Hops
          /\ UNCHANGED <<dialer, servers, keyOf, known, scanned, confirmed, calls, changes>>
      BY <1>9, <2>3 DEF N!Handshake
    <3>2. call' \in [kind : N!Kinds \cup {"none"}, expected : Keys \cup {N!NoKey}, phase : N!Phases,
                     hop : 0..Target, live : BOOLEAN, file : SUBSET (N!Hops \X Keys)]
      BY <3>1
    <3>3. open' \subseteq {"raw", "client", "agent"} \X N!Hops \cup {<<"session", Target>>}
      BY <2>1, <2>2
    <3> QED
      BY <2>2, <3>1, <3>2, <3>3
  <2>4. CASE ~N!AtTarget
    <3>1. call.hop + 1 \in 0..Target
      BY <2>1, <2>4 DEF N!AtTarget
    <3>2. call' = [call EXCEPT !.phase = "dial", !.hop = call.hop + 1] /\ UNCHANGED keepalive
      BY <1>9, <2>4 DEF N!Handshake
    <3>3. call' \in [kind : N!Kinds \cup {"none"}, expected : Keys \cup {N!NoKey}, phase : N!Phases,
                     hop : 0..Target, live : BOOLEAN, file : SUBSET (N!Hops \X Keys)]
      BY <3>1, <3>2
    <3> QED
      BY <1>9, <2>1, <2>2, <3>2, <3>3 DEF N!Handshake
  <2> QED
    BY <2>3, <2>4
<1>10. CASE N!HandshakeFails
  BY <1>10 DEF N!HandshakeFails, N!Fails, N!AtTarget, N!CapturesKey, N!Scanning
<1>11. CASE N!KeyCaptured
  BY <1>11 DEF N!KeyCaptured, N!Fails, N!AtTarget, N!CapturesKey, N!Scanning, N!Expected
<1>12. CASE N!CaptureFails
  BY <1>12 DEF N!CaptureFails, N!Fails, N!AtTarget, N!CapturesKey, N!Scanning
<1>13. CASE N!SessionEnds
  BY <1>13 DEF N!SessionEnds, N!ClosingOf
<1>14. CASE N!SessionCancelled
  BY <1>14 DEF N!SessionCancelled, N!ClosingOf
<1>15. CASE N!Close
  BY <1>15 DEF N!Close
<1>16. CASE \E kind \in N!Kinds, key \in Keys \cup {N!NoKey} : N!Begin(kind, key)
  BY <1>16 DEF N!Begin
<1>17. CASE \E key \in Keys : N!Confirm(key)
  BY <1>17 DEF N!Confirm
<1>18. CASE \E h \in N!Hops, key \in Keys : N!ServerChangesKey(h, key)
  BY SMTT(30), <1>18 DEF N!ServerChangesKey
<1>19. CASE \E ok \in BOOLEAN : N!DialFirst(ok)
  <2>1. CASE N!Fails
    BY <1>19, <2>1 DEF N!DialFirst, N!Fails
  <2>2. CASE ~N!Fails
    <3>1. /\ call' = [call EXCEPT !.phase = "verify"] /\ UNCHANGED accepted
          /\ open' = open \cup {<<"raw", 1>>}
      BY <1>19, <2>2 DEF N!DialFirst
    <3>2. 1 \in N!Hops
      OBVIOUS
    <3> QED
      <4>1. UNCHANGED <<dialer, servers, keepalive, keyOf, known, scanned, confirmed, calls, changes>>
        BY <1>19 DEF N!DialFirst
      <4>2. call' \in [kind : N!Kinds \cup {"none"}, expected : Keys \cup {N!NoKey}, phase : N!Phases,
                       hop : 0..Target, live : BOOLEAN, file : SUBSET (N!Hops \X Keys)]
        BY <3>1
      <4>3. open' \subseteq {"raw", "client", "agent"} \X N!Hops \cup {<<"session", Target>>}
        BY <3>1, <3>2
      <4> QED
        BY <3>1, <4>1, <4>2, <4>3
  <2> QED
    BY <2>1, <2>2
<1>20. CASE \E ok \in BOOLEAN : N!DialEnds(ok)
  <2>1. dialer.hop \in N!Hops
    BY <1>20 DEF N!DialEnds, N!DialInv
  <2>2. dialer' = [dialer EXCEPT !.state = "connected"] \/ dialer' = [dialer EXCEPT !.state = "failed"]
    BY <1>20 DEF N!DialEnds
  <2>3. open' \subseteq open \cup {<<"raw", dialer.hop>>}
    BY <1>20 DEF N!DialEnds
  <2>4. UNCHANGED <<call, servers, keepalive, accepted, keyOf, known, scanned, confirmed, calls,
                    changes>>
    BY <1>20 DEF N!DialEnds
  <2>5. dialer' \in [state : {"none", "dialing", "connected", "failed"},
                      hop : 0..Target, abandoned : BOOLEAN]
    BY <2>2
  <2>6. open' \subseteq {"raw", "client", "agent"} \X N!Hops \cup {<<"session", Target>>}
    BY <2>1, <2>3
  <2> QED
    BY <2>4, <2>5, <2>6
<1>21. ASSUME NEW ok \in BOOLEAN, N!LoadKnownHosts(ok) PROVE N!TypeOK'
  <2>1. CASE N!Fails
    BY <1>21, <2>1 DEF N!LoadKnownHosts, N!Fails
  <2>2. CASE ~N!Fails
    BY <1>21, <2>2, SshKnownHostsRead
  <2> QED
    BY <2>1, <2>2
<1>22. CASE \E ok, withAgent \in BOOLEAN : N!PrepareAuthentication(ok, withAgent)
  <2>1. CASE N!Fails
    BY <1>22, <2>1 DEF N!PrepareAuthentication, N!Fails
  <2>2. CASE ~N!Fails
    <3>1. call.hop \in N!Hops
      BY <1>22 DEF N!PrepareAuthentication, N!CallInv, N!Connecting
    <3>2. /\ open' \subseteq open \cup {<<"agent", call.hop>>}
          /\ call' = [call EXCEPT !.phase = "handshake"] /\ UNCHANGED accepted
      BY <1>22, <2>2 DEF N!PrepareAuthentication
    <3> QED
      <4>1. UNCHANGED <<dialer, servers, keepalive, keyOf, known, scanned, confirmed, calls, changes>>
        BY <1>22 DEF N!PrepareAuthentication
      <4>2. call' \in [kind : N!Kinds \cup {"none"}, expected : Keys \cup {N!NoKey}, phase : N!Phases,
                       hop : 0..Target, live : BOOLEAN, file : SUBSET (N!Hops \X Keys)]
        BY <3>2
      <4>3. open' \subseteq {"raw", "client", "agent"} \X N!Hops \cup {<<"session", Target>>}
        BY <3>1, <3>2
      <4> QED
        BY <3>2, <4>1, <4>2, <4>3
  <2> QED
    BY <2>1, <2>2
<1>23. ASSUME NEW ok \in BOOLEAN, N!StartSession(ok) PROVE N!TypeOK'
  BY <1>23, SshSessionStarted
<1>24. CASE \E h \in N!Hops : N!KeepaliveCloses(h)
  BY <1>24 DEF N!KeepaliveCloses
<1>25. CASE N!ServersStall
  BY <1>25 DEF N!ServersStall
<1>26. CASE N!CloseSFTP
  BY <1>26 DEF N!CloseSFTP
<1> QED
  BY <1>0, <1>1, <1>2, <1>3, <1>4, <1>5, <1>6, <1>7, <1>8, <1>9, <1>10, <1>11, <1>12, <1>13, <1>14, <1>15, <1>16, <1>17, <1>18, <1>19, <1>20, <1>21, <1>22, <1>23, <1>24, <1>25, <1>26 DEF N!Next

\* What a call trusts, and what known_hosts holds, stays confirmed.
LEMMA SshTrustStep == ASSUME N!TypeOK, N!TrustInv, known \subseteq confirmed, N!Next \/ UNCHANGED sshVars PROVE N!TrustInv' /\ (known \subseteq confirmed)'
<1> USE DEF N!TypeOK, N!TrustInv, N!Hops, N!Kinds, N!Idle, N!NoKey
<1>0. CASE UNCHANGED sshVars
  BY <1>0 DEF sshVars
<1>1. CASE N!ContextEnds
  BY <1>1 DEF N!ContextEnds
<1>2. CASE N!ServersStop
  BY <1>2 DEF N!ServersStop
<1>3. CASE N!StartDial
  BY <1>3 DEF N!StartDial
<1>4. CASE N!DialTaken
  BY <1>4 DEF N!DialTaken, N!Fails
<1>5. CASE N!DialCancelled
  BY <1>5 DEF N!DialCancelled
<1>6. CASE N!DialLate
  BY <1>6 DEF N!DialLate
<1>7. CASE N!DialAbandoned
  BY <1>7 DEF N!DialAbandoned
<1>8. CASE N!AbandonedDialEnds
  BY <1>8 DEF N!AbandonedDialEnds
<1>9. CASE N!Handshake
  <2>1. call'.kind = call.kind /\ call'.expected = call.expected /\ call'.file = call.file
    <3>1. \/ call' = [call EXCEPT !.phase = "connected"]
          \/ call' = [call EXCEPT !.phase = "dial", !.hop = call.hop + 1]
      BY <1>9 DEF N!Handshake
    <3> QED
      BY <3>1
  <2> QED
    BY <1>9, <2>1 DEF N!Handshake
<1>10. CASE N!HandshakeFails
  BY <1>10 DEF N!HandshakeFails, N!Fails, N!AtTarget, N!CapturesKey, N!Scanning
<1>11. CASE N!KeyCaptured
  BY <1>11 DEF N!KeyCaptured, N!Fails, N!AtTarget, N!CapturesKey, N!Scanning, N!Expected
<1>12. CASE N!CaptureFails
  BY <1>12 DEF N!CaptureFails, N!Fails, N!AtTarget, N!CapturesKey, N!Scanning
<1>13. CASE N!SessionEnds
  BY <1>13 DEF N!SessionEnds, N!ClosingOf
<1>14. CASE N!SessionCancelled
  BY <1>14 DEF N!SessionCancelled, N!ClosingOf
<1>15. CASE N!Close
  BY <1>15 DEF N!Close
<1>16. CASE \E kind \in N!Kinds, key \in Keys \cup {N!NoKey} : N!Begin(kind, key)
  BY <1>16 DEF N!Begin
<1>17. CASE \E key \in Keys : N!Confirm(key)
  BY <1>17 DEF N!Confirm
<1>18. CASE \E h \in N!Hops, key \in Keys : N!ServerChangesKey(h, key)
  BY SMTT(30), <1>18 DEF N!ServerChangesKey
<1>19. CASE \E ok \in BOOLEAN : N!DialFirst(ok)
  <2>1. \/ call' = [call EXCEPT !.phase = "verify"] /\ UNCHANGED accepted
        \/ call' = N!Idle
    BY <1>19 DEF N!DialFirst, N!Fails
  <2>2. UNCHANGED <<known, scanned, confirmed>>
    BY <1>19 DEF N!DialFirst
  <2>3. \/ call'.file = call.file /\ call'.kind = call.kind /\ call'.expected = call.expected
        \/ call'.file = {} /\ call'.kind = "none"
    BY <2>1
  <2> QED
    BY <2>2, <2>3
<1>20. CASE \E ok \in BOOLEAN : N!DialEnds(ok)
  BY <1>20 DEF N!DialEnds
<1>21. ASSUME NEW ok \in BOOLEAN, N!LoadKnownHosts(ok) PROVE N!TrustInv' /\ (known \subseteq confirmed)'
  <2>1. CASE N!Fails
    BY <1>21, <2>1 DEF N!LoadKnownHosts, N!Fails
  <2>2. CASE ~N!Fails
    <3>1. /\ call'.file = known /\ call'.kind = call.kind /\ call'.expected = call.expected
          /\ UNCHANGED <<known, confirmed>>
      BY <1>21, <2>2, SshKnownHostsRead
    <3> QED
      BY <3>1
  <2> QED
    BY <2>1, <2>2
<1>22. CASE \E ok, withAgent \in BOOLEAN : N!PrepareAuthentication(ok, withAgent)
  <2>1. \/ call' = [call EXCEPT !.phase = "handshake"] /\ UNCHANGED accepted
        \/ call' = N!Idle
    BY <1>22 DEF N!PrepareAuthentication, N!Fails
  <2>2. UNCHANGED <<known, scanned, confirmed>>
    BY <1>22 DEF N!PrepareAuthentication
  <2>3. \/ call'.file = call.file /\ call'.kind = call.kind /\ call'.expected = call.expected
        \/ call'.file = {} /\ call'.kind = "none"
    BY <2>1
  <2> QED
    BY <2>2, <2>3
<1>23. ASSUME NEW ok \in BOOLEAN, N!StartSession(ok) PROVE N!TrustInv' /\ (known \subseteq confirmed)'
  BY <1>23, SshSessionStarted
<1>24. CASE \E h \in N!Hops : N!KeepaliveCloses(h)
  BY <1>24 DEF N!KeepaliveCloses
<1>25. CASE N!ServersStall
  BY <1>25 DEF N!ServersStall
<1>26. CASE N!CloseSFTP
  BY <1>26 DEF N!CloseSFTP
<1> QED
  BY <1>0, <1>1, <1>2, <1>3, <1>4, <1>5, <1>6, <1>7, <1>8, <1>9, <1>10, <1>11, <1>12, <1>13, <1>14, <1>15, <1>16, <1>17, <1>18, <1>19, <1>20, <1>21, <1>22, <1>23, <1>24, <1>25, <1>26 DEF N!Next

\* The call goes from hop to hop.
LEMMA SshCallStep == ASSUME N!TypeOK, N!CallInv, N!DialInv, N!Next \/ UNCHANGED sshVars PROVE N!CallInv'
<1> USE HopBounds DEF N!TypeOK, N!CallInv, N!DialInv, N!Connecting, N!Connected, N!Hops, N!Idle, N!NoKey
<1>0. CASE UNCHANGED sshVars
  BY <1>0 DEF sshVars
<1>1. CASE N!ContextEnds
  BY <1>1 DEF N!ContextEnds
<1>2. CASE N!ServersStop
  BY <1>2 DEF N!ServersStop
<1>3. CASE N!StartDial
  BY <1>3 DEF N!StartDial
<1>4. CASE N!DialTaken
  BY <1>4 DEF N!DialTaken, N!Fails
<1>5. CASE N!DialCancelled
  BY <1>5 DEF N!DialCancelled
<1>6. CASE N!DialLate
  BY <1>6 DEF N!DialLate
<1>7. CASE N!DialAbandoned
  BY <1>7 DEF N!DialAbandoned
<1>8. CASE N!AbandonedDialEnds
  BY <1>8 DEF N!AbandonedDialEnds
<1>9. CASE N!Handshake
  <2>1. /\ call.hop \in N!Hops /\ keyOf[call.hop] # N!NoKey
        /\ accepted' = [accepted EXCEPT ![call.hop] = keyOf[call.hop]]
        /\ <<"session", Target>> \notin open'
        /\ \A h \in 1..call.hop : accepted'[h] # N!NoKey
    BY <1>9 DEF N!Handshake
  <2>2. CASE N!AtTarget
    <3>1. call'.phase = "connected" /\ call.hop = Target
      BY <1>9, <2>2 DEF N!Handshake, N!AtTarget
    <3> QED
      BY <2>1, <3>1
  <2>3. CASE ~N!AtTarget
    <3>1. call'.phase = "dial" /\ call'.hop = call.hop + 1 /\ call.hop < Target
      <4>1. call' = [call EXCEPT !.phase = "dial", !.hop = call.hop + 1] /\ call.hop # Target
        BY <1>9, <2>3 DEF N!Handshake, N!AtTarget
      <4> QED
        BY <2>1, <4>1
    <3>2. keepalive' = {}
      BY <1>9, <2>3 DEF N!Handshake
    <3> QED
      BY <2>1, <3>1, <3>2
  <2> QED
    BY <2>2, <2>3
<1>10. CASE N!HandshakeFails
  BY <1>10 DEF N!HandshakeFails, N!Fails, N!AtTarget, N!CapturesKey, N!Scanning
<1>11. CASE N!KeyCaptured
  BY <1>11 DEF N!KeyCaptured, N!Fails, N!AtTarget, N!CapturesKey, N!Scanning, N!Expected
<1>12. CASE N!CaptureFails
  BY <1>12 DEF N!CaptureFails, N!Fails, N!AtTarget, N!CapturesKey, N!Scanning
<1>13. CASE N!SessionEnds
  BY <1>13 DEF N!SessionEnds, N!ClosingOf
<1>14. CASE N!SessionCancelled
  BY <1>14 DEF N!SessionCancelled, N!ClosingOf
<1>15. CASE N!Close
  BY <1>15 DEF N!Close
<1>16. CASE \E kind \in N!Kinds, key \in Keys \cup {N!NoKey} : N!Begin(kind, key)
  BY <1>16 DEF N!Begin
<1>17. CASE \E key \in Keys : N!Confirm(key)
  BY <1>17 DEF N!Confirm
<1>18. CASE \E h \in N!Hops, key \in Keys : N!ServerChangesKey(h, key)
  BY SMTT(30), <1>18 DEF N!ServerChangesKey
<1>19. CASE \E ok \in BOOLEAN : N!DialFirst(ok)
  BY SMTT(30), <1>19 DEF N!DialFirst, N!Fails
<1>20. CASE \E ok \in BOOLEAN : N!DialEnds(ok)
  BY <1>20 DEF N!DialEnds
<1>21. ASSUME NEW ok \in BOOLEAN, N!LoadKnownHosts(ok) PROVE N!CallInv'
  <2>1. CASE N!Fails
    BY <1>21, <2>1 DEF N!LoadKnownHosts, N!Fails
  <2>2. CASE ~N!Fails
    BY SMTT(30), <1>21, <2>2, SshKnownHostsRead
  <2> QED
    BY <2>1, <2>2
<1>22. CASE \E ok, withAgent \in BOOLEAN : N!PrepareAuthentication(ok, withAgent)
  <2>1. call.phase = "auth" /\ UNCHANGED <<keepalive, dialer>>
    BY <1>22 DEF N!PrepareAuthentication
  <2>2. CASE N!Fails
    BY <2>1, <2>2 DEF N!Fails
  <2>3. CASE ~N!Fails
    <3>1. /\ call' = [call EXCEPT !.phase = "handshake"] /\ UNCHANGED accepted
          /\ open' \subseteq open \cup {<<"agent", call.hop>>}
      BY <1>22, <2>3 DEF N!PrepareAuthentication
    <3>2. call'.phase = "handshake" /\ call'.hop = call.hop
      BY <3>1
    <3>3. <<"session", Target>> \notin open'
      BY <2>1, <3>1
    <3> QED
      BY <2>1, <3>1, <3>2, <3>3
  <2> QED
    BY <2>2, <2>3
<1>23. ASSUME NEW ok \in BOOLEAN, N!StartSession(ok) PROVE N!CallInv'
  BY SMTT(30), <1>23, SshSessionStarted
<1>24. CASE \E h \in N!Hops : N!KeepaliveCloses(h)
  BY <1>24 DEF N!KeepaliveCloses
<1>25. CASE N!ServersStall
  BY <1>25 DEF N!ServersStall
<1>26. CASE N!CloseSFTP
  BY <1>26 DEF N!CloseSFTP
<1> QED
  BY <1>0, <1>1, <1>2, <1>3, <1>4, <1>5, <1>6, <1>7, <1>8, <1>9, <1>10, <1>11, <1>12, <1>13, <1>14, <1>15, <1>16, <1>17, <1>18, <1>19, <1>20, <1>21, <1>22, <1>23, <1>24, <1>25, <1>26 DEF N!Next

\* The goroutine of a dial is taken, awaited or abandoned.
LEMMA SshDialStep == ASSUME N!TypeOK, N!CallInv, N!DialInv, N!Next \/ UNCHANGED sshVars PROVE N!DialInv'
<1> USE HopBounds DEF N!TypeOK, N!CallInv, N!DialInv, N!Connecting, N!Connected, N!Hops, N!Idle, N!NoDialer
<1>0. CASE UNCHANGED sshVars
  BY <1>0 DEF sshVars
<1>1. CASE N!ContextEnds
  BY <1>1 DEF N!ContextEnds
<1>2. CASE N!ServersStop
  BY <1>2 DEF N!ServersStop
<1>3. CASE N!StartDial
  BY <1>3 DEF N!StartDial
<1>4. CASE N!DialTaken
  BY <1>4 DEF N!DialTaken, N!Fails
<1>5. CASE N!DialCancelled
  BY <1>5 DEF N!DialCancelled
<1>6. CASE N!DialLate
  BY <1>6 DEF N!DialLate
<1>7. CASE N!DialAbandoned
  BY <1>7 DEF N!DialAbandoned
<1>8. CASE N!AbandonedDialEnds
  BY <1>8 DEF N!AbandonedDialEnds
<1>9. CASE N!Handshake
  BY <1>9 DEF N!Handshake, N!AtTarget, N!CapturesKey, N!Scanning, N!KeyAccepted
<1>10. CASE N!HandshakeFails
  BY <1>10 DEF N!HandshakeFails, N!Fails, N!AtTarget, N!CapturesKey, N!Scanning
<1>11. CASE N!KeyCaptured
  BY <1>11 DEF N!KeyCaptured, N!Fails, N!AtTarget, N!CapturesKey, N!Scanning, N!Expected
<1>12. CASE N!CaptureFails
  BY <1>12 DEF N!CaptureFails, N!Fails, N!AtTarget, N!CapturesKey, N!Scanning
<1>13. CASE N!SessionEnds
  BY <1>13 DEF N!SessionEnds, N!ClosingOf
<1>14. CASE N!SessionCancelled
  BY <1>14 DEF N!SessionCancelled, N!ClosingOf
<1>15. CASE N!Close
  BY <1>15 DEF N!Close
<1>16. CASE \E kind \in N!Kinds, key \in Keys \cup {N!NoKey} : N!Begin(kind, key)
  BY <1>16 DEF N!Begin
<1>17. CASE \E key \in Keys : N!Confirm(key)
  BY <1>17 DEF N!Confirm
<1>18. CASE \E h \in N!Hops, key \in Keys : N!ServerChangesKey(h, key)
  BY SMTT(30), <1>18 DEF N!ServerChangesKey
<1>19. CASE \E ok \in BOOLEAN : N!DialFirst(ok)
  BY SMTT(30), <1>19 DEF N!DialFirst, N!Fails
<1>20. CASE \E ok \in BOOLEAN : N!DialEnds(ok)
  BY <1>20 DEF N!DialEnds
<1>21. ASSUME NEW ok \in BOOLEAN, N!LoadKnownHosts(ok) PROVE N!DialInv'
  <2>1. CASE N!Fails
    BY <1>21, <2>1 DEF N!LoadKnownHosts, N!Fails
  <2>2. CASE ~N!Fails
    BY <1>21, <2>2, SshKnownHostsRead
  <2> QED
    BY <2>1, <2>2
<1>22. CASE \E ok, withAgent \in BOOLEAN : N!PrepareAuthentication(ok, withAgent)
  BY <1>22 DEF N!PrepareAuthentication, N!Fails, N!CapturesKey, N!AtTarget, N!Scanning
<1>23. ASSUME NEW ok \in BOOLEAN, N!StartSession(ok) PROVE N!DialInv'
  BY <1>23, SshSessionStarted
<1>24. CASE \E h \in N!Hops : N!KeepaliveCloses(h)
  BY <1>24 DEF N!KeepaliveCloses
<1>25. CASE N!ServersStall
  BY <1>25 DEF N!ServersStall
<1>26. CASE N!CloseSFTP
  BY <1>26 DEF N!CloseSFTP
<1> QED
  BY <1>0, <1>1, <1>2, <1>3, <1>4, <1>5, <1>6, <1>7, <1>8, <1>9, <1>10, <1>11, <1>12, <1>13, <1>14, <1>15, <1>16, <1>17, <1>18, <1>19, <1>20, <1>21, <1>22, <1>23, <1>24, <1>25, <1>26 DEF N!Next

\* A call that returns closes everything, and an abandoned dial its connection.
LEMMA SshReturnStep == ASSUME N!TypeOK, N!CallInv, N!DialInv, N!ReturnsClosed, N!Next \/ UNCHANGED sshVars PROVE N!ReturnsClosed'
<1> USE HopBounds DEF N!TypeOK, N!CallInv, N!DialInv, N!ReturnsClosed, N!Connecting, N!Connected, N!Hops, N!Idle, N!NoDialer
<1>0. CASE UNCHANGED sshVars
  BY <1>0 DEF sshVars
<1>1. CASE N!ContextEnds
  BY <1>1 DEF N!ContextEnds
<1>2. CASE N!ServersStop
  BY <1>2 DEF N!ServersStop
<1>3. CASE N!StartDial
  BY <1>3 DEF N!StartDial
<1>4. CASE N!DialTaken
  BY <1>4 DEF N!DialTaken, N!Fails
<1>5. CASE N!DialCancelled
  BY <1>5 DEF N!DialCancelled
<1>6. CASE N!DialLate
  BY <1>6 DEF N!DialLate
<1>7. CASE N!DialAbandoned
  BY <1>7 DEF N!DialAbandoned
<1>8. CASE N!AbandonedDialEnds
  BY <1>8 DEF N!AbandonedDialEnds
<1>9. CASE N!Handshake
  <2>1. call' \in {[call EXCEPT !.phase = "connected"], [call EXCEPT !.phase = "dial", !.hop = @ + 1]}
    <3> HIDE DEF N!TypeOK, N!CallInv, N!DialInv, N!ReturnsClosed
    <3> QED
      BY <1>9 DEF N!Handshake
  <2>2. call'.phase # "idle"
    <3> HIDE DEF N!CallInv, N!DialInv, N!ReturnsClosed
    <3> QED
      BY <2>1
  <2> QED
    BY <2>2
<1>10. CASE N!HandshakeFails
  BY <1>10 DEF N!HandshakeFails, N!Fails, N!AtTarget, N!CapturesKey, N!Scanning
<1>11. CASE N!KeyCaptured
  BY <1>11 DEF N!KeyCaptured, N!Fails, N!AtTarget, N!CapturesKey, N!Scanning, N!Expected
<1>12. CASE N!CaptureFails
  BY <1>12 DEF N!CaptureFails, N!Fails, N!AtTarget, N!CapturesKey, N!Scanning
<1>13. CASE N!SessionEnds
  BY <1>13 DEF N!SessionEnds, N!ClosingOf
<1>14. CASE N!SessionCancelled
  BY <1>14 DEF N!SessionCancelled, N!ClosingOf
<1>15. CASE N!Close
  BY <1>15 DEF N!Close
<1>16. CASE \E kind \in N!Kinds, key \in Keys \cup {N!NoKey} : N!Begin(kind, key)
  BY <1>16 DEF N!Begin
<1>17. CASE \E key \in Keys : N!Confirm(key)
  BY <1>17 DEF N!Confirm
<1>18. CASE \E h \in N!Hops, key \in Keys : N!ServerChangesKey(h, key)
  BY SMTT(30), <1>18 DEF N!ServerChangesKey
<1>19. CASE \E ok \in BOOLEAN : N!DialFirst(ok)
  BY SMTT(30), <1>19 DEF N!DialFirst, N!Fails
<1>20. CASE \E ok \in BOOLEAN : N!DialEnds(ok)
  BY <1>20 DEF N!DialEnds
<1>21. CASE \E ok \in BOOLEAN : N!LoadKnownHosts(ok)
  BY ZenonT(60), <1>21 DEF N!LoadKnownHosts, N!Fails, N!CapturesKey, N!AtTarget, N!Scanning
<1>22. CASE \E ok, withAgent \in BOOLEAN : N!PrepareAuthentication(ok, withAgent)
  BY <1>22 DEF N!PrepareAuthentication, N!Fails, N!CapturesKey, N!AtTarget, N!Scanning
<1>23. ASSUME NEW ok \in BOOLEAN, N!StartSession(ok) PROVE N!ReturnsClosed'
  BY <1>23, SshSessionStarted
<1>24. CASE \E h \in N!Hops : N!KeepaliveCloses(h)
  BY <1>24 DEF N!KeepaliveCloses
<1>25. CASE N!ServersStall
  BY <1>25 DEF N!ServersStall
<1>26. CASE N!CloseSFTP
  BY <1>26 DEF N!CloseSFTP
<1> QED
  BY <1>0, <1>1, <1>2, <1>3, <1>4, <1>5, <1>6, <1>7, <1>8, <1>9, <1>10, <1>11, <1>12, <1>13, <1>14, <1>15, <1>16, <1>17, <1>18, <1>19, <1>20, <1>21, <1>22, <1>23, <1>24, <1>25, <1>26 DEF N!Next

\* A key is accepted only as known_hosts has it.
LEMMA SshConfirmedStep == ASSUME N!TypeOK, N!TrustInv, N!CallInv, N!OnlyConfirmedHosts, N!Next \/ UNCHANGED sshVars PROVE N!OnlyConfirmedHosts'
<1> USE HopBounds, SshTrustStep DEF N!TypeOK, N!TrustInv, N!CallInv, N!OnlyConfirmedHosts, N!Connecting, N!Connected, N!Hops, N!Idle, N!NoKey
<1>0. CASE UNCHANGED sshVars
  BY <1>0 DEF sshVars
<1>1. CASE N!ContextEnds
  BY <1>1 DEF N!ContextEnds
<1>2. CASE N!ServersStop
  BY <1>2 DEF N!ServersStop
<1>3. CASE N!StartDial
  BY <1>3 DEF N!StartDial
<1>4. CASE N!DialTaken
  BY <1>4 DEF N!DialTaken, N!Fails
<1>5. CASE N!DialCancelled
  BY <1>5 DEF N!DialCancelled
<1>6. CASE N!DialLate
  BY <1>6 DEF N!DialLate
<1>7. CASE N!DialAbandoned
  BY <1>7 DEF N!DialAbandoned
<1>8. CASE N!AbandonedDialEnds
  BY <1>8 DEF N!AbandonedDialEnds
<1>9. CASE N!Handshake
  BY <1>9 DEF N!Handshake, N!AtTarget, N!CapturesKey, N!Scanning, N!KeyAccepted
<1>10. CASE N!HandshakeFails
  BY <1>10 DEF N!HandshakeFails, N!Fails, N!AtTarget, N!CapturesKey, N!Scanning
<1>11. CASE N!KeyCaptured
  BY <1>11 DEF N!KeyCaptured, N!Fails, N!AtTarget, N!CapturesKey, N!Scanning, N!Expected
<1>12. CASE N!CaptureFails
  BY <1>12 DEF N!CaptureFails, N!Fails, N!AtTarget, N!CapturesKey, N!Scanning
<1>13. CASE N!SessionEnds
  BY <1>13 DEF N!SessionEnds, N!ClosingOf
<1>14. CASE N!SessionCancelled
  BY <1>14 DEF N!SessionCancelled, N!ClosingOf
<1>15. CASE N!Close
  BY <1>15 DEF N!Close
<1>16. CASE \E kind \in N!Kinds, key \in Keys \cup {N!NoKey} : N!Begin(kind, key)
  BY <1>16 DEF N!Begin
<1>17. CASE \E key \in Keys : N!Confirm(key)
  BY <1>17 DEF N!Confirm
<1>18. CASE \E h \in N!Hops, key \in Keys : N!ServerChangesKey(h, key)
  BY SMTT(30), <1>18 DEF N!ServerChangesKey
<1>19. CASE \E ok \in BOOLEAN : N!DialFirst(ok)
  BY SMTT(30), <1>19 DEF N!DialFirst, N!Fails
<1>20. CASE \E ok \in BOOLEAN : N!DialEnds(ok)
  BY <1>20 DEF N!DialEnds
<1>21. ASSUME NEW ok \in BOOLEAN, N!LoadKnownHosts(ok) PROVE N!OnlyConfirmedHosts'
  <2>1. CASE N!Fails
    BY <1>21, <2>1 DEF N!LoadKnownHosts, N!Fails
  <2>2. CASE ~N!Fails
    BY <1>21, <2>2, SshKnownHostsRead
  <2> QED
    BY <2>1, <2>2
<1>22. CASE \E ok, withAgent \in BOOLEAN : N!PrepareAuthentication(ok, withAgent)
  BY <1>22 DEF N!PrepareAuthentication, N!Fails, N!CapturesKey, N!AtTarget, N!Scanning
<1>23. ASSUME NEW ok \in BOOLEAN, N!StartSession(ok) PROVE N!OnlyConfirmedHosts'
  BY <1>23, SshSessionStarted
<1>24. CASE \E h \in N!Hops : N!KeepaliveCloses(h)
  BY <1>24 DEF N!KeepaliveCloses
<1>25. CASE N!ServersStall
  BY <1>25 DEF N!ServersStall
<1>26. CASE N!CloseSFTP
  BY <1>26 DEF N!CloseSFTP
<1> QED
  BY <1>0, <1>1, <1>2, <1>3, <1>4, <1>5, <1>6, <1>7, <1>8, <1>9, <1>10, <1>11, <1>12, <1>13, <1>14, <1>15, <1>16, <1>17, <1>18, <1>19, <1>20, <1>21, <1>22, <1>23, <1>24, <1>25, <1>26 DEF N!Next

LEMMA SshInitially == N!Init => N!IInv
<1> SUFFICES ASSUME N!Init PROVE N!IInv
  OBVIOUS
<1>1. PICK trusted \in SUBSET N!Hops : known = {<<h, keyOf[h]>> : h \in trusted}
  BY DEF N!Init
<1>2. known \subseteq N!Hops \X Keys /\ scanned = known /\ confirmed = known
  BY <1>1 DEF N!Init
<1>3. call \in [kind : N!Kinds \cup {"none"}, expected : Keys \cup {N!NoKey}, phase : N!Phases,
                hop : 0..Target, live : BOOLEAN, file : SUBSET (N!Hops \X Keys)]
  BY HopBounds DEF N!Init, N!Idle, N!Phases
<1>4. dialer \in [state : {"none", "dialing", "connected", "failed"},
                  hop : 0..Target, abandoned : BOOLEAN]
  BY HopBounds DEF N!Init, N!NoDialer
<1>5. N!TypeOK
  BY <1>2, <1>3, <1>4, HopBounds DEF N!Init, N!TypeOK
<1>6. N!CallInv /\ N!DialInv /\ N!TrustInv
  BY DEF N!Init, N!Idle, N!NoDialer, N!CallInv, N!DialInv, N!TrustInv, N!Connecting, N!Connected
<1>7. N!ReturnsClosed /\ N!OnlyConfirmedHosts
  BY DEF N!Init, N!ReturnsClosed, N!OnlyConfirmedHosts
<1> QED
  BY <1>5, <1>6, <1>7 DEF N!IInv

\* The state of a call, of its dial and of the keys it trusts agree in every state.
THEOREM CallInvariance == Spec => []N!IInv
<1>1. ASSUME N!IInv, N!Next \/ UNCHANGED sshVars PROVE N!IInv'
  <2>1. known \subseteq confirmed
    BY <1>1 DEF N!IInv, N!OnlyConfirmedHosts
  <2> QED
    BY <1>1, <2>1, SshTypingStep, SshTrustStep, SshCallStep, SshDialStep, SshReturnStep,
       SshConfirmedStep DEF N!IInv
<1>2. Init => N!IInv
  BY SshInitially DEF Init
<1>3. ASSUME Next \/ UNCHANGED vars PROVE N!Next \/ UNCHANGED sshVars
  BY <1>3 DEF Next, vars, MoveTunnels, MovePool, MoveShells, MoveJournal, MoveSSH
<1>4. N!IInv /\ [Next]_vars => N!IInv'
  BY <1>1, <1>3
<1> QED
  BY <1>2, <1>4, PTL DEF Spec

-----------------------------------------------------------------------------
(* The theorem *)

\* sftp_pool.go and native.go: no pooled connection is closed under its users or
\* forgotten open, a call that returned left nothing open, and sessions run only
\* over confirmed host keys.
THEOREM ConnectionsStaySafe == Spec => []ConnectionsSafe
<1>1. P!IInv /\ N!IInv => ConnectionsSafe
  BY DEF P!IInv, N!IInv, ConnectionsSafe
<1> QED
  BY <1>1, PoolInvariance, CallInvariance, PTL
=============================================================================
