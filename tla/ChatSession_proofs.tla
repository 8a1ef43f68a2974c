------------------------- MODULE ChatSession_proofs -------------------------
(***************************************************************************)
(* Proofs about ChatSession, for any number of requests and messages and   *)
(* any bound on the queue.                                                 *)
(*                                                                         *)
(* That one turn is under way at a time is inductive with the types.  The  *)
(* three invariants of the queue are not: they need to know where the      *)
(* queue is closed, that a request whose context ended did begin, and that *)
(* what is queued was accepted before, in one of the two modes (QueueInv). *)
(* That no request to steer is forgotten needs to know that who holds the  *)
(* cancel function of a turn marked that turn (SteerInv).                  *)
(***************************************************************************)
EXTENDS ChatSession, SequenceTheorems, WellFoundedInduction, TLAPS

-----------------------------------------------------------------------------
(* Sequences *)

\* What inserting an element does to a sequence.
LEMMA InsertAtElements ==
  ASSUME NEW S, NEW s \in Seq(S), NEW e \in S, NEW p \in 1 .. Len(s) + 1
  PROVE  /\ InsertAt(s, p, e) \in Seq(S)
         /\ Len(InsertAt(s, p, e)) = Len(s) + 1
         /\ \A i \in 1 .. Len(s) + 1 :
              InsertAt(s, p, e)[i] = IF i < p THEN s[i] ELSE IF i = p THEN e ELSE s[i - 1]
<1> DEFINE before == SubSeq(s, 1, p - 1)
           after  == SubSeq(s, p, Len(s))
           front  == before \o <<e>>
<1>1. /\ before \in Seq(S) /\ Len(before) = p - 1
      /\ \A i \in 1 .. p - 1 : before[i] = s[i]
  OBVIOUS
<1>2. /\ after \in Seq(S) /\ Len(after) = Len(s) - p + 1
      /\ \A i \in 1 .. Len(s) - p + 1 : after[i] = s[p + i - 1]
  OBVIOUS
<1>3. InsertAt(s, p, e) = front \o after
  BY DEF InsertAt
<1> HIDE DEF before, after
<1>4. <<e>> \in Seq(S) /\ Len(<<e>>) = 1 /\ <<e>>[1] = e
  OBVIOUS
<1>5. /\ front \in Seq(S) /\ Len(front) = p
      /\ \A i \in 1 .. p : front[i] = IF i < p THEN s[i] ELSE e
  BY <1>1, <1>4, ConcatProperties
<1> HIDE DEF front
<1>6. /\ front \o after \in Seq(S) /\ Len(front \o after) = Len(s) + 1
      /\ \A i \in 1 .. Len(s) + 1 : (front \o after)[i] = IF i <= p THEN front[i] ELSE after[i - p]
  <2>1. Len(front) + Len(after) = Len(s) + 1
    BY <1>2, <1>5
  <2>2. /\ front \o after \in Seq(S) /\ Len(front \o after) = Len(front) + Len(after)
        /\ \A i \in 1 .. Len(front) + Len(after) :
             (front \o after)[i] = IF i <= Len(front) THEN front[i] ELSE after[i - Len(front)]
    BY <1>2, <1>5, ConcatProperties
  <2> QED
    BY <1>5, <2>1, <2>2
<1>7. ASSUME NEW i \in 1 .. Len(s) + 1
      PROVE  (front \o after)[i] = IF i < p THEN s[i] ELSE IF i = p THEN e ELSE s[i - 1]
  <2>1. CASE i <= p
    BY <2>1, <1>5, <1>6
  <2>2. CASE i > p
    <3>1. (front \o after)[i] = after[i - p]
      BY <2>2, <1>6
    <3>2. i - p \in 1 .. Len(s) - p + 1 /\ p + (i - p) - 1 = i - 1
      BY <2>2
    <3>3. after[i - p] = s[i - 1]
      BY <3>2, <1>2
    <3> QED
      BY <2>2, <3>1, <3>3
  <2>3. i <= p \/ i > p
    OBVIOUS
  <2> QED
    BY <2>1, <2>2, <2>3
<1> QED
  BY <1>3, <1>6, <1>7

\* A condition that does not hold of all numbers up to n fails first somewhere.
LEMMA FirstFailure ==
  ASSUME NEW n \in Nat, NEW good \in SUBSET (1 .. n)
  PROVE  \E p \in 1 .. n + 1 : (\A i \in 1 .. p - 1 : i \in good) /\ (p <= n => p \notin good)
<1> DEFINE bad == (1 .. n + 1) \ good
<1>1. n + 1 \in bad /\ bad \subseteq Nat
  OBVIOUS
<1>2. PICK p \in bad : \A y \in bad : ~ (<<y, p>> \in OpToRel(<, Nat))
  <2> HIDE DEF bad
  <2>1. bad # {}
    BY <1>1
  <2> QED
    BY <1>1, <2>1, NatLessThanWellFounded, WFMin
<1>3. \A y \in bad : ~ (y < p)
  BY <1>1, <1>2 DEF OpToRel
<1> QED
  BY <1>1, <1>3

\* The elements of a sequence are what stands at its places.
LEMMA Elements ==
  ASSUME NEW S, NEW s \in Seq(S)
  PROVE  \A x : x \in ToSet(s) <=> \E i \in 1 .. Len(s) : s[i] = x
<1>1. DOMAIN s = 1 .. Len(s)
  OBVIOUS
<1> QED
  BY <1>1 DEF ToSet

LEMMA NoElements == ToSet(<<>>) = {}
BY DEF ToSet

-----------------------------------------------------------------------------
(* Types *)

\* Where Enqueue puts a message: at the end, or behind the steering messages at
\* the front.
LEMMA PositionOf ==
  ASSUME TypeOK, NEW how \in {"followup", "steering"}
  PROVE  /\ Position(how) \in 1 .. Len(items) + 1
         /\ how = "followup" => Position(how) = Len(items) + 1
         /\ how = "steering" =>
              /\ \A i \in 1 .. Position(how) - 1 : mode[items[i]] = "steering"
              /\ Position(how) <= Len(items) => mode[items[Position(how)]] # "steering"
<1> DEFINE n == Len(items)
           good == {i \in 1 .. n : mode[items[i]] = "steering"}
           Behind(p) == /\ \A i \in 1 .. p - 1 : mode[items[i]] = "steering"
                        /\ p <= n => mode[items[p]] # "steering"
<1>1. n \in Nat
  BY DEF TypeOK
<1>2. CASE how = "followup"
  BY <1>1, <1>2 DEF Position
<1>3. CASE how = "steering"
  <2>1. good \in SUBSET (1 .. n)
    OBVIOUS
  <2>2. PICK p \in 1 .. n + 1 : (\A i \in 1 .. p - 1 : i \in good) /\ (p <= n => p \notin good)
    <3> HIDE DEF n, good
    <3> QED
      BY <1>1, <2>1, FirstFailure
  <2>3. Behind(p)
    BY <1>1, <2>2
  <2>4. Position(how) = CHOOSE q \in 1 .. n + 1 : Behind(q)
    BY <1>3 DEF Position
  <2> HIDE DEF Behind, n
  <2>5. Position(how) \in 1 .. n + 1 /\ Behind(Position(how))
    BY <2>2, <2>3, <2>4
  <2> QED
    BY <1>3, <2>5 DEF Behind, n
<1> QED
  BY <1>2, <1>3

\* The queue after Enqueue, place by place.
LEMMA EnqueuedItems ==
  ASSUME TypeOK, NEW how \in {"followup", "steering"}, Enqueue(how)
  PROVE  /\ accepted + 1 \in Messages
         /\ items' \in Seq(Messages) /\ Len(items') = Len(items) + 1
         /\ \A i \in 1 .. Len(items) + 1 :
              items'[i] = IF i < Position(how) THEN items[i]
                          ELSE IF i = Position(how) THEN accepted + 1 ELSE items[i - 1]
<1>1. /\ items \in Seq(Messages) /\ accepted + 1 \in Messages
      /\ items' = InsertAt(items, Position(how), accepted + 1)
  BY DEF Enqueue, TypeOK
<1> DEFINE p == Position(how)
           m == accepted + 1
<1>2. p \in 1 .. Len(items) + 1 /\ m \in Messages
  BY <1>1, PositionOf
<1>3. items' = InsertAt(items, p, m)
  BY <1>1
<1> HIDE DEF p, m
<1>4. /\ InsertAt(items, p, m) \in Seq(Messages)
      /\ Len(InsertAt(items, p, m)) = Len(items) + 1
      /\ \A i \in 1 .. Len(items) + 1 :
           InsertAt(items, p, m)[i] = IF i < p THEN items[i] ELSE IF i = p THEN m ELSE items[i - 1]
  BY <1>1, <1>2, InsertAtElements
<1> QED
  BY <1>1, <1>3, <1>4 DEF p, m

LEMMA TypingStep == ASSUME TypeOK, OneTurnAtATime, [Next]_vars PROVE TypeOK'
<1> USE ChatBounds DEF TypeOK, Holders, DriverPC, Goto, queueVars, turnVars, msgVars
<1>0. /\ items' = <<>> => items' \in Seq(Messages) /\ Len(items') <= MaxQueued
      /\ Discard(items) => fate' \in [Messages -> {"new", "queued", "started", "discarded"}]
  <2>1. items' = <<>> => items' \in Seq(Messages) /\ Len(items') <= MaxQueued
    OBVIOUS
  <2>2. ASSUME Discard(items) PROVE fate' \in [Messages -> {"new", "queued", "started", "discarded"}]
    <3>1. \A m \in Messages : fate[m] \in {"new", "queued", "started", "discarded"}
      OBVIOUS
    <3> HIDE DEF TypeOK
    <3> QED
      BY <2>2, <3>1 DEF Discard
  <2> QED
    BY <2>1, <2>2
<1>1. CASE UNCHANGED vars
  BY <1>1 DEF vars
<1>2. ASSUME NEW c \in Chats, DriverStep(c) PROVE TypeOK'
  <2>1. CASE NextAfterTurn(c)
    <3>1. CASE items = <<>>
      BY <2>1, <3>1 DEF NextAfterTurn
    <3>2. CASE items # <<>>
      <4>1. /\ Head(items) \in Messages /\ Head(items) \in 0 .. MaxMessages
            /\ Tail(items) \in Seq(Messages) /\ Len(Tail(items)) <= MaxQueued
        BY <3>2 DEF Messages
      <4> QED
        <5>1. /\ items' = Tail(items) /\ current' = [current EXCEPT ![c] = Head(items)]
              /\ fate' = [fate EXCEPT ![Head(items)] = "started"]
              /\ pc' = [pc EXCEPT ![c] = "begin"]
              /\ UNCHANGED <<driver, accepting, ctxDone, turnVars, accepted, mode, steerer, stopper, compressor>>
          BY <2>1, <3>2 DEF NextAfterTurn
        <5>2. /\ current' \in [Chats -> 0 .. MaxMessages] /\ pc' \in [Chats -> DriverPC]
              /\ fate' \in [Messages -> {"new", "queued", "started", "discarded"}]
          BY <4>1, <5>1
        <5> QED
          BY <4>1, <5>1, <5>2
    <3> QED
      BY <3>1, <3>2
  <2>2. CASE QueueFinish(c)  BY <1>0, <2>2 DEF QueueFinish, Finish
  <2>3. CASE BeginSession(c)  BY <2>3 DEF BeginSession, Take
  <2>4. CASE RegisterSteerCancel(c)  BY <2>4 DEF RegisterSteerCancel
  <2>5. CASE EndSession(c)  BY <2>5 DEF EndSession, Release
  <2>6. CASE ClearAfterError(c)
    <3>1. driver \in Chats => ctxDone' \subseteq Chats
      BY <2>6 DEF ClearAfterError, Clear
    <3>2. driver = c
      BY <2>6 DEF ClearAfterError, OneTurnAtATime
    <3> QED
      BY <1>0, <2>6, <3>1, <3>2 DEF ClearAfterError, Clear
  <2> QED
    BY <1>2, <2>1, <2>2, <2>3, <2>4, <2>5, <2>6 DEF DriverStep
<1>3. ASSUME NEW c \in Chats,
             \/ QueueBegin(c) \/ StreamFails(c) \/ TurnRefused(c)
             \/ TurnAnswers(c) \/ TurnFails(c) \/ SafePoint(c)
      PROVE  TypeOK'
  <2>1. CASE QueueBegin(c)  BY <2>1 DEF QueueBegin
  <2>2. CASE StreamFails(c)  BY <1>0, <2>2 DEF StreamFails, Finish
  <2>3. CASE TurnRefused(c)  BY <2>3 DEF TurnRefused
  <2>4. CASE TurnAnswers(c)  BY <2>4 DEF TurnAnswers
  <2>5. CASE TurnFails(c)  BY <2>5 DEF TurnFails
  <2>6. CASE SafePoint(c)  BY <2>6 DEF SafePoint
  <2> QED
    BY <1>3, <2>1, <2>2, <2>3, <2>4, <2>5, <2>6
<1>4. ASSUME NEW how \in {"followup", "steering"}, Enqueue(how) PROVE TypeOK'
  <2>1. accepted + 1 \in Messages /\ items' \in Seq(Messages) /\ Len(items') = Len(items) + 1
    BY <1>4, EnqueuedItems
  <2> QED
    BY <1>4, <2>1 DEF Enqueue, Messages
<1>5. ASSUME NEW m \in Messages, SteerMark(m) \/ SteerCall(m) PROVE TypeOK'
  <2>1. CASE SteerMark(m)  BY <2>1 DEF SteerMark
  <2>2. CASE SteerCall(m)  BY <2>2 DEF SteerCall
  <2> QED
    BY <1>5, <2>1, <2>2
<1>6. CASE CancelSession \/ StopClear
  <2>1. CASE CancelSession  BY <2>1 DEF CancelSession
  <2>2. CASE StopClear  BY <1>0, <2>2 DEF StopClear, Clear
  <2> QED
    BY <1>6, <2>1, <2>2
<1>7. CASE CompressCheck \/ CompressBegin \/ CompressEnd
  BY <1>7 DEF CompressCheck, CompressBegin, CompressEnd, Take, Release
<1> QED
  BY <1>1, <1>2, <1>3, <1>4, <1>5, <1>6, <1>7 DEF Next

-----------------------------------------------------------------------------
(* One turn at a time *)

\* Every step that moves a turn, a compression or a driver keeps the two maps in
\* agreement with what is under way.
LEMMA TurnStep == ASSUME TypeOK, OneTurnAtATime, [Next]_vars PROVE OneTurnAtATime'
<1> USE ChatBounds DEF TypeOK, OneTurnAtATime, Holders, DriverPC, Goto, queueVars, turnVars
<1>1. CASE UNCHANGED vars
  BY <1>1 DEF vars
<1>2. ASSUME NEW c \in Chats, DriverStep(c) PROVE OneTurnAtATime'
  <2>1. CASE NextAfterTurn(c)
    <3>1. pc[c] = "next" /\ (pc' = [pc EXCEPT ![c] = "finish"] \/ pc' = [pc EXCEPT ![c] = "begin"])
          /\ UNCHANGED <<driver, active, compressor>>
      BY <2>1 DEF NextAfterTurn
    <3> QED
      BY SMTT(30), <3>1
  <2>2. CASE QueueFinish(c)  BY <2>2 DEF QueueFinish, Finish
  <2>3. CASE BeginSession(c)  BY <2>3 DEF BeginSession, Take
  <2>4. CASE RegisterSteerCancel(c)  BY <2>4 DEF RegisterSteerCancel
  <2>5. CASE EndSession(c)
    <3>1. /\ pc[c] \in {"answered", "steered", "failed"} /\ active = c /\ driver = c
          /\ pc' = [pc EXCEPT ![c] = "next"] \/ pc' = [pc EXCEPT ![c] = "clear"]
          /\ active' = "none" /\ UNCHANGED <<driver, compressor>>
      BY <2>5 DEF EndSession, Release
    <3> QED
      BY SMTT(30), <3>1
  <2>6. CASE ClearAfterError(c)  BY <2>6 DEF ClearAfterError
  <2> QED
    BY <1>2, <2>1, <2>2, <2>3, <2>4, <2>5, <2>6 DEF DriverStep
<1>3. ASSUME NEW c \in Chats,
             \/ QueueBegin(c) \/ StreamFails(c) \/ TurnRefused(c)
             \/ TurnAnswers(c) \/ TurnFails(c) \/ SafePoint(c)
      PROVE  OneTurnAtATime'
  <2>1. CASE QueueBegin(c)  BY <2>1 DEF QueueBegin
  <2>2. CASE StreamFails(c)  BY <2>2 DEF StreamFails, Finish
  <2>3. CASE TurnRefused(c)  BY <2>3 DEF TurnRefused
  <2>4. CASE TurnAnswers(c)  BY SMTT(30), <2>4 DEF TurnAnswers
  <2>5. CASE TurnFails(c)  BY <2>5 DEF TurnFails
  <2>6. CASE SafePoint(c)  BY <2>6 DEF SafePoint
  <2> QED
    BY <1>3, <2>1, <2>2, <2>3, <2>4, <2>5, <2>6
<1>4. CASE \E how \in {"followup", "steering"} : Enqueue(how)
  BY <1>4 DEF Enqueue
<1>5. CASE \E m \in Messages : SteerMark(m) \/ SteerCall(m)
  BY <1>5 DEF SteerMark, SteerCall
<1>6. CASE CancelSession \/ StopClear
  BY <1>6 DEF CancelSession, StopClear
<1>7. CASE CompressCheck \/ CompressBegin \/ CompressEnd
  BY <1>7 DEF CompressCheck, CompressBegin, CompressEnd, Take, Release
<1> QED
  BY <1>1, <1>2, <1>3, <1>4, <1>5, <1>6, <1>7 DEF Next

-----------------------------------------------------------------------------
(* The queue *)

Queue == QueueInv /\ QueueOrdered /\ NoMessageLost /\ StoppedQueueStaysEmpty

\* A step that empties and closes the queue, and discards what was in it.
LEMMA QueueEmptied ==
  ASSUME TypeOK, Queue, items' = <<>>, accepting' = FALSE, Discard(items) \/ (items = <<>> /\ UNCHANGED fate),
         \A c \in ctxDone' : pc'[c] # "idle"
  PROVE  Queue'
<1>1. Len(items') = 0
  OBVIOUS
<1>2. ToSet(items') = {}
  BY NoElements
<1>3. QueueInv' /\ QueueOrdered' /\ StoppedQueueStaysEmpty'
  BY <1>1 DEF QueueInv, QueueOrdered, StoppedQueueStaysEmpty
<1>4. NoMessageLost'
  BY <1>2, NoElements DEF NoMessageLost, Discard, Queue, TypeOK
<1> QED
  BY <1>3, <1>4 DEF Queue

\* A step that leaves the queue alone, and lets no driver finish.
LEMMA QueueKept ==
  ASSUME TypeOK, Queue, UNCHANGED <<queueVars, msgVars>>,
         \A c \in Chats : pc'[c] # pc[c] => pc'[c] \notin {"idle", "finish"}
  PROVE  Queue'
<1> USE DEF queueVars, msgVars
<1>1. QueueInv'
  BY DEF Queue, QueueInv, TypeOK
<1>2. QueueOrdered' /\ NoMessageLost' /\ StoppedQueueStaysEmpty'
  BY DEF Queue, QueueOrdered, NoMessageLost, StoppedQueueStaysEmpty
<1> QED
  BY <1>1, <1>2 DEF Queue

\* What is queued is queued once.
LEMMA QueuedOnce ==
  ASSUME TypeOK, Queue, NEW i \in 1 .. Len(items), NEW j \in 1 .. Len(items), items[i] = items[j]
  PROVE  i = j
<1>1. ASSUME NEW k \in 1 .. Len(items), NEW l \in 1 .. Len(items), k < l PROVE items[k] # items[l]
  <2>1. items[k] \in Messages /\ items[l] \in Messages
    BY DEF TypeOK
  <2>2. items[k] \in Nat
    BY <2>1 DEF Messages
  <2> QED
    BY <1>1, <2>2 DEF Queue, QueueOrdered
<1>2. i \in Nat /\ j \in Nat
  OBVIOUS
<1> QED
  BY <1>1, <1>2

LEMMA EnqueueStep ==
  ASSUME IInv, NEW how \in {"followup", "steering"}, Enqueue(how)
  PROVE  Queue'
<1> DEFINE n == Len(items)
           p == Position(how)
           m == accepted + 1
           older(i) == IF i < p THEN i ELSE i - 1
<1> USE DEF IInv
<1>1. /\ n \in Nat /\ p \in 1 .. n + 1 /\ m \in Messages /\ accepted \in Nat
      /\ \A i \in 1 .. n : items[i] \in Messages /\ items[i] \in Nat /\ items[i] # m /\ items[i] < m
  <2>1. n \in Nat /\ p \in 1 .. n + 1 /\ m \in Messages /\ accepted \in Nat
    BY PositionOf, EnqueuedItems DEF TypeOK
  <2>2. \A i \in 1 .. n : items[i] \in Messages /\ items[i] <= accepted
    BY DEF TypeOK, QueueInv
  <2>3. \A x \in Messages : x \in Nat
    BY DEF Messages
  <2> QED
    BY <2>1, <2>2, <2>3
<1>2. /\ items' \in Seq(Messages) /\ Len(items') = n + 1
      /\ items'[p] = m
      /\ \A i \in 1 .. n + 1 : i # p => older(i) \in 1 .. n /\ items'[i] = items[older(i)]
  BY <1>1, EnqueuedItems
<1>3. /\ mode'[m] = how /\ fate'[m] = "queued" /\ accepted' = m
      /\ \A x \in Messages \ {m} : mode'[x] = mode[x] /\ fate'[x] = fate[x]
  BY <1>1 DEF Enqueue, TypeOK
<1>4. \A i \in 1 .. n : mode'[items[i]] = mode[items[i]] /\ mode[items[i]] \in {"followup", "steering"}
  BY <1>1, <1>3 DEF QueueInv
<1>5. /\ how = "followup" => p = n + 1
      /\ how = "steering" => /\ \A i \in 1 .. p - 1 : mode[items[i]] = "steering"
                             /\ p <= n => mode[items[p]] = "followup"
  BY <1>1, <1>4, PositionOf
<1>6. how = "steering" => \A i \in p .. n : mode[items[i]] = "followup"
  BY <1>1, <1>4, <1>5 DEF QueueOrdered
<1> HIDE DEF m, p, n
<1>7. QueueInv'
  <2>1. driver' # "none" /\ driver' \notin ctxDone' /\ ~ \E c \in Chats : pc'[c] = "finish"
    BY DEF Enqueue, QueueInv
  <2>2. \A c \in ctxDone' : pc'[c] # "idle"
    BY DEF Enqueue, QueueInv
  <2>3. ASSUME NEW i \in 1 .. n + 1
        PROVE  items'[i] <= accepted' /\ mode'[items'[i]] \in {"followup", "steering"}
    <3>1. CASE i = p
      BY <1>1, <1>2, <1>3, <3>1 DEF m
    <3>2. CASE i # p
      <4>1. older(i) \in 1 .. n /\ items'[i] = items[older(i)]
        BY <1>2, <3>2
      <4> HIDE DEF older
      <4> QED
        BY <1>1, <1>3, <1>4, <4>1 DEF m
    <3> QED
      BY <3>1, <3>2
  <2> QED
    BY <1>2, <2>1, <2>2, <2>3 DEF QueueInv
<1>8. QueueOrdered'
  <2> SUFFICES ASSUME NEW i \in 1 .. n + 1, NEW j \in 1 .. n + 1, i < j
               PROVE  \/ mode'[items'[i]] = mode'[items'[j]] /\ items'[i] < items'[j]
                      \/ mode'[items'[i]] = "steering" /\ mode'[items'[j]] = "followup"
    BY <1>2 DEF QueueOrdered
  <2>1. CASE i # p /\ j # p
    <3>1. older(i) \in 1 .. n /\ older(j) \in 1 .. n /\ older(i) < older(j)
      BY <1>1, <1>2, <2>1
    <3>2. items'[i] = items[older(i)] /\ items'[j] = items[older(j)]
      BY <1>2, <2>1
    <3> HIDE DEF older
    <3> QED
      BY <1>4, <3>1, <3>2 DEF QueueOrdered, n
  <2>2. CASE i = p
    <3>1. how = "steering" /\ older(j) \in p .. n /\ items'[j] = items[older(j)]
      BY <1>1, <1>2, <1>5, <2>2
    <3> QED
      BY <1>1, <1>2, <1>3, <1>4, <1>6, <2>2, <3>1
  <2>3. CASE j = p
    <3>1. i \in 1 .. n /\ i \in 1 .. p - 1 /\ items'[i] = items[i] /\ items'[j] = m /\ mode'[m] = how
      BY <1>1, <1>2, <1>3, <2>3
    <3>2. items[i] < m /\ mode'[items[i]] = mode[items[i]] /\ mode[items[i]] \in {"followup", "steering"}
      BY <1>1, <1>4, <3>1
    <3> QED
      BY <1>5, <3>1, <3>2
  <2> QED
    BY <2>1, <2>2, <2>3
<1>9. NoMessageLost'
  <2>1. ASSUME NEW x \in Messages PROVE x \in ToSet(items') <=> x = m \/ x \in ToSet(items)
    <3>1. x \in ToSet(items') <=> \E i \in 1 .. n + 1 : items'[i] = x
      BY <1>2, Elements
    <3>2. x \in ToSet(items) <=> \E i \in 1 .. n : items[i] = x
      BY Elements DEF TypeOK, n
    <3>3. ASSUME NEW k \in 1 .. n PROVE \E i \in 1 .. n + 1 : items'[i] = items[k]
      <4>1. CASE k < p
        <5>1. k \in 1 .. n + 1 /\ k # p /\ older(k) = k
          BY <1>1, <4>1
        <5> QED
          BY <1>2, <5>1
      <4>2. CASE k >= p
        <5>1. k + 1 \in 1 .. n + 1 /\ k + 1 # p /\ older(k + 1) = k
          BY <1>1, <4>2
        <5> QED
          BY <1>2, <5>1
      <4> QED
        BY <1>1, <4>1, <4>2
    <3> HIDE DEF older
    <3> QED
      BY <1>1, <1>2, <3>1, <3>2, <3>3
  <2> QED
    BY <1>3, <2>1 DEF NoMessageLost
<1>10. StoppedQueueStaysEmpty'
  BY DEF Enqueue, QueueInv, StoppedQueueStaysEmpty
<1> QED
  BY <1>7, <1>8, <1>9, <1>10 DEF Queue

LEMMA NextStep ==
  ASSUME IInv, NEW c \in Chats, NextAfterTurn(c)
  PROVE  Queue'
<1>0. TypeOK /\ Queue /\ OneTurnAtATime
  BY DEF IInv, Queue
<1>1. CASE items = <<>>
  <2>1. \A d \in ctxDone' : pc'[d] # "idle"
    BY <1>0, <1>1 DEF Queue, QueueInv, NextAfterTurn, TypeOK
  <2> QED
    BY <1>0, <1>1, <2>1, QueueEmptied DEF NextAfterTurn
<1>2. CASE items # <<>>
  <2> DEFINE h == Head(items)
             n == Len(items)
  <2>1. /\ n \in Nat /\ h = items[1] /\ 1 \in 1 .. n /\ h \in Messages
        /\ items' = Tail(items) /\ items' \in Seq(Messages) /\ Len(items') = n - 1
        /\ \A i \in 1 .. n - 1 : i + 1 \in 1 .. n /\ items'[i] = items[i + 1]
    <3>1. items \in Seq(Messages) /\ items' = Tail(items)
      BY <1>0, <1>2 DEF NextAfterTurn, TypeOK
    <3> QED
      BY <1>2, <3>1
  <2>2. /\ UNCHANGED <<driver, accepting, ctxDone, accepted, mode>>
        /\ pc' = [pc EXCEPT ![c] = "begin"] /\ fate' = [fate EXCEPT ![h] = "started"]
    BY <1>2 DEF NextAfterTurn
  <2>3. driver # "none" /\ driver \notin ctxDone /\ ~ \E d \in Chats : pc[d] = "finish"
    BY <1>0, <1>2 DEF Queue, QueueInv
  <2> HIDE DEF h, n
  <2>4. QueueInv'
    <3>1. driver' # "none" /\ driver' \notin ctxDone' /\ ~ \E d \in Chats : pc'[d] = "finish"
      BY <1>0, <2>2, <2>3 DEF TypeOK
    <3>2. \A d \in ctxDone' : pc'[d] # "idle"
      BY <1>0, <2>2 DEF Queue, QueueInv, TypeOK
    <3>3. \A i \in 1 .. n - 1 : items'[i] <= accepted' /\ mode'[items'[i]] \in {"followup", "steering"}
      BY <1>0, <2>1, <2>2 DEF Queue, QueueInv, n
    <3> QED
      BY <2>1, <3>1, <3>2, <3>3 DEF QueueInv
  <2>5. QueueOrdered'
    <3>1. ASSUME NEW i \in 1 .. n - 1, NEW j \in 1 .. n - 1, i < j
          PROVE  \/ mode'[items'[i]] = mode'[items'[j]] /\ items'[i] < items'[j]
                 \/ mode'[items'[i]] = "steering" /\ mode'[items'[j]] = "followup"
      <4>1. i + 1 \in 1 .. n /\ j + 1 \in 1 .. n /\ i + 1 < j + 1
        BY <2>1, <3>1
      <4>2. \/ mode[items[i + 1]] = mode[items[j + 1]] /\ items[i + 1] < items[j + 1]
            \/ mode[items[i + 1]] = "steering" /\ mode[items[j + 1]] = "followup"
        BY <1>0, <4>1 DEF Queue, QueueOrdered, n
      <4> QED
        BY <2>1, <2>2, <4>2
    <3> QED
      BY <2>1, <3>1 DEF QueueOrdered
  <2>6. NoMessageLost'
    <3>1. ASSUME NEW x \in Messages PROVE x \in ToSet(items') <=> x # h /\ x \in ToSet(items)
      <4>1. x \in ToSet(items') <=> \E i \in 1 .. n - 1 : items'[i] = x
        <5>1. x \in ToSet(items') <=> \E i \in 1 .. Len(items') : items'[i] = x
          BY <2>1, Elements
        <5> QED
          BY <2>1, <5>1
      <4>2. x \in ToSet(items) <=> \E i \in 1 .. n : items[i] = x
        BY <1>0, Elements DEF TypeOK, n
      <4>3. \A i \in 1 .. n - 1 : items'[i] = items[i + 1] /\ items[i + 1] # h
        BY <1>0, <2>1, QueuedOnce DEF n
      <4>4. \A i \in 1 .. n : i = 1 \/ (i - 1 \in 1 .. n - 1 /\ items'[i - 1] = items[i])
        BY <2>1
      <4> QED
        BY SMTT(30), <2>1, <4>1, <4>2, <4>3, <4>4
    <3> QED
      BY <1>0, <2>1, <2>2, <3>1 DEF Queue, NoMessageLost, TypeOK
  <2>7. StoppedQueueStaysEmpty'
    BY <2>2, <2>3 DEF StoppedQueueStaysEmpty
  <2> QED
    BY <2>4, <2>5, <2>6, <2>7 DEF Queue
<1> QED
  BY <1>1, <1>2

LEMMA QueueStep == ASSUME IInv, [Next]_vars PROVE Queue'
<1>0. TypeOK /\ Queue /\ OneTurnAtATime
  BY DEF IInv, Queue
<1> USE DEF Goto
<1>1. CASE UNCHANGED vars
  BY <1>0, <1>1, QueueKept DEF vars
<1>2. ASSUME NEW c \in Chats, DriverStep(c) PROVE Queue'
  <2>1. CASE NextAfterTurn(c)
    BY <2>1, NextStep
  <2>2. CASE QueueFinish(c)
    <3>1. items = <<>> /\ ~accepting /\ UNCHANGED fate
      BY <1>0, <2>2 DEF QueueFinish, Queue, QueueInv, msgVars
    <3>2. \A d \in ctxDone' : pc'[d] # "idle"
      BY <1>0, <2>2 DEF QueueFinish, Finish, Queue, QueueInv, TypeOK
    <3> QED
      BY <1>0, <2>2, <3>1, <3>2, QueueEmptied DEF QueueFinish, Finish
  <2>3. CASE BeginSession(c) \/ RegisterSteerCancel(c) \/ EndSession(c)
    <3>1. UNCHANGED <<queueVars, msgVars>>
      BY <2>3 DEF BeginSession, RegisterSteerCancel, EndSession
    <3>2. \A d \in Chats : pc'[d] # pc[d] => pc'[d] \notin {"idle", "finish"}
      BY <1>0, <2>3 DEF BeginSession, RegisterSteerCancel, EndSession, TypeOK
    <3> QED
      BY <1>0, <3>1, <3>2, QueueKept
  <2>4. CASE ClearAfterError(c)
    <3>1. driver = c
      BY <1>0, <2>4 DEF ClearAfterError, OneTurnAtATime
    <3>2. \A d \in ctxDone' : pc'[d] # "idle"
      BY <1>0, <2>4, <3>1 DEF ClearAfterError, Clear, Queue, QueueInv, TypeOK
    <3> QED
      BY <1>0, <2>4, <3>2, QueueEmptied DEF ClearAfterError, Clear
  <2> QED
    BY <1>2, <2>1, <2>2, <2>3, <2>4 DEF DriverStep
<1>3. ASSUME NEW c \in Chats,
             \/ QueueBegin(c) \/ StreamFails(c) \/ TurnRefused(c)
             \/ TurnAnswers(c) \/ TurnFails(c) \/ SafePoint(c)
      PROVE  Queue'
  <2>1. CASE QueueBegin(c)
    <3>1. items = <<>> /\ items' = <<>> /\ UNCHANGED <<ctxDone, accepted, mode, fate>> /\ driver' = c
      BY <1>0, <2>1 DEF QueueBegin, Queue, QueueInv, msgVars
    <3>2. pc[c] = "idle" /\ pc' = [pc EXCEPT ![c] = "begin"] /\ c \notin ctxDone /\ c # "none"
      BY <1>0, <2>1, ChatBounds DEF QueueBegin, Queue, QueueInv
    <3>3. ~ \E d \in Chats : pc'[d] = "finish"
      BY <1>0, <2>1, <3>2, ChatBounds DEF QueueBegin, OneTurnAtATime, TypeOK
    <3>4. QueueInv'
      BY <1>0, <3>1, <3>2, <3>3 DEF Queue, QueueInv, TypeOK
    <3>5. QueueOrdered' /\ NoMessageLost' /\ StoppedQueueStaysEmpty'
      BY <1>0, <3>1 DEF Queue, QueueOrdered, NoMessageLost, StoppedQueueStaysEmpty
    <3> QED
      BY <3>4, <3>5 DEF Queue
  <2>2. CASE StreamFails(c)
    <3>1. \A d \in ctxDone' : pc'[d] # "idle"
      BY <1>0, <2>2 DEF StreamFails, Finish, Queue, QueueInv, TypeOK
    <3> QED
      BY <1>0, <2>2, <3>1, QueueEmptied DEF StreamFails, Finish
  <2>3. CASE TurnRefused(c) \/ TurnAnswers(c) \/ TurnFails(c) \/ SafePoint(c)
    <3>1. UNCHANGED <<queueVars, msgVars>>
      BY <2>3 DEF TurnRefused, TurnAnswers, TurnFails, SafePoint
    <3>2. \A d \in Chats : pc'[d] # pc[d] => pc'[d] \notin {"idle", "finish"}
      BY <1>0, <2>3 DEF TurnRefused, TurnAnswers, TurnFails, SafePoint, TypeOK
    <3> QED
      BY <1>0, <3>1, <3>2, QueueKept
  <2> QED
    BY <1>3, <2>1, <2>2, <2>3
<1>4. ASSUME NEW how \in {"followup", "steering"}, Enqueue(how) PROVE Queue'
  BY <1>4, EnqueueStep
<1>5. CASE \E m \in Messages : SteerMark(m) \/ SteerCall(m)
  BY <1>0, <1>5, QueueKept DEF SteerMark, SteerCall
<1>6. CASE CancelSession
  BY <1>0, <1>6, QueueKept DEF CancelSession
<1>7. CASE StopClear
  <2>1. CASE driver = "none"
    <3>1. UNCHANGED <<queueVars, msgVars, pc>>
      BY <1>7, <2>1 DEF StopClear, queueVars, msgVars
    <3> QED
      BY <1>0, <3>1, QueueKept
  <2>2. CASE driver # "none"
    <3>1. \A d \in ctxDone' : pc'[d] # "idle"
      BY <1>0, <1>7, <2>2 DEF StopClear, Clear, Queue, QueueInv, OneTurnAtATime, TypeOK
    <3> QED
      BY <1>0, <1>7, <2>2, <3>1, QueueEmptied DEF StopClear, Clear
  <2> QED
    BY <2>1, <2>2
<1>8. CASE CompressCheck \/ CompressBegin \/ CompressEnd
  BY <1>0, <1>8, QueueKept DEF CompressCheck, CompressBegin, CompressEnd
<1> QED
  BY <1>1, <1>2, <1>3, <1>4, <1>5, <1>6, <1>7, <1>8 DEF Next

-----------------------------------------------------------------------------
(* Steering *)

\* Marking a turn, registering its cancel function and calling it come in any
\* order, and a turn may end between any two of them.
LEMMA SteerStep ==
  ASSUME TypeOK, OneTurnAtATime, SteerInv, SteerReachesRunner, [Next]_vars
  PROVE  SteerInv' /\ SteerReachesRunner'
<1> USE ChatBounds DEF TypeOK, OneTurnAtATime, SteerInv, SteerReachesRunner, Holders, DriverPC, Goto, turnVars, msgVars
<1>1. CASE UNCHANGED vars
  BY <1>1 DEF vars
<1>2. ASSUME NEW c \in Chats, DriverStep(c) PROVE SteerInv' /\ SteerReachesRunner'
  <2>1. CASE NextAfterTurn(c)  BY <2>1 DEF NextAfterTurn
  <2>2. CASE QueueFinish(c)  BY <2>2 DEF QueueFinish
  <2>3. CASE BeginSession(c)  BY <2>3 DEF BeginSession, Take
  <2>4. CASE RegisterSteerCancel(c)  BY <2>4 DEF RegisterSteerCancel
  <2>5. CASE EndSession(c)  BY <2>5 DEF EndSession, Release
  <2>6. CASE ClearAfterError(c)  BY <2>6 DEF ClearAfterError
  <2> QED
    BY <1>2, <2>1, <2>2, <2>3, <2>4, <2>5, <2>6 DEF DriverStep
<1>3. ASSUME NEW c \in Chats,
             \/ QueueBegin(c) \/ StreamFails(c) \/ TurnRefused(c)
             \/ TurnAnswers(c) \/ TurnFails(c) \/ SafePoint(c)
      PROVE  SteerInv' /\ SteerReachesRunner'
  <2>1. CASE QueueBegin(c)  BY <2>1 DEF QueueBegin
  <2>2. CASE StreamFails(c)  BY <2>2 DEF StreamFails
  <2>3. CASE TurnRefused(c)  BY <2>3 DEF TurnRefused
  <2>4. CASE TurnAnswers(c)  BY <2>4 DEF TurnAnswers
  <2>5. CASE TurnFails(c)  BY <2>5 DEF TurnFails
  <2>6. CASE SafePoint(c)  BY <2>6 DEF SafePoint
  <2> QED
    BY <1>3, <2>1, <2>2, <2>3, <2>4, <2>5, <2>6
<1>4. ASSUME NEW how \in {"followup", "steering"}, Enqueue(how) PROVE SteerInv' /\ SteerReachesRunner'
  <2> DEFINE m == accepted + 1
  <2>1. /\ UNCHANGED <<pc, turnVars>> /\ accepted' = m
        /\ steerer' = [steerer EXCEPT ![m] = IF how = "steering" THEN "mark" ELSE "done"]
    BY <1>4 DEF Enqueue
  <2>2. m \in Messages /\ m \notin aimed /\ \A x \in Messages : x <= accepted => x <= m
    BY <1>4 DEF Enqueue, Messages
  <2> HIDE DEF m
  <2>3. SteerInv'
    <3>1. aimed' \subseteq steeredBy' /\ \A x \in aimed' : steerer'[x] = "call"
      BY <2>1, <2>2
    <3>2. \A x \in Messages : steerer'[x] # "idle" => x <= accepted'
      BY <2>1, <2>2 DEF m, Messages
    <3> QED
      BY <3>1, <3>2
  <2>4. SteerReachesRunner'
    BY <2>1, <2>2
  <2> QED
    BY <2>3, <2>4
<1>5. ASSUME NEW m \in Messages, SteerMark(m) PROVE SteerInv' /\ SteerReachesRunner'
  BY <1>5 DEF SteerMark
<1>6. ASSUME NEW m \in Messages, SteerCall(m) PROVE SteerInv' /\ SteerReachesRunner'
  <2>1. /\ aimed' = aimed \ {m} /\ steerer' = [steerer EXCEPT ![m] = "done"]
        /\ steered' = (steered \/ m \in aimed)
        /\ UNCHANGED <<pc, active, steeredBy, accepted>>
    BY <1>6 DEF SteerCall
  <2>2. SteerInv'
    <3>1. steerer[m] # "idle"
      BY <1>6 DEF SteerCall
    <3> QED
      BY <2>1, <3>1
  <2>3. SteerReachesRunner'
    <3>1. CASE m \in aimed
      BY <2>1, <3>1
    <3>2. CASE m \notin aimed
      <4>1. (steered' <=> steered) /\ aimed' = aimed
        BY <2>1, <3>2
      <4>2. \A x \in aimed : steerer'[x] = steerer[x]
        BY <2>1, <3>2
      <4> QED
        BY <2>1, <4>1, <4>2
    <3> QED
      BY <3>1, <3>2
  <2> QED
    BY <2>2, <2>3
<1>7. CASE CancelSession \/ StopClear
  BY <1>7 DEF CancelSession, StopClear
<1>8. CASE CompressCheck \/ CompressBegin \/ CompressEnd
  BY <1>8 DEF CompressCheck, CompressBegin, CompressEnd, Take, Release
<1> QED
  BY <1>1, <1>2, <1>3, <1>4, <1>5, <1>6, <1>7, <1>8 DEF Next

-----------------------------------------------------------------------------
(* The theorems *)

LEMMA Initially == Init => IInv
<1> SUFFICES ASSUME Init PROVE IInv
  OBVIOUS
<1>1. TypeOK
  <2>1. items \in Seq(Messages) /\ Len(items) <= MaxQueued
    BY ChatBounds DEF Init
  <2>2. current \in [Chats -> 0 .. MaxMessages] /\ accepted \in 0 .. MaxMessages
    BY ChatBounds DEF Init
  <2>3. pc \in [Chats -> DriverPC]
    BY DEF Init, DriverPC
  <2>4. mode \in [Messages -> {"none", "followup", "steering"}]
    BY DEF Init
  <2>5. fate \in [Messages -> {"new", "queued", "started", "discarded"}]
    BY DEF Init
  <2>6. steerer \in [Messages -> {"idle", "mark", "call", "done"}]
    BY DEF Init
  <2> QED
    BY <2>1, <2>2, <2>3, <2>4, <2>5, <2>6 DEF Init, TypeOK, Holders
<1>2. OneTurnAtATime
  BY ChatBounds DEF Init, OneTurnAtATime
<1>3. QueueInv /\ QueueOrdered /\ NoMessageLost /\ StoppedQueueStaysEmpty
  BY NoElements DEF Init, QueueInv, QueueOrdered, NoMessageLost, StoppedQueueStaysEmpty
<1>4. SteerInv /\ SteerReachesRunner
  BY DEF Init, SteerInv, SteerReachesRunner
<1> QED
  BY <1>1, <1>2, <1>3, <1>4 DEF IInv

\* The types, the two maps and the queue together are an invariant of chatQueue,
\* Server.chat and Runtime.
THEOREM Invariance == Spec => []IInv
<1>1. ASSUME IInv, [Next]_vars PROVE IInv'
  BY <1>1, TypingStep, TurnStep, QueueStep, SteerStep DEF IInv, Queue
<1> QED
  BY <1>1, Initially, PTL DEF Spec

\* Runtime.active names the turn or the compression that is under way, and only
\* the driver of the conversation runs turns: never do two of them work on one
\* history.
THEOREM OneTurn == Spec => []OneTurnAtATime
<1>1. IInv => OneTurnAtATime
  BY DEF IInv
<1> QED
  BY <1>1, Invariance, PTL

\* chatMessageQueue.enqueue keeps steering messages in front of the others and
\* each kind in the order of its acceptance.
THEOREM Ordered == Spec => []QueueOrdered
<1>1. IInv => QueueOrdered
  BY DEF IInv
<1> QED
  BY <1>1, Invariance, PTL

\* A message that was answered 202 stays in the queue until it is started or
\* discarded by a stop or an error.
THEOREM NothingLost == Spec => []NoMessageLost
<1>1. IInv => NoMessageLost
  BY DEF IInv
<1> QED
  BY <1>1, Invariance, PTL

\* After a stop or an error cleared the queue nothing is queued for its driver.
THEOREM StopsEmpty == Spec => []StoppedQueueStaysEmpty
<1>1. IInv => StoppedQueueStaysEmpty
  BY DEF IInv
<1> QED
  BY <1>1, Invariance, PTL

\* SteerSession and registerSteerCancel forget no request to steer: whichever of
\* them comes second tells the runner, and a late call steers no later turn.
THEOREM SteeringReaches == Spec => []SteerReachesRunner
<1>1. IInv => SteerReachesRunner
  BY DEF IInv
<1> QED
  BY <1>1, Invariance, PTL
=============================================================================
