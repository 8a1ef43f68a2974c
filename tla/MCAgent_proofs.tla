--------------------------- MODULE MCAgent_proofs ---------------------------
(***************************************************************************)
(* Proofs about the run MCAgent and the components as it instantiates      *)
(* them: the event streams of conversations, for any number of clients,    *)
(* runs and events and any size of a subscriber's channel; the journal of  *)
(* tool calls, for any calls, kinds of them and turns; explanations of     *)
(* approvals, web searches and MCP clients, for any approvals, callers,    *)
(* requests and limits; what a turn shows and stores, for any letters,     *)
(* markers that are not empty and bounds on its outputs and their length.  *)
(***************************************************************************)
EXTENDS MCAgent, SequenceTheorems, FiniteSetTheorems, WellFoundedInduction, TLAPS

-----------------------------------------------------------------------------
(* Sequences of consecutive numbers *)

\* One more event goes to the end.
LEMMA ChatFollowsAppend ==
  ASSUME NEW s \in Seq(E!Number), NEW n \in Nat, E!Follows(s, n), n + Len(s) + 1 \in E!Number
  PROVE  LET t == Append(s, n + Len(s) + 1) IN
         t \in Seq(E!Number) /\ Len(t) = Len(s) + 1 /\ E!Follows(t, n)
<1> DEFINE e == n + Len(s) + 1
           t == Append(s, e)
<1>1. /\ t \in Seq(E!Number) /\ Len(t) = Len(s) + 1
      /\ \A i \in 1 .. Len(s) : t[i] = s[i]
      /\ t[Len(s) + 1] = e
  BY AppendProperties
<1> HIDE DEF t
<1>2. Len(s) \in Nat
  BY LenProperties
<1>3. ASSUME NEW i \in 1 .. Len(t) PROVE t[i] = n + i
  <2>1. CASE i \in 1 .. Len(s)
    BY <1>1, <2>1 DEF E!Follows
  <2>2. CASE i = Len(s) + 1
    BY <1>1, <1>2, <2>2
  <2> QED
    BY <1>1, <1>2, <2>1, <2>2
<1>4. E!Follows(t, n)
  BY <1>3 DEF E!Follows
<1> QED
  BY <1>1, <1>4 DEF t

\* The first event is the one after the cursor, and the rest follows it.
LEMMA ChatFollowsTail ==
  ASSUME NEW s \in Seq(E!Number), NEW n \in Nat, E!Follows(s, n), s # <<>>
  PROVE  Head(s) = n + 1 /\ E!Follows(Tail(s), n + 1)
<1>1. Len(s) \in Nat \ {0}
  BY EmptySeq
<1>2. /\ Tail(s) \in Seq(E!Number) /\ Len(Tail(s)) = Len(s) - 1
      /\ \A i \in 1 .. Len(Tail(s)) : Tail(s)[i] = s[i + 1]
  BY HeadTailProperties
<1>3. Head(s) = s[1]
  BY <1>1
<1>4. ASSUME NEW i \in 1 .. Len(Tail(s)) PROVE Tail(s)[i] = (n + 1) + i
  <2>1. i + 1 \in 1 .. Len(s)
    BY <1>1, <1>2
  <2>2. s[i + 1] = n + (i + 1)
    BY <2>1 DEF E!Follows
  <2> QED
    BY <1>2, <2>2
<1> QED
  BY <1>1, <1>3, <1>4 DEF E!Follows

\* What follows n, followed by what follows that, follows n.
LEMMA ChatFollowsConcat ==
  ASSUME NEW s \in Seq(E!Number), NEW t \in Seq(E!Number), NEW n \in Nat,
         E!Follows(s, n), E!Follows(t, n + Len(s))
  PROVE  Len(s \o t) = Len(s) + Len(t) /\ E!Follows(s \o t, n)
<1>1. /\ Len(s \o t) = Len(s) + Len(t)
      /\ \A i \in 1 .. Len(s) + Len(t) : (s \o t)[i] = IF i <= Len(s) THEN s[i] ELSE t[i - Len(s)]
  BY ConcatProperties
<1>2. Len(s) \in Nat /\ Len(t) \in Nat
  BY LenProperties
<1>3. ASSUME NEW i \in 1 .. Len(s) + Len(t) PROVE (s \o t)[i] = n + i
  <2>1. CASE i <= Len(s)
    BY <1>1, <1>2, <2>1 DEF E!Follows
  <2>2. CASE i > Len(s)
    <3>1. i - Len(s) \in 1 .. Len(t)
      BY <1>2, <2>2
    <3>2. t[i - Len(s)] = n + Len(s) + (i - Len(s))
      BY <3>1 DEF E!Follows
    <3> QED
      BY <1>1, <1>2, <2>2, <3>2
  <2> QED
    BY <1>2, <2>1, <2>2
<1> QED
  BY <1>1, <1>3 DEF E!Follows

\* No event follows anything.
LEMMA ChatFollowsNone == ASSUME NEW n PROVE E!Follows(<<>>, n) /\ Len(<<>>) = 0
  BY EmptySeq DEF E!Follows

-----------------------------------------------------------------------------
(* The hub *)

\* An event goes to the stream and into the channels that have room for it.
LEMMA ChatPublishStep ==
  ASSUME E!IInv, NEW terminal \in BOOLEAN, E!Publish(terminal), UNCHANGED E!clients
  PROVE  /\ exists' \in BOOLEAN /\ ended' \in BOOLEAN /\ gen' \in Nat /\ count' \in 0 .. MaxEvents
         /\ chatChannel' \in [Readers -> Seq(E!Number)] /\ chatOpen' \in [Readers -> BOOLEAN]
         /\ E!SubscribersMissNothing' /\ E!StreamInv' /\ E!CursorInv'
<1> USE StreamBounds DEF E!IInv, E!TypeOK, E!Number
<1>1. /\ E!Fresh \/ count < MaxEvents
      /\ exists' = TRUE /\ ended' = terminal
      /\ gen' = IF E!Fresh THEN gen + 1 ELSE gen
      /\ count' = IF E!Fresh THEN 1 ELSE count + 1
  BY DEF E!Publish
<1>2. /\ chatChannel' = [r \in Readers |->
                      IF chatOpen[r] /\ ~E!Full(r) THEN Append(chatChannel[r], count')
                        ELSE chatChannel[r]]
      /\ chatOpen' = [r \in Readers |-> chatOpen[r] /\ ~E!Full(r) /\ ~terminal]
  BY DEF E!Publish, E!Deliver
<1>3. UNCHANGED <<reader, replay, done, on, cursor, cursorOf, seen>>
  BY DEF E!clients
<1>4. gen' \in Nat /\ count' \in E!Number /\ gen' >= gen /\ gen' > 0
  BY <1>1 DEF E!Fresh, E!StreamInv
<1>5. chatOpen' \in [Readers -> BOOLEAN]
  BY <1>2
<1>6. chatChannel' \in [Readers -> Seq(E!Number)]
  <2>1. ASSUME NEW r \in Readers PROVE chatChannel'[r] \in Seq(E!Number)
    <3>1. Append(chatChannel[r], count') \in Seq(E!Number)
      BY <1>4, AppendProperties
    <3> QED
      BY <1>2, <3>1
  <2> QED
    BY <1>2, <2>1
<1>7. E!SubscribersMissNothing'
  BY <1>3 DEF E!SubscribersMissNothing
<1>8. ASSUME NEW r \in Readers,
             chatOpen'[r] PROVE chatOpen[r] /\ ~E!Full(r) /\ ~terminal /\ ~E!Fresh
  BY <1>2, <1>8 DEF E!StreamInv, E!Fresh
<1>9. E!StreamInv'
  <2>1. ASSUME NEW r \in Readers, reader[r] = "away" PROVE ~chatOpen'[r] /\ chatChannel'[r] = <<>>
    BY <1>2, <2>1 DEF E!StreamInv
  <2>2. ASSUME NEW r \in Readers, chatOpen'[r] PROVE exists' /\ ~ended' /\ on[r] = gen'
    BY <1>1, <1>8, <2>2 DEF E!StreamInv
  <2>3. ASSUME NEW r \in Readers PROVE on[r] <= gen'
    BY <1>4 DEF E!StreamInv
  <2> QED
    BY <1>3, <1>4, <2>1, <2>2, <2>3 DEF E!StreamInv
<1>10. E!CursorInv'
  <2> SUFFICES ASSUME NEW r \in Readers, on[r] = cursorOf[r]
               PROVE  /\ E!Follows(chatChannel'[r], cursor[r] + Len(replay[r]))
                      /\ exists' /\ on[r] = gen'
                           => cursor[r] + Len(replay[r]) + Len(chatChannel'[r]) <= count'
                      /\ chatOpen'[r] => cursor[r] + Len(replay[r]) + Len(chatChannel'[r]) = count'
    BY <1>3 DEF E!CursorInv
  <2> DEFINE n == cursor[r] + Len(replay[r])
  <2>1. n \in Nat /\ Len(chatChannel[r]) \in Nat
    BY LenProperties
  <2>2. E!Follows(chatChannel[r], n)
    BY DEF E!CursorInv
  <2>3. exists /\ on[r] = gen => n + Len(chatChannel[r]) <= count
    BY DEF E!CursorInv
  <2>4. CASE chatOpen[r] /\ ~E!Full(r)
    <3>1. ~E!Fresh /\ count' = count + 1 /\ n + Len(chatChannel[r]) = count
      BY <1>1, <2>4 DEF E!StreamInv, E!CursorInv, E!Fresh
    <3>2. chatChannel'[r] = Append(chatChannel[r], n + Len(chatChannel[r]) + 1)
      BY <1>2, <2>4, <3>1
    <3>3. n + Len(chatChannel[r]) + 1 \in E!Number
      BY <1>4, <3>1
    <3> HIDE DEF n
    <3>4. E!Follows(chatChannel'[r], n) /\ Len(chatChannel'[r]) = Len(chatChannel[r]) + 1
      BY <2>1, <2>2, <3>2, <3>3, ChatFollowsAppend
    <3>5. n + Len(chatChannel'[r]) = count'
      BY <2>1, <3>1, <3>4
    <3> QED
      BY <1>4, <3>4, <3>5 DEF n
  <2>5. CASE ~(chatOpen[r] /\ ~E!Full(r))
    <3>1. chatChannel'[r] = chatChannel[r] /\ ~chatOpen'[r]
      BY <1>2, <2>5
    <3>2. ASSUME on[r] = gen' PROVE exists /\ on[r] = gen /\ count' = count + 1
      BY <1>1, <3>2 DEF E!StreamInv, E!Fresh
    <3>3. count \in Nat
      OBVIOUS
    <3> HIDE DEF n
    <3>4. on[r] = gen' => n + Len(chatChannel[r]) <= count'
      BY <2>1, <2>3, <3>2, <3>3
    <3> QED
      BY <2>2, <3>1, <3>4 DEF n
  <2> QED
    BY <2>4, <2>5
<1> QED
  BY <1>1, <1>4, <1>5, <1>6, <1>7, <1>9, <1>10

\* The stream is forgotten, its channels are closed.
LEMMA ChatDeleteStep ==
  ASSUME E!IInv, E!DeleteStream, UNCHANGED E!clients
  PROVE  /\ exists' \in BOOLEAN /\ ended' \in BOOLEAN /\ gen' \in Nat /\ count' \in 0 .. MaxEvents
         /\ chatChannel' \in [Readers -> Seq(E!Number)] /\ chatOpen' \in [Readers -> BOOLEAN]
         /\ E!SubscribersMissNothing' /\ E!StreamInv' /\ E!CursorInv'
<1> USE StreamBounds DEF E!IInv, E!TypeOK
<1>1. /\ exists' = FALSE /\ count' = 0 /\ ended' = FALSE
      /\ chatOpen' = [r \in Readers |-> FALSE] /\ gen' = gen /\ chatChannel' = chatChannel
  BY DEF E!DeleteStream
<1>2. UNCHANGED <<reader, replay, done, on, cursor, cursorOf, seen>>
  BY DEF E!clients
<1>3. E!SubscribersMissNothing'
  BY <1>2 DEF E!SubscribersMissNothing
<1>4. E!StreamInv'
  BY <1>1, <1>2 DEF E!StreamInv
<1>5. E!CursorInv'
  BY <1>1, <1>2 DEF E!CursorInv
<1>6. exists' \in BOOLEAN /\ ended' \in BOOLEAN /\ count' \in 0 .. MaxEvents
  <2>1. count' \in 0 .. MaxEvents
    BY <1>1
  <2>2. exists' \in BOOLEAN /\ ended' \in BOOLEAN
    BY <1>1, Zenon
  <2> QED
    BY <2>1, <2>2
<1>7. chatOpen' \in [Readers -> BOOLEAN]
  BY <1>1
<1>8. gen' \in Nat /\ chatChannel' \in [Readers -> Seq(E!Number)]
  BY <1>1
<1> QED
  BY <1>3, <1>4, <1>5, <1>6, <1>7, <1>8

-----------------------------------------------------------------------------
(* The readers *)

\* A client that leaves is not subscribed any more.
LEMMA ChatLeaveStep ==
  ASSUME E!IInv, NEW r \in Readers, E!Leave(r),
         UNCHANGED <<exists, gen, count, ended, done, on, cursor, cursorOf, seen>>
  PROVE  /\ chatChannel' \in [Readers -> Seq(E!Number)] /\ chatOpen' \in [Readers -> BOOLEAN]
         /\ replay' \in [Readers -> Seq(E!Number)]
         /\ reader' \in [Readers -> {"away", "replay", "live"}]
         /\ E!SubscribersMissNothing' /\ E!StreamInv' /\ E!CursorInv'
<1> USE DEF E!IInv, E!TypeOK
<1>1. /\ reader' = [reader EXCEPT ![r] = "away"] /\ chatOpen' = [chatOpen EXCEPT ![r] = FALSE]
      /\ chatChannel' = [chatChannel EXCEPT ![r] = <<>>] /\ replay' = [replay EXCEPT ![r] = <<>>]
  BY DEF E!Leave
<1>2. <<>> \in Seq(E!Number)
  BY EmptySeq
<1>3. /\ chatChannel' \in [Readers -> Seq(E!Number)] /\ chatOpen' \in [Readers -> BOOLEAN]
      /\ replay' \in [Readers -> Seq(E!Number)]
      /\ reader' \in [Readers -> {"away", "replay", "live"}]
  BY <1>1, <1>2
<1>4. E!SubscribersMissNothing'
  BY DEF E!SubscribersMissNothing
<1>5. E!StreamInv'
  BY <1>1 DEF E!StreamInv
<1>6. E!CursorInv'
  <2> SUFFICES ASSUME NEW q \in Readers, on[q] = cursorOf[q]
               PROVE  /\ E!Follows(replay'[q], cursor[q])
                      /\ E!Follows(chatChannel'[q], cursor[q] + Len(replay'[q]))
                      /\ exists /\ on[q] = gen
                           => cursor[q] + Len(replay'[q]) + Len(chatChannel'[q]) <= count
                      /\ chatOpen'[q] => cursor[q] + Len(replay'[q]) + Len(chatChannel'[q]) = count
    BY DEF E!CursorInv
  <2>1. CASE q = r
    <3>1. replay'[q] = <<>> /\ chatChannel'[q] = <<>> /\ ~chatOpen'[q]
      BY <1>1, <2>1
    <3>2. Len(replay[q]) \in Nat /\ Len(chatChannel[q]) \in Nat
      BY LenProperties
    <3>3. exists /\ on[q] = gen => cursor[q] + Len(replay[q]) + Len(chatChannel[q]) <= count
      BY DEF E!CursorInv
    <3>4. exists /\ on[q] = gen => cursor[q] + 0 + 0 <= count
      BY <3>2, <3>3
    <3> QED
      BY <3>1, <3>4, ChatFollowsNone
  <2>2. CASE q # r
    <3>1. replay'[q] = replay[q] /\ chatChannel'[q] = chatChannel[q] /\ chatOpen'[q] = chatOpen[q]
      BY <1>1, <2>2
    <3> QED
      BY <3>1 DEF E!CursorInv
  <2> QED
    BY <2>1, <2>2
<1> QED
  BY <1>3, <1>4, <1>5, <1>6

\* A client is given event n, the one that its cursor expects if it is of its stream.
LEMMA ChatGotStep ==
  ASSUME E!IInv, NEW r \in Readers, NEW n \in E!Number, E!Got(r, n), on' = on,
         reader[r] # "away", on[r] = cursorOf[r] => n = cursor[r] + 1
  PROVE  /\ cursor' \in [Readers -> 0 .. MaxEvents] /\ seen' \in [Readers -> SUBSET E!Number]
         /\ cursorOf' \in [Readers -> Nat]
         /\ \A q \in Readers : cursorOf'[q] <= on[q]
         /\ \A q \in Readers : on[q] = cursorOf'[q] => on[q] = cursorOf[q]
         /\ \A q \in Readers : q # r => cursor'[q] = cursor[q]
         /\ on[r] = cursorOf[r] => cursor'[r] = cursor[r] + 1
         /\ E!SubscribersMissNothing'
<1> USE StreamBounds DEF E!IInv, E!TypeOK, E!Number
<1>1. /\ cursor' = [cursor EXCEPT ![r] = IF n > @ THEN n ELSE @]
      /\ cursorOf' = [cursorOf EXCEPT ![r] = IF on[r] = @ THEN @ ELSE 0]
      /\ seen' = [seen EXCEPT ![r] = @ \cup {n}]
  BY DEF E!Got
<1>2. on[r] > 0
  BY DEF E!StreamInv
<1>3. /\ cursor' \in [Readers -> 0 .. MaxEvents] /\ seen' \in [Readers -> SUBSET E!Number]
      /\ cursorOf' \in [Readers -> Nat]
  BY <1>1
<1>4. \A q \in Readers : cursorOf'[q] <= on[q]
  BY <1>1 DEF E!StreamInv
<1>5. \A q \in Readers : on[q] = cursorOf'[q] => on[q] = cursorOf[q]
  BY <1>1, <1>2
<1>6. \A q \in Readers : q # r => cursor'[q] = cursor[q] /\ seen'[q] = seen[q]
  BY <1>1
<1>7. on[r] = cursorOf[r] => cursor'[r] = cursor[r] + 1
  BY <1>1
<1>8. ASSUME NEW q \in Readers, on[q] = cursorOf'[q] PROVE seen'[q] = 1 .. cursor'[q]
  <2>1. seen[q] = 1 .. cursor[q]
    BY <1>5, <1>8 DEF E!SubscribersMissNothing
  <2>2. CASE q = r
    <3>1. n = cursor[r] + 1 /\ cursor'[r] = cursor[r] + 1 /\ seen'[r] = seen[r] \cup {n}
      BY <1>1, <1>5, <1>7, <1>8, <2>2
    <3> QED
      BY <2>1, <2>2, <3>1
  <2>3. CASE q # r
    BY <1>6, <2>1, <2>3
  <2> QED
    BY <2>2, <2>3
<1>9. E!SubscribersMissNothing'
  BY <1>8 DEF E!SubscribersMissNothing
<1> QED
  BY <1>3, <1>4, <1>5, <1>6, <1>7, <1>9

LEMMA ChatReplayNextStep ==
  ASSUME E!IInv, NEW r \in Readers, E!ReplayNext(r)
  PROVE  E!IInv'
<1> USE DEF E!IInv, E!TypeOK
<1>1. /\ reader[r] = "replay" /\ replay[r] # <<>> /\ E!Got(r, Head(replay[r]))
      /\ replay' = [replay EXCEPT ![r] = Tail(@)]
      /\ UNCHANGED <<chat, driver, runs, announcing, exists, gen, count, ended, chatChannel,
         chatOpen,
                     reader, done, on, deleter>>
  BY DEF E!ReplayNext, E!hub
<1>2. /\ Head(replay[r]) \in E!Number /\ Tail(replay[r]) \in Seq(E!Number)
      /\ Len(Tail(replay[r])) = Len(replay[r]) - 1
  BY <1>1, HeadTailProperties
<1>3. ASSUME on[r] = cursorOf[r]
      PROVE  Head(replay[r]) = cursor[r] + 1 /\ E!Follows(Tail(replay[r]), cursor[r] + 1)
  <2>1. E!Follows(replay[r], cursor[r]) /\ cursor[r] \in Nat
    BY <1>3 DEF E!CursorInv
  <2> QED
    BY <1>1, <2>1, ChatFollowsTail
<1>4. /\ cursor' \in [Readers -> 0 .. MaxEvents] /\ seen' \in [Readers -> SUBSET E!Number]
      /\ cursorOf' \in [Readers -> Nat]
      /\ \A q \in Readers : cursorOf'[q] <= on[q]
      /\ \A q \in Readers : on[q] = cursorOf'[q] => on[q] = cursorOf[q]
      /\ \A q \in Readers : q # r => cursor'[q] = cursor[q]
      /\ on[r] = cursorOf[r] => cursor'[r] = cursor[r] + 1
      /\ E!SubscribersMissNothing'
  BY <1>1, <1>2, <1>3, ChatGotStep
<1>5. replay' \in [Readers -> Seq(E!Number)]
  BY <1>1, <1>2
<1>6. E!TypeOK'
  BY <1>1, <1>4, <1>5
<1>7. E!StreamInv'
  BY <1>1, <1>4 DEF E!StreamInv
<1>8. E!CursorInv'
  <2> SUFFICES ASSUME NEW q \in Readers, on[q] = cursorOf[q]
               PROVE  /\ E!Follows(replay'[q], cursor'[q])
                      /\ E!Follows(chatChannel[q], cursor'[q] + Len(replay'[q]))
                      /\ exists /\ on[q] = gen
                           => cursor'[q] + Len(replay'[q]) + Len(chatChannel[q]) <= count
                      /\ chatOpen[q] => cursor'[q] + Len(replay'[q]) + Len(chatChannel[q]) = count
    BY <1>1, <1>4 DEF E!CursorInv
  <2>1. CASE q = r
    <3>1. replay'[r] = Tail(replay[r]) /\ cursor'[r] = cursor[r] + 1 /\ Len(replay[r]) \in Nat
      BY <1>1, <1>4, <2>1, LenProperties
    <3>2. cursor'[r] + Len(replay'[r]) = cursor[r] + Len(replay[r])
      BY <1>2, <3>1
    <3> QED
      BY <1>3, <2>1, <3>1, <3>2 DEF E!CursorInv
  <2>2. CASE q # r
    BY <1>1, <1>4, <2>2 DEF E!CursorInv
  <2> QED
    BY <2>1, <2>2
<1> QED
  BY <1>4, <1>6, <1>7, <1>8

LEMMA ChatReceiveStep ==
  ASSUME E!IInv, NEW r \in Readers, E!Receive(r)
  PROVE  E!IInv'
<1> USE DEF E!IInv, E!TypeOK
<1>1. /\ reader[r] = "live" /\ chatChannel[r] # <<>> /\ E!Got(r, Head(chatChannel[r]))
      /\ chatChannel' = [chatChannel EXCEPT ![r] = Tail(@)]
      /\ UNCHANGED <<chat, driver, runs, announcing, exists, gen, count, ended, chatOpen, reader,
                     replay, done, on, deleter>>
  BY DEF E!Receive
<1>2. /\ Head(chatChannel[r]) \in E!Number /\ Tail(chatChannel[r]) \in Seq(E!Number)
      /\ Len(Tail(chatChannel[r])) = Len(chatChannel[r]) - 1
  BY <1>1, HeadTailProperties
<1>3. replay[r] = <<>> /\ Len(replay[r]) = 0
  BY <1>1, EmptySeq DEF E!StreamInv
<1>4. ASSUME on[r] = cursorOf[r]
      PROVE  Head(chatChannel[r]) = cursor[r] + 1 /\ E!Follows(Tail(chatChannel[r]), cursor[r] + 1)
  <2>1. E!Follows(chatChannel[r], cursor[r]) /\ cursor[r] \in Nat
    BY <1>3, <1>4 DEF E!CursorInv
  <2> QED
    BY <1>1, <2>1, ChatFollowsTail
<1>5. /\ cursor' \in [Readers -> 0 .. MaxEvents] /\ seen' \in [Readers -> SUBSET E!Number]
      /\ cursorOf' \in [Readers -> Nat]
      /\ \A q \in Readers : cursorOf'[q] <= on[q]
      /\ \A q \in Readers : on[q] = cursorOf'[q] => on[q] = cursorOf[q]
      /\ \A q \in Readers : q # r => cursor'[q] = cursor[q]
      /\ on[r] = cursorOf[r] => cursor'[r] = cursor[r] + 1
      /\ E!SubscribersMissNothing'
  BY <1>1, <1>2, <1>4, ChatGotStep
<1>6. chatChannel' \in [Readers -> Seq(E!Number)]
  BY <1>1, <1>2
<1>7. E!TypeOK'
  BY <1>1, <1>5, <1>6
<1>8. E!StreamInv'
  BY <1>1, <1>5 DEF E!StreamInv
<1>9. E!CursorInv'
  <2> SUFFICES ASSUME NEW q \in Readers, on[q] = cursorOf[q]
               PROVE  /\ E!Follows(replay[q], cursor'[q])
                      /\ E!Follows(chatChannel'[q], cursor'[q] + Len(replay[q]))
                      /\ exists /\ on[q] = gen
                           => cursor'[q] + Len(replay[q]) + Len(chatChannel'[q]) <= count
                      /\ chatOpen[q] => cursor'[q] + Len(replay[q]) + Len(chatChannel'[q]) = count
    BY <1>1, <1>5 DEF E!CursorInv
  <2>1. CASE q = r
    <3>1. chatChannel'[r] = Tail(chatChannel[r]) /\ cursor'[r] = cursor[r] + 1
            /\ Len(chatChannel[r]) \in Nat
      BY <1>1, <1>5, <2>1, LenProperties
    <3>2. cursor'[r] + Len(replay[r]) + Len(chatChannel'[r]) =
            cursor[r] + Len(replay[r]) + Len(chatChannel[r])
      BY <1>2, <1>3, <3>1
    <3>3. cursor'[r] + Len(replay[r]) = cursor[r] + 1
      BY <1>3, <3>1
    <3>4. E!Follows(replay[r], cursor'[r])
      BY <1>3, ChatFollowsNone
    <3> QED
      BY <1>4, <2>1, <3>1, <3>2, <3>3, <3>4 DEF E!CursorInv
  <2>2. CASE q # r
    BY <1>1, <1>5, <2>2 DEF E!CursorInv
  <2> QED
    BY <2>1, <2>2
<1> QED
  BY <1>5, <1>7, <1>8, <1>9

\* A client comes, at the beginning or with its cursor, and is given what it missed.
LEMMA ChatSubscribeStep ==
  ASSUME E!IInv, NEW r \in Readers, NEW after \in {0, cursor[r]}, E!Subscribe(r, after)
  PROVE  E!IInv'
<1> USE StreamBounds DEF E!IInv, E!TypeOK, E!Number
<1> DEFINE current == IF exists THEN gen ELSE gen + 1
           events  == IF exists THEN count ELSE 0
           missing == IF after + 1 > events THEN 0 ELSE events - (after + 1) + 1
           missed  == [i \in 1 .. missing |-> after + 1 + i - 1]
<1>1. /\ reader[r] = "away"
      /\ exists' = TRUE /\ gen' = current /\ count' = events /\ ended' = (exists /\ ended)
      /\ replay' = [replay EXCEPT ![r] = missed]
      /\ done' = [done EXCEPT ![r] = exists /\ ended]
      /\ chatOpen' = [chatOpen EXCEPT ![r] = ~(exists /\ ended)]
      /\ chatChannel' = [chatChannel EXCEPT ![r] = <<>>]
      /\ reader' = [reader EXCEPT ![r] = "replay"]
      /\ on' = [on EXCEPT ![r] = current]
      /\ cursor' = [cursor EXCEPT ![r] = after]
      /\ cursorOf' = [cursorOf EXCEPT ![r] = IF after = 0 THEN current ELSE @]
      /\ seen' = [seen EXCEPT ![r] = IF after = 0 THEN {} ELSE @]
      /\ UNCHANGED <<chat, driver, runs, announcing, deleter>>
  BY DEF E!Subscribe, E!Missed
<1>2. /\ after \in 0 .. MaxEvents /\ events \in 0 .. MaxEvents /\ current \in Nat
      /\ current > 0 /\ current >= gen
  BY DEF E!StreamInv
<1>3. missing \in Nat /\ (after <= events => after + missing = events)
  BY <1>2
<1>4. missed \in Seq(E!Number) /\ Len(missed) = missing /\ E!Follows(missed, after)
  <2>1. missed \in [1 .. missing -> E!Number]
    BY <1>2
  <2>2. missed \in Seq(E!Number) /\ Len(missed) = missing
    BY <1>3, <2>1
  <2>3. \A i \in 1 .. missing : missed[i] = after + i
    BY <1>2, <1>3
  <2> QED
    BY <2>2, <2>3 DEF E!Follows
<1> HIDE DEF missed, missing
<1>5. <<>> \in Seq(E!Number) /\ Len(<<>>) = 0
  BY EmptySeq
<1>6. E!TypeOK'
  <2>1. replay' \in [Readers -> Seq(E!Number)] /\ chatChannel' \in [Readers -> Seq(E!Number)]
    BY <1>1, <1>4, <1>5
  <2>2. /\ chatOpen' \in [Readers -> BOOLEAN] /\ done' \in [Readers -> BOOLEAN]
        /\ reader' \in [Readers -> {"away", "replay", "live"}]
    <3>1. (exists /\ ended) \in BOOLEAN /\ (~(exists /\ ended)) \in BOOLEAN
      BY Zenon
    <3> QED
      BY <1>1, <3>1
  <2>3. on' \in [Readers -> Nat] /\ cursorOf' \in [Readers -> Nat]
    BY <1>1, <1>2
  <2>4. cursor' \in [Readers -> 0 .. MaxEvents]
    BY <1>1, <1>2
  <2>5. seen' \in [Readers -> SUBSET E!Number]
    BY <1>1
  <2>6. exists' \in BOOLEAN /\ ended' \in BOOLEAN /\ gen' \in Nat /\ count' \in 0 .. MaxEvents
    BY <1>1, <1>2
  <2> QED
    BY <1>1, <2>1, <2>2, <2>3, <2>4, <2>5, <2>6
\* The others are subscribed to a stream only if there is one, which then stays.
<1>7. ASSUME NEW q \in Readers, q # r
      PROVE  /\ replay'[q] = replay[q] /\ chatOpen'[q] = chatOpen[q]
             /\ chatChannel'[q] = chatChannel[q]
             /\ reader'[q] = reader[q] /\ on'[q] = on[q] /\ cursor'[q] = cursor[q]
             /\ cursorOf'[q] = cursorOf[q] /\ seen'[q] = seen[q]
  BY <1>1, <1>7
<1>8. /\ replay'[r] = missed /\ chatOpen'[r] = ~(exists /\ ended) /\ chatChannel'[r] = <<>>
      /\ reader'[r] = "replay" /\ on'[r] = current /\ cursor'[r] = after
      /\ cursorOf'[r] = (IF after = 0 THEN current ELSE cursorOf[r])
      /\ seen'[r] = (IF after = 0 THEN {} ELSE seen[r])
  BY <1>1
\* A cursor that is kept is of the stream only if the client read that one before.
<1>9. ASSUME on'[r] = cursorOf'[r], after # 0
      PROVE  exists /\ on[r] = cursorOf[r] /\ on[r] = gen /\ after = cursor[r]
  <2>1. on[r] <= gen /\ cursorOf[r] <= on[r] /\ cursorOf[r] = current
    BY <1>8, <1>9 DEF E!StreamInv
  <2> QED
    BY <1>9, <2>1
<1>10. E!StreamInv'
  <2>1. ASSUME NEW q \in Readers
        PROVE  /\ on'[q] <= gen' /\ cursorOf'[q] <= on'[q]
               /\ reader'[q] = "away" => ~chatOpen'[q] /\ replay'[q] = <<>>
                    /\ chatChannel'[q] = <<>>
               /\ reader'[q] # "away" => on'[q] > 0
               /\ reader'[q] = "live" => replay'[q] = <<>>
               /\ chatOpen'[q] => exists' /\ ~ended' /\ on'[q] = gen'
    <3>1. CASE q = r
      <4>1. cursorOf'[r] <= on'[r]
        BY <1>2, <1>8 DEF E!StreamInv
      <4>2. chatOpen'[r] => exists' /\ ~ended' /\ on'[r] = gen'
        <5>1. chatOpen'[r] = ~(exists /\ ended) /\ ended' = (exists /\ ended) /\ exists' = TRUE
          BY <1>1, <1>8
        <5>2. on'[r] = gen'
          BY <1>1, <1>8
        <5> QED
          BY <5>1, <5>2, Zenon
      <4>3. on'[r] <= gen' /\ reader'[r] = "replay" /\ on'[r] > 0
        BY <1>1, <1>2, <1>8
      <4> QED
        BY <3>1, <4>1, <4>2, <4>3
    <3>2. CASE q # r
      BY <1>1, <1>2, <1>7, <3>2 DEF E!StreamInv
    <3> QED
      BY <3>1, <3>2
  <2> QED
    BY <1>1, <1>2, <2>1 DEF E!StreamInv
<1>11. E!SubscribersMissNothing'
  <2>1. ASSUME NEW q \in Readers, on'[q] = cursorOf'[q] PROVE seen'[q] = 1 .. cursor'[q]
    <3>1. CASE q = r /\ after = 0
      <4>1. seen'[q] = {} /\ cursor'[q] = 0
        BY <1>8, <3>1
      <4>2. 1 .. 0 = {}
        OBVIOUS
      <4> QED
        BY <4>1, <4>2
    <3>2. CASE q = r /\ after # 0
      BY <1>8, <1>9, <2>1, <3>2 DEF E!SubscribersMissNothing
    <3>3. CASE q # r
      BY <1>7, <2>1, <3>3 DEF E!SubscribersMissNothing
    <3> QED
      BY <3>1, <3>2, <3>3
  <2> QED
    BY <2>1 DEF E!SubscribersMissNothing
<1>12. E!CursorInv'
  <2> SUFFICES ASSUME NEW q \in Readers, on'[q] = cursorOf'[q]
               PROVE  /\ E!Follows(replay'[q], cursor'[q])
                      /\ E!Follows(chatChannel'[q], cursor'[q] + Len(replay'[q]))
                      /\ exists' /\ on'[q] = gen'
                           => cursor'[q] + Len(replay'[q]) + Len(chatChannel'[q]) <= count'
                      /\ chatOpen'[q] => cursor'[q] + Len(replay'[q]) + Len(chatChannel'[q])
                             = count'
    BY DEF E!CursorInv
  <2>1. CASE q = r
    <3>1. after <= events
      <4>1. CASE after = 0
        BY <1>2, <4>1
      <4>2. CASE after # 0
        <5>1. Len(replay[r]) \in Nat /\ Len(chatChannel[r]) \in Nat
          BY LenProperties
        <5>2. exists /\ after = cursor[r]
                /\ cursor[r] + Len(replay[r]) + Len(chatChannel[r]) <= count
          BY <1>9, <2>1, <4>2 DEF E!CursorInv
        <5> QED
          BY <1>2, <5>1, <5>2
      <4> QED
        BY <4>1, <4>2
    <3>2. after + missing + 0 = events
      BY <1>2, <1>3, <3>1
    <3>3. cursor'[r] + Len(replay'[r]) + Len(chatChannel'[r]) = count'
      BY <1>1, <1>4, <1>5, <1>8, <3>2
    <3>4. E!Follows(replay'[r], cursor'[r])
      BY <1>4, <1>8
    <3>5. E!Follows(chatChannel'[r], cursor'[r] + Len(replay'[r]))
      BY <1>8, ChatFollowsNone
    <3>6. count' <= count'
      BY <1>1, <1>2
    <3> QED
      BY <2>1, <3>3, <3>4, <3>5, <3>6
  <2>2. CASE q # r
    <3>1. /\ E!Follows(replay[q], cursor[q])
          /\ E!Follows(chatChannel[q], cursor[q] + Len(replay[q]))
          /\ exists /\ on[q] = gen => cursor[q] + Len(replay[q]) + Len(chatChannel[q]) <= count
          /\ chatOpen[q] => cursor[q] + Len(replay[q]) + Len(chatChannel[q]) = count
      BY <1>7, <2>2 DEF E!CursorInv
    <3>2. ASSUME on[q] = gen' PROVE exists /\ on[q] = gen /\ count' = count
      BY <1>1, <3>2 DEF E!StreamInv
    <3>3. chatOpen[q] => count' = count
      BY <1>1 DEF E!StreamInv
    <3> QED
      BY <1>7, <2>2, <3>1, <3>2, <3>3
  <2> QED
    BY <2>1, <2>2
<1> QED
  BY <1>6, <1>10, <1>11, <1>12

-----------------------------------------------------------------------------
(* The theorems *)

LEMMA ChatInitially == E!Init => E!IInv
<1> SUFFICES ASSUME E!Init PROVE E!IInv
  OBVIOUS
<1>1. <<>> \in Seq(E!Number)
  BY EmptySeq
<1>2. E!TypeOK
  <2>1. chatChannel \in [Readers -> Seq(E!Number)] /\ replay \in [Readers -> Seq(E!Number)]
    BY <1>1 DEF E!Init
  <2>2. chatOpen \in [Readers -> BOOLEAN] /\ done \in [Readers -> BOOLEAN]
    BY DEF E!Init
  <2>3. /\ on \in [Readers -> Nat] /\ cursorOf \in [Readers -> Nat]
        /\ cursor \in [Readers -> 0 .. MaxEvents] /\ seen \in [Readers -> SUBSET E!Number]
        /\ gen \in Nat /\ count \in 0 .. MaxEvents /\ runs \in 0 .. MaxRuns
    BY StreamBounds DEF E!Init
  <2>4. chat \in BOOLEAN /\ announcing \in BOOLEAN /\ exists \in BOOLEAN /\ ended \in BOOLEAN
    BY Zenon DEF E!Init
  <2> QED
    BY <2>1, <2>2, <2>3, <2>4 DEF E!Init, E!TypeOK
<1>3. E!SubscribersMissNothing
  BY DEF E!Init, E!SubscribersMissNothing
<1>4. E!StreamInv
  BY DEF E!Init, E!StreamInv
<1>5. E!CursorInv
  BY ChatFollowsNone DEF E!Init, E!CursorInv
<1> QED
  BY <1>2, <1>3, <1>4, <1>5 DEF E!IInv

LEMMA ChatStep == E!IInv /\ (E!Next \/ UNCHANGED chatVars) => E!IInv'
<1> SUFFICES ASSUME E!IInv, E!Next \/ UNCHANGED chatVars PROVE E!IInv'
  OBVIOUS
<1> USE DEF E!IInv
\* Steps that touch neither the hub nor its clients.
<1>1. ASSUME UNCHANGED <<E!hub, E!clients>>, (/\ chat \in BOOLEAN /\ announcing \in BOOLEAN
             /\ driver \in {"idle", "prepared", "begun", "started", "ended"}
             /\ runs \in 0 .. MaxRuns /\ deleter \in {"idle", "checked", "deleted"})'
      PROVE  E!IInv'
  <2>1. UNCHANGED <<exists, gen, count, ended, chatChannel, chatOpen, reader, replay, done, on,
     cursor,
                    cursorOf, seen>>
    BY <1>1 DEF E!hub, E!clients
  <2>2. E!TypeOK'
    BY <1>1, <2>1 DEF E!TypeOK
  <2>3. E!SubscribersMissNothing' /\ E!StreamInv' /\ E!CursorInv'
    BY <2>1 DEF E!SubscribersMissNothing, E!StreamInv, E!CursorInv
  <2> QED
    BY <2>2, <2>3
<1>2. CASE UNCHANGED chatVars
  BY <1>1, <1>2 DEF chatVars, E!hub, E!clients, E!TypeOK
<1>3. CASE E!PrepareChatSession
  BY <1>1, <1>3, StreamBounds DEF E!PrepareChatSession, E!TypeOK
<1>4. CASE E!Begin
  BY <1>1, <1>4 DEF E!Begin, E!TypeOK
<1>5. CASE E!FailsUnstarted
  BY <1>1, <1>5 DEF E!FailsUnstarted, E!TypeOK
<1>6. CASE E!Finish
  BY <1>1, <1>6 DEF E!Finish, E!TypeOK
<1>7. CASE E!Enqueue
  BY <1>1, <1>7 DEF E!Enqueue, E!TypeOK
<1>8. CASE E!DeleteBegins
  BY <1>1, <1>8 DEF E!DeleteBegins, E!TypeOK
<1>9. CASE E!DeleteRow
  BY <1>1, <1>9 DEF E!DeleteRow, E!TypeOK
\* Steps that publish or delete: the clients do not move.
<1>10. ASSUME UNCHANGED E!clients,
              /\ exists' \in BOOLEAN /\ ended' \in BOOLEAN /\ gen' \in Nat
              /\ count' \in 0 .. MaxEvents
              /\ chatChannel' \in [Readers -> Seq(E!Number)] /\ chatOpen' \in [Readers -> BOOLEAN]
              /\ E!SubscribersMissNothing' /\ E!StreamInv' /\ E!CursorInv',
              chat' = chat, runs' = runs, announcing' \in BOOLEAN,
              driver' \in {"idle", "prepared", "begun", "started", "ended"},
              deleter' \in {"idle", "checked", "deleted"}
       PROVE  E!IInv'
  <2>1. UNCHANGED <<reader, replay, done, on, cursor, cursorOf, seen>>
    BY <1>10 DEF E!clients
  <2>2. E!TypeOK'
    BY <1>10, <2>1 DEF E!TypeOK
  <2> QED
    BY <1>10, <2>2
<1>11. CASE E!Emit
  BY <1>10, <1>11, ChatPublishStep DEF E!Emit, E!TypeOK
<1>12. CASE E!EmitTerminal
  BY <1>10, <1>12, ChatPublishStep DEF E!EmitTerminal, E!TypeOK
<1>13. CASE E!Announce
  BY <1>10, <1>13, ChatPublishStep DEF E!Announce, E!TypeOK
<1>14. CASE E!DeleteEvents
  BY <1>10, <1>14, ChatDeleteStep DEF E!DeleteEvents, E!TypeOK
\* Steps of a client.
<1>15. ASSUME NEW r \in Readers, E!Leave(r),
              UNCHANGED <<chat, driver, runs, announcing, exists, gen, count, ended, done, on,
                          cursor, cursorOf, seen, deleter>>
       PROVE  E!IInv'
  <2>1. /\ chatChannel' \in [Readers -> Seq(E!Number)] /\ chatOpen' \in [Readers -> BOOLEAN]
        /\ replay' \in [Readers -> Seq(E!Number)]
        /\ reader' \in [Readers -> {"away", "replay", "live"}]
        /\ E!SubscribersMissNothing' /\ E!StreamInv' /\ E!CursorInv'
    BY <1>15, ChatLeaveStep
  <2>2. E!TypeOK'
    BY <1>15, <2>1 DEF E!TypeOK
  <2> QED
    BY <2>1, <2>2
<1>16. ASSUME NEW r \in Readers, E!Replayed(r) PROVE E!IInv'
  <2>1. CASE E!Leave(r)
    BY <1>15, <1>16, <2>1 DEF E!Replayed
  <2>2. CASE ~E!Leave(r)
    <3>1. /\ replay[r] = <<>> /\ reader[r] = "replay" /\ reader' = [reader EXCEPT ![r] = "live"]
          /\ UNCHANGED <<chat, driver, runs, announcing, exists, gen, count, ended, chatOpen,
             chatChannel,
                         replay, done, on, cursor, cursorOf, seen, deleter>>
      BY <1>16, <2>2 DEF E!Replayed
    <3>2. E!TypeOK'
      BY <3>1 DEF E!TypeOK
    <3>3. E!SubscribersMissNothing' /\ E!CursorInv'
      BY <3>1 DEF E!SubscribersMissNothing, E!CursorInv
    <3>4. E!StreamInv'
      BY <3>1 DEF E!StreamInv, E!TypeOK
    <3> QED
      BY <3>2, <3>3, <3>4
  <2> QED
    BY <2>1, <2>2
<1>17. ASSUME NEW r \in Readers, E!ChannelClosed(r) \/ E!Disconnect(r) PROVE E!IInv'
  BY <1>15, <1>17 DEF E!ChannelClosed, E!Disconnect
<1>18. ASSUME NEW r \in Readers, E!Reconnect(r) PROVE E!IInv'
  BY <1>18, ChatSubscribeStep DEF E!Reconnect
<1> QED
  BY <1>2, <1>3, <1>4, <1>5, <1>6, <1>7, <1>8, <1>9, <1>11, <1>12, <1>13, <1>14, <1>16, <1>17,
     <1>18, ChatReplayNextStep, ChatReceiveStep DEF E!Next

\* What is still to be sent continues at the cursor.
LEMMA ChatHandOff == E!IInv => E!HandOffIsSeamless
<1> SUFFICES ASSUME E!IInv, NEW r \in Readers, reader[r] # "away", on[r] = cursorOf[r]
             PROVE  LET rest == replay[r] \o chatChannel[r] IN
                    /\ \A i \in 1 .. Len(rest) : rest[i] = cursor[r] + i
                    /\ chatOpen[r] => cursor[r] + Len(rest) = count
  BY DEF E!HandOffIsSeamless
<1>1. /\ replay[r] \in Seq(E!Number) /\ chatChannel[r] \in Seq(E!Number) /\ cursor[r] \in Nat
      /\ Len(replay[r]) \in Nat /\ Len(chatChannel[r]) \in Nat
  BY LenProperties DEF E!IInv, E!TypeOK
<1>2. /\ E!Follows(replay[r], cursor[r]) /\ E!Follows(chatChannel[r], cursor[r] + Len(replay[r]))
      /\ chatOpen[r] => cursor[r] + Len(replay[r]) + Len(chatChannel[r]) = count
  BY DEF E!IInv, E!CursorInv
<1>3. /\ Len(replay[r] \o chatChannel[r]) = Len(replay[r]) + Len(chatChannel[r])
      /\ E!Follows(replay[r] \o chatChannel[r], cursor[r])
  BY <1>1, <1>2, ChatFollowsConcat
<1>4. \A i \in 1 .. Len(replay[r] \o chatChannel[r]) :
        (replay[r] \o chatChannel[r])[i] = cursor[r] + i
  BY <1>3 DEF E!Follows
<1>5. ASSUME chatOpen[r] PROVE cursor[r] + Len(replay[r] \o chatChannel[r]) = count
  <2> DEFINE c == cursor[r]
             a == Len(replay[r])
             b == Len(chatChannel[r])
             total == Len(replay[r] \o chatChannel[r])
  <2>1. c + a + b = count
    BY <1>2, <1>5
  <2>2. total = a + b
    BY <1>3
  <2>3. c \in Nat /\ a \in Nat /\ b \in Nat
    BY <1>1
  <2> HIDE DEF a, b, c, total
  <2>4. c + total = count
    BY <2>1, <2>2, <2>3
  <2> QED
    BY <2>4 DEF c, total
<1> QED
  BY <1>4, <1>5

\* Hub, channels and cursors agree in every state of a stream.
THEOREM ChatInvariance == Spec => []E!IInv
<1>1. Init => E!IInv
  BY ChatInitially DEF Init
<1>2. ASSUME Next \/ UNCHANGED vars PROVE E!Next \/ UNCHANGED chatVars
  BY <1>2 DEF Next, vars, MoveTools, MoveClients, MoveExplanations, MoveSearches,
              MoveChat, MoveActivity, MoveTurn
<1>3. E!IInv /\ [Next]_vars => E!IInv'
  BY <1>2, ChatStep
<1> QED
  BY <1>1, <1>3, PTL DEF Spec

-----------------------------------------------------------------------------
(* Calls of the application's own tools *)

\* The client reads the first event: what the rest tells of a call is told by the rest
\* or was told by the first.
LEMMA ActivityHead ==
  ASSUME NEW events \in Seq(A!Event), events # <<>>, NEW c, NEW s
  PROVE  /\ A!LastTells(events, c, s) =>
              \/ A!LastTells(Tail(events), c, s)
              \/ A!NoneTells(Tail(events), c) /\ A!Tells(Head(events), c) /\ Head(events)[3] = s
         /\ A!NoneTells(events, c) =>
              A!NoneTells(Tail(events), c) /\ ~A!Tells(Head(events), c)
<1>1. Len(events) \in Nat \ {0} /\ Head(events) = events[1]
  BY EmptySeq
<1>2. /\ Len(Tail(events)) = Len(events) - 1
      /\ \A i \in 1 .. Len(Tail(events)) : Tail(events)[i] = events[i + 1]
  BY HeadTailProperties
<1> DEFINE rest == Tail(events)
           n == Len(rest)
<1> HIDE DEF rest
<1>3. n \in Nat /\ Len(events) = n + 1 /\ \A i \in 1 .. n : rest[i] = events[i + 1]
  BY <1>1, <1>2 DEF rest
<1> HIDE DEF n
<1>4. ASSUME A!LastTells(events, c, s)
      PROVE  \/ A!LastTells(rest, c, s)
             \/ A!NoneTells(rest, c) /\ A!Tells(events[1], c) /\ events[1][3] = s
  <2>1. PICK i \in 1 .. n + 1 : /\ A!Tells(events[i], c) /\ events[i][3] = s
                                /\ \A j \in 1 .. n + 1 : j > i => ~A!Tells(events[j], c)
    BY <1>3, <1>4 DEF A!LastTells
  <2>2. CASE i = 1
    <3>1. \A j \in 1 .. n : ~A!Tells(rest[j], c)
      BY <1>3, <2>1, <2>2
    <3>2. A!NoneTells(rest, c)
      BY <3>1 DEF A!NoneTells, n
    <3> QED
      BY <2>1, <2>2, <3>2
  <2>3. CASE i # 1
    <3>1. i - 1 \in 1 .. n /\ rest[i - 1] = events[i]
      BY <1>3, <2>3
    <3>2. \A j \in 1 .. n : j > i - 1 => ~A!Tells(rest[j], c)
      BY <1>3, <2>1
    <3> QED
      BY <2>1, <3>1, <3>2 DEF A!LastTells, n
  <2> QED
    BY <2>2, <2>3
<1>5. ASSUME A!NoneTells(events, c) PROVE A!NoneTells(rest, c) /\ ~A!Tells(events[1], c)
  <2>1. \A i \in 1 .. n + 1 : ~A!Tells(events[i], c)
    BY <1>3, <1>5 DEF A!NoneTells
  <2>2. \A i \in 1 .. n : ~A!Tells(rest[i], c)
    BY <1>3, <2>1
  <2> QED
    BY <1>3, <2>1, <2>2 DEF A!NoneTells, n
<1> QED
  BY <1>1, <1>4, <1>5 DEF rest

\* An event more: it is the last word on its call, and changes nothing for the others.
LEMMA ActivityAppend ==
  ASSUME NEW events \in Seq(A!Event), NEW event \in A!Event, NEW c, NEW s
  PROVE  /\ A!Tells(event, c) => A!LastTells(Append(events, event), c, event[3])
         /\ ~A!Tells(event, c) /\ A!LastTells(events, c, s)
              => A!LastTells(Append(events, event), c, s)
         /\ ~A!Tells(event, c) /\ A!NoneTells(events, c)
              => A!NoneTells(Append(events, event), c)
<1> DEFINE more == Append(events, event)
           n == Len(events)
<1>1. n \in Nat /\ Len(more) = n + 1 /\ more[n + 1] = event
      /\ \A i \in 1 .. n : more[i] = events[i]
  BY AppendProperties, LenProperties
<1> HIDE DEF more, n
<1>2. ASSUME A!Tells(event, c) PROVE A!LastTells(more, c, event[3])
  <2>1. n + 1 \in 1 .. Len(more) /\ \A j \in 1 .. Len(more) : ~(j > n + 1)
    BY <1>1
  <2> QED
    BY <1>1, <1>2, <2>1 DEF A!LastTells
<1>3. ASSUME ~A!Tells(event, c), A!LastTells(events, c, s) PROVE A!LastTells(more, c, s)
  <2>1. PICK i \in 1 .. n : /\ A!Tells(events[i], c) /\ events[i][3] = s
                            /\ \A j \in 1 .. n : j > i => ~A!Tells(events[j], c)
    BY <1>3 DEF A!LastTells, n
  <2>2. i \in 1 .. Len(more) /\ more[i] = events[i]
    BY <1>1
  <2>3. \A j \in 1 .. Len(more) : j > i => ~A!Tells(more[j], c)
    <3>1. \A j \in 1 .. Len(more) : j \in 1 .. n \/ j = n + 1
      BY <1>1
    <3> QED
      BY <1>1, <1>3, <2>1, <3>1
  <2> QED
    BY <2>1, <2>2, <2>3 DEF A!LastTells
<1>4. ASSUME ~A!Tells(event, c), A!NoneTells(events, c) PROVE A!NoneTells(more, c)
  <2>1. \A j \in 1 .. Len(more) : j \in 1 .. n \/ j = n + 1
    BY <1>1
  <2>2. \A j \in 1 .. n : ~A!Tells(events[j], c)
    BY <1>4 DEF A!NoneTells, n
  <2> QED
    BY <1>1, <1>4, <2>1, <2>2 DEF A!NoneTells
<1> QED
  BY <1>2, <1>3, <1>4 DEF more

\* Publishing keeps the channel within its size; what it tells of a call is stored, or of
\* another call, or nothing.
LEMMA ActivityPublish ==
  ASSUME A!TypeOK, A!FeedInv, NEW event \in A!Event, A!Publish(event),
         \A c \in ToolRequests :
            handler'[c] \notin {"inserted", "recorded"} =>
                \/ A!Tells(event, c) /\ event[3] = status[c]
                \/ ~A!Tells(event, c) /\ handler'[c] = handler[c],
         UNCHANGED <<status, view, informed>>
  PROVE  /\ channel' \in Seq(A!Event) /\ Len(channel') <= Buffer /\ open' \in BOOLEAN
         /\ (open' => open) /\ A!FeedInv'
<1>1. CASE open /\ Len(channel) < Buffer
  <2>1. channel' = Append(channel, event) /\ open' = open
    BY <1>1 DEF A!Publish
  <2>2. channel \in Seq(A!Event) /\ Len(channel) \in Nat
    BY LenProperties DEF A!TypeOK
  <2>3. channel' \in Seq(A!Event) /\ Len(channel') = Len(channel) + 1
    BY <2>1, <2>2, AppendProperties
  <2>4. Len(channel') <= Buffer
    BY <1>1, <2>2, <2>3, StreamBounds
  <2>5. ASSUME NEW c \in ToolRequests, handler'[c] \notin {"inserted", "recorded"}
        PROVE  \/ A!LastTells(channel', c, status[c])
               \/ A!NoneTells(channel', c) /\ (informed => view[c] = status[c])
    <3>1. CASE A!Tells(event, c) /\ event[3] = status[c]
      BY <2>1, <2>2, <3>1, ActivityAppend
    <3>2. CASE ~A!Tells(event, c) /\ handler'[c] = handler[c]
      <4>1. \/ A!LastTells(channel, c, status[c])
            \/ A!NoneTells(channel, c) /\ (informed => view[c] = status[c])
        BY <1>1, <2>5, <3>2 DEF A!FeedInv
      <4> QED
        BY <2>1, <2>2, <3>2, <4>1, ActivityAppend
    <3> QED
      BY <2>5, <3>1, <3>2
  <2>6. A!FeedInv'
    BY <2>5 DEF A!FeedInv
  <2>7. open' \in BOOLEAN
    BY <2>1 DEF A!TypeOK
  <2> QED
    BY <2>1, <2>3, <2>4, <2>6, <2>7
<1>2. CASE ~(open /\ Len(channel) < Buffer)
  <2>1. open' = FALSE /\ channel' = channel
    BY <1>2 DEF A!Publish
  <2> QED
    BY <2>1 DEF A!FeedInv, A!TypeOK
<1> QED
  BY <1>1, <1>2

\* The feed of a connection while nothing about it or its calls' rows changes.
LEMMA ActivityFeedKept ==
  ASSUME A!FeedInv, UNCHANGED <<channel, open, view, informed>>,
         \A c \in ToolRequests : handler'[c] \notin {"inserted", "recorded"} =>
             status'[c] = status[c] /\ handler[c] \notin {"inserted", "recorded"}
  PROVE  A!FeedInv'
<1>1. ASSUME open, NEW c \in ToolRequests, handler'[c] \notin {"inserted", "recorded"}
      PROVE  \/ A!LastTells(channel, c, status'[c])
             \/ A!NoneTells(channel, c) /\ (informed => view[c] = status'[c])
  BY <1>1 DEF A!FeedInv
<1> QED
  BY <1>1 DEF A!FeedInv

\* The steps of a call's handler and of its run's publisher.
LEMMA ActivityCallStep ==
  ASSUME A!IInv, NEW c \in ToolRequests,
         \/ A!StartMCPToolCall(c) \/ A!CallStarted(c) \/ A!ApproveRun(c)
         \/ A!FinishMCPToolCall(c) \/ A!FinishFails(c) \/ A!CallFinished(c)
         \/ \E s \in {"approval_required", "completed"} :
              A!SubmitRun(c, s) \/ A!BindMCPToolCallOperation(c, s) \/ A!OperationStatus(c, s)
         \/ \E how \in A!Ended : A!ToolReturns(c, how)
  PROVE  A!IInv'
<1>0. A!TypeOK /\ A!CallInv /\ A!SocketInv /\ A!FeedInv
  BY DEF A!IInv
<1> USE DEF A!Ended
<1>1. CASE A!StartMCPToolCall(c)
  <2>1. /\ up /\ handler[c] = "idle"
        /\ status' = [status EXCEPT ![c] = "running"]
        /\ handler' = [handler EXCEPT ![c] = "inserted"]
        /\ UNCHANGED <<up, linked, operation, result, run, ws, slot, serving, wanted, informed,
                       view, channel, open>>
    BY <1>1 DEF A!StartMCPToolCall, A!socket, A!feed
  <2>2. A!TypeOK'
    BY <1>0, <2>1 DEF A!TypeOK
  <2>3. A!CallInv'
    BY ZenonT(30), <1>0, <2>1 DEF A!TypeOK, A!CallInv
  <2>4. A!SocketInv'
    BY <1>0, <2>1 DEF A!SocketInv
  <2>5. A!FeedInv'
    BY <1>0, <2>1, ActivityFeedKept DEF A!TypeOK
  <2> QED
    BY <2>2, <2>3, <2>4, <2>5 DEF A!IInv
<1>2. CASE A!CallStarted(c)
  <2> DEFINE event == <<"call_started", c, "running">>
  <2>1. /\ handler[c] = "inserted" /\ A!Publish(event)
        /\ handler' = [handler EXCEPT ![c] = "working"]
        /\ UNCHANGED <<up, status, linked, operation, result, run, ws, slot, serving, wanted,
                       informed, view>>
    BY <1>2 DEF A!CallStarted, A!socket, A!rows
  <2>2. event \in A!Event /\ status[c] = "running"
    BY <1>0, <2>1 DEF A!Event, A!CallInv
  <2>3. /\ channel' \in Seq(A!Event) /\ Len(channel') <= Buffer /\ open' \in BOOLEAN
        /\ (open' => open) /\ A!FeedInv'
    <3>1. \A d \in ToolRequests :
             \/ A!Tells(event, d) /\ event[3] = status[d]
             \/ ~A!Tells(event, d) /\ handler'[d] = handler[d]
      BY <1>0, <2>1, <2>2 DEF A!Tells, A!TypeOK
    <3> HIDE DEF event
    <3> QED
      BY <1>0, <2>1, <2>2, <3>1, ActivityPublish
  <2>4. A!TypeOK'
    BY <1>0, <2>1, <2>3 DEF A!TypeOK
  <2>5. A!CallInv' /\ A!SocketInv'
    BY <1>0, <2>1, <2>3 DEF A!TypeOK, A!CallInv, A!SocketInv
  <2> QED
    BY <2>3, <2>4, <2>5 DEF A!IInv
<1>3. CASE A!ApproveRun(c) \/ \E s \in {"approval_required", "completed"} : A!SubmitRun(c, s)
  <2>1. /\ (\E s \in {"approval_required", "completed"} : run' = [run EXCEPT ![c] = s])
        /\ UNCHANGED <<up, status, linked, operation, handler, result, ws, slot, serving, wanted,
                       informed, view, channel, open>>
    BY <1>3 DEF A!ApproveRun, A!SubmitRun, A!socket, A!rows, A!feed
  <2>2. A!TypeOK'
    <3>1. run' \in [ToolRequests -> {"", "approval_required", "completed"}]
      BY <1>0, <2>1 DEF A!TypeOK
    <3> QED
      BY <1>0, <2>1, <3>1 DEF A!TypeOK
  <2>3. A!CallInv' /\ A!SocketInv'
    BY <1>0, <2>1 DEF A!CallInv, A!SocketInv
  <2>4. A!FeedInv'
    BY <1>0, <2>1, ActivityFeedKept
  <2> QED
    BY <2>2, <2>3, <2>4 DEF A!IInv
<1>4. CASE \E how \in A!Ended : A!ToolReturns(c, how)
  <2>1. PICK how \in A!Ended : A!ToolReturns(c, how)
    BY <1>4
  <2> DEFINE record == [status |-> how, linked |-> how = "completed" /\ run[c] # "",
                        operation |-> IF how = "completed" THEN run[c] ELSE ""]
  <2>2. /\ handler[c] = "working" /\ handler' = [handler EXCEPT ![c] = "returned"]
        /\ result' = [result EXCEPT ![c] = record]
        /\ UNCHANGED <<up, status, linked, operation, run, ws, slot, serving, wanted,
                       informed, view, channel, open>>
    BY <2>1 DEF A!ToolReturns, A!socket, A!rows, A!feed
  <2>3. /\ record.status \in A!Ended
        /\ record \in [status : {"running"} \cup A!Ended, linked : BOOLEAN,
                       operation : {"", "approval_required", "completed"}]
    <3>1. (how = "completed" /\ run[c] # "") \in BOOLEAN
      BY Zenon
    <3>2. (IF how = "completed" THEN run[c] ELSE "") \in {"", "approval_required", "completed"}
      BY <1>0 DEF A!TypeOK
    <3> QED
      BY <3>1, <3>2
  <2> HIDE DEF record
  <2>4. A!TypeOK'
    BY <1>0, <2>2, <2>3 DEF A!TypeOK
  <2>5. A!CallInv'
    <3>1. \A d \in ToolRequests : handler'[d] # "returned" => handler'[d] = handler[d]
            /\ result'[d] = result[d]
      BY <1>0, <2>2 DEF A!TypeOK
    <3>2. \A d \in ToolRequests : handler'[d] = "returned" => result'[d].status \in A!Ended
      <4>1. ASSUME NEW d \in ToolRequests, d # c, handler'[d] = "returned"
            PROVE  result'[d].status \in A!Ended
        BY <1>0, <2>2, <4>1 DEF A!TypeOK, A!CallInv
      <4>2. result'[c] = record
        BY <1>0, <2>2 DEF A!TypeOK
      <4> QED
        BY <2>3, <4>1, <4>2
    <3>3. status[c] # "none" /\ up
      BY <1>0, <2>2 DEF A!CallInv
    <3>4. \A d \in ToolRequests : handler'[d] = "returned" => status[d] # "none"
      BY <1>0, <2>2, <3>3 DEF A!TypeOK, A!CallInv
    <3> QED
      BY <1>0, <2>2, <3>1, <3>2, <3>3, <3>4 DEF A!CallInv
  <2>6. A!SocketInv'
    BY <1>0, <2>2 DEF A!SocketInv
  <2>7. A!FeedInv'
    BY <1>0, <2>2, ActivityFeedKept DEF A!TypeOK
  <2> QED
    BY <2>4, <2>5, <2>6, <2>7 DEF A!IInv
<1>5. CASE A!FinishMCPToolCall(c)
  <2>1. /\ handler[c] = "returned" /\ handler' = [handler EXCEPT ![c] = "recorded"]
        /\ status' = [status EXCEPT ![c] = result[c].status]
        /\ linked' = [linked EXCEPT ![c] = result[c].linked]
        /\ operation' = [operation EXCEPT ![c] = result[c].operation]
        /\ UNCHANGED <<up, result, run, ws, slot, serving, wanted, informed, view, channel, open>>
    BY <1>5 DEF A!FinishMCPToolCall, A!socket, A!feed
  <2>2. /\ result[c].status \in A!Ended /\ result[c].linked \in BOOLEAN
        /\ result[c].operation \in {"", "approval_required", "completed"}
    BY <1>0, <2>1 DEF A!TypeOK, A!CallInv
  <2>3. A!TypeOK'
    <3>1. linked' \in [ToolRequests -> BOOLEAN]
      BY <1>0, <2>1, <2>2 DEF A!TypeOK
    <3> QED
      BY <1>0, <2>1, <2>2, <3>1 DEF A!TypeOK
  <2>4. A!CallInv'
    BY ZenonT(30), <1>0, <2>1, <2>2 DEF A!TypeOK, A!CallInv
  <2>5. A!SocketInv'
    BY <1>0, <2>1 DEF A!SocketInv
  <2>6. A!FeedInv'
    BY <1>0, <2>1, ActivityFeedKept DEF A!TypeOK
  <2> QED
    BY <2>3, <2>4, <2>5, <2>6 DEF A!IInv
<1>6. CASE A!FinishFails(c)
  <2>1. /\ handler[c] = "returned" /\ handler' = [handler EXCEPT ![c] = "unrecorded"]
        /\ UNCHANGED <<up, status, linked, operation, result, run, ws, slot, serving, wanted,
                       informed, view, channel, open>>
    BY <1>6 DEF A!FinishFails, A!socket, A!rows, A!feed
  <2>2. A!TypeOK' /\ A!CallInv' /\ A!SocketInv'
    BY <1>0, <2>1 DEF A!TypeOK, A!CallInv, A!SocketInv
  <2>3. A!FeedInv'
    BY <1>0, <2>1, ActivityFeedKept DEF A!TypeOK
  <2> QED
    BY <2>2, <2>3 DEF A!IInv
<1>7. CASE A!CallFinished(c)
  <2> DEFINE event == <<"call_finished", c, result[c].status>>
  <2>1. /\ handler[c] = "recorded" /\ A!Publish(event)
        /\ handler' = [handler EXCEPT ![c] = "done"]
        /\ UNCHANGED <<up, status, linked, operation, result, run, ws, slot, serving, wanted,
                       informed, view>>
    BY <1>7 DEF A!CallFinished, A!socket, A!rows
  <2>2. event \in A!Event /\ status[c] = result[c].status
    BY <1>0, <2>1 DEF A!Event, A!CallInv
  <2>3. /\ channel' \in Seq(A!Event) /\ Len(channel') <= Buffer /\ open' \in BOOLEAN
        /\ (open' => open) /\ A!FeedInv'
    <3>1. \A d \in ToolRequests :
             \/ A!Tells(event, d) /\ event[3] = status[d]
             \/ ~A!Tells(event, d) /\ handler'[d] = handler[d]
      BY <1>0, <2>1, <2>2 DEF A!Tells, A!TypeOK
    <3> HIDE DEF event
    <3> QED
      BY <1>0, <2>1, <2>2, <3>1, ActivityPublish
  <2>4. A!TypeOK'
    BY <1>0, <2>1, <2>3 DEF A!TypeOK
  <2>5. A!CallInv' /\ A!SocketInv'
    BY <1>0, <2>1, <2>3 DEF A!TypeOK, A!CallInv, A!SocketInv
  <2> QED
    BY <2>3, <2>4, <2>5 DEF A!IInv
<1>8. ASSUME NEW s \in {"approval_required", "completed"}, A!BindMCPToolCallOperation(c, s)
      PROVE  A!IInv'
  <2>1. /\ linked' = [linked EXCEPT ![c] = TRUE] /\ operation' = [operation EXCEPT ![c] = s]
        /\ UNCHANGED <<up, status, handler, result, run, ws, slot, serving, wanted,
                       informed, view, channel, open>>
    BY <1>8 DEF A!BindMCPToolCallOperation, A!socket, A!feed
  <2>2. A!TypeOK'
    BY <1>0, <2>1 DEF A!TypeOK
  <2>3. A!CallInv' /\ A!SocketInv'
    BY <1>0, <2>1 DEF A!CallInv, A!SocketInv
  <2>4. A!FeedInv'
    BY <1>0, <2>1, ActivityFeedKept
  <2> QED
    BY <2>2, <2>3, <2>4 DEF A!IInv
<1>9. ASSUME NEW s \in {"approval_required", "completed"}, A!OperationStatus(c, s)
      PROVE  A!IInv'
  <2> DEFINE event == <<"operation_status", c, s>>
  <2>1. /\ A!Publish(event)
        /\ UNCHANGED <<up, handler, status, linked, operation, result, run, ws, slot, serving,
                       wanted, informed, view>>
    BY <1>9 DEF A!OperationStatus, A!socket, A!rows
  <2>2. event \in A!Event /\ \A d : ~A!Tells(event, d)
    BY DEF A!Event, A!Tells
  <2>3. /\ channel' \in Seq(A!Event) /\ Len(channel') <= Buffer /\ open' \in BOOLEAN
        /\ (open' => open) /\ A!FeedInv'
    <3> HIDE DEF event
    <3> QED
      BY <1>0, <2>1, <2>2, ActivityPublish
  <2>4. A!TypeOK'
    BY <1>0, <2>1, <2>3 DEF A!TypeOK
  <2>5. A!CallInv' /\ A!SocketInv'
    BY <1>0, <2>1, <2>3 DEF A!TypeOK, A!CallInv, A!SocketInv
  <2> QED
    BY <2>3, <2>4, <2>5 DEF A!IInv
<1> QED
  BY <1>1, <1>2, <1>3, <1>4, <1>5, <1>6, <1>7, <1>8, <1>9

\* The connection's subscription, its snapshot and its events.
LEMMA ActivitySocketStep ==
  ASSUME A!IInv,
         \/ A!Connect \/ (\E s \in A!Subscriptions : A!Command(s)) \/ A!TakeUpdate
         \/ A!SendSnapshot \/ A!SnapshotFails \/ A!SendEvent \/ A!ChannelClosed \/ A!Disconnect
  PROVE  A!IInv'
<1>0. A!TypeOK /\ A!CallInv /\ A!SocketInv /\ A!FeedInv
  BY DEF A!IInv
<1>1. UNCHANGED <<up, status, linked, operation, handler, result, run>>
  BY DEF A!Connect, A!Command, A!TakeUpdate, A!SendSnapshot, A!SnapshotFails, A!SendEvent,
         A!ChannelClosed, A!Disconnect, A!service, A!rows
<1>2. A!CallInv'
  BY <1>0, <1>1 DEF A!CallInv
<1>3. <<>> \in Seq(A!Event) /\ Len(<<>>) = 0 /\ 0 <= Buffer
  BY EmptySeq, StreamBounds
<1>4. CASE A!Connect
  <2>1. /\ ws = "off" /\ up /\ ws' = "idle" /\ slot' = "none" /\ serving' = "none"
        /\ wanted' = "none"
        /\ informed' = FALSE /\ UNCHANGED <<view, channel, open>>
    BY <1>4 DEF A!Connect, A!feed
  <2>2. A!TypeOK'
    BY <1>0, <1>1, <2>1 DEF A!TypeOK
  <2>3. A!SocketInv' /\ A!FeedInv'
    BY <1>0, <1>1, <2>1 DEF A!SocketInv, A!FeedInv
  <2> QED
    BY <1>2, <2>2, <2>3 DEF A!IInv
<1>5. CASE \E s \in A!Subscriptions : A!Command(s)
  <2>1. /\ (\E s \in A!Subscriptions : wanted' = s /\ slot' = s)
        /\ UNCHANGED <<ws, serving, informed, view, channel, open>>
    BY <1>5 DEF A!Command, A!Newest, A!feed
  <2>2. A!TypeOK'
    BY <1>0, <1>1, <2>1 DEF A!TypeOK
  <2>3. A!SocketInv' /\ A!FeedInv'
    BY <1>0, <1>1, <2>1 DEF A!SocketInv, A!FeedInv
  <2> QED
    BY <1>2, <2>2, <2>3 DEF A!IInv
<1>6. CASE A!TakeUpdate
  <2>1. /\ ws = "idle" /\ slot # "none" /\ serving' = slot /\ slot' = "none" /\ channel' = <<>>
        /\ open' = (slot = "mcp") /\ informed' = FALSE
        /\ ws' = (IF slot = "mcp" THEN "subscribed" ELSE "idle") /\ UNCHANGED <<wanted, view>>
    BY <1>6 DEF A!TakeUpdate
  <2>2. open' \in BOOLEAN
    BY <2>1, Zenon
  <2>3. A!TypeOK'
    BY <1>0, <1>1, <1>3, <2>1, <2>2 DEF A!TypeOK
  <2>4. A!SocketInv'
    BY <1>0, <1>1, <2>1 DEF A!SocketInv
  <2>5. \A c \in ToolRequests : A!NoneTells(channel', c)
    BY <1>3, <2>1 DEF A!NoneTells
  <2>6. A!FeedInv'
    BY <2>1, <2>5 DEF A!FeedInv
  <2> QED
    BY <1>2, <2>3, <2>4, <2>6 DEF A!IInv
<1>7. CASE A!SendSnapshot
  <2>1. /\ ws = "subscribed" /\ ws' = "idle" /\ informed' = TRUE /\ view' = status
        /\ UNCHANGED <<slot, serving, wanted, channel, open>>
    BY <1>7 DEF A!SendSnapshot, A!feed
  <2>2. A!TypeOK' /\ A!SocketInv'
    BY <1>0, <1>1, <2>1 DEF A!TypeOK, A!SocketInv
  <2>3. A!FeedInv'
    BY <1>0, <1>1, <2>1 DEF A!FeedInv
  <2> QED
    BY <1>2, <2>2, <2>3 DEF A!IInv
<1>8. CASE A!SnapshotFails
  <2>1. /\ ws = "subscribed" /\ ws' = "idle"
        /\ UNCHANGED <<slot, serving, wanted, informed, view, channel, open>>
    BY <1>8 DEF A!SnapshotFails, A!feed
  <2>2. A!TypeOK' /\ A!SocketInv'
    BY <1>0, <1>1, <2>1 DEF A!TypeOK, A!SocketInv
  <2>3. A!FeedInv'
    BY <1>0, <1>1, <2>1 DEF A!FeedInv
  <2> QED
    BY <1>2, <2>2, <2>3 DEF A!IInv
<1>9. CASE A!SendEvent
  <2> DEFINE event == Head(channel)
  <2>1. /\ ws = "idle" /\ channel # <<>> /\ channel' = Tail(channel)
        /\ view' = (IF event[1] = "operation_status" THEN view
                      ELSE [view EXCEPT ![event[2]] = event[3]])
        /\ UNCHANGED <<ws, slot, serving, wanted, informed, open>>
    BY <1>9 DEF A!SendEvent
  <2>2. /\ channel \in Seq(A!Event) /\ event \in A!Event /\ channel' \in Seq(A!Event)
        /\ Len(channel') = Len(channel) - 1 /\ Len(channel) \in Nat
    BY <1>0, <2>1, HeadTailProperties, LenProperties DEF A!TypeOK
  <2>3. \A c \in ToolRequests :
           /\ A!LastTells(channel, c, status[c]) =>
                \/ A!LastTells(channel', c, status[c])
                \/ A!NoneTells(channel', c) /\ A!Tells(event, c) /\ event[3] = status[c]
           /\ A!NoneTells(channel, c) => A!NoneTells(channel', c) /\ ~A!Tells(event, c)
    BY <2>1, <2>2, ActivityHead
  <2> HIDE DEF event
  <2>4. view' \in [ToolRequests -> {"none", "running"} \cup A!Ended]
    <3>1. CASE event[1] = "operation_status"
      BY <1>0, <2>1, <3>1 DEF A!TypeOK
    <3>2. CASE event[1] # "operation_status"
      <4>1. event[2] \in ToolRequests /\ event[3] \in {"running"} \cup A!Ended
        BY <2>2, <3>2 DEF A!Event
      <4> QED
        BY <1>0, <2>1, <3>2, <4>1 DEF A!TypeOK
    <3> QED
      BY <3>1, <3>2
  <2>5. A!TypeOK'
    <3>1. Len(channel) <= Buffer
      BY <1>0 DEF A!TypeOK
    <3>2. Len(channel') <= Buffer
      <4> DEFINE n == Len(channel)
                 m == Len(channel')
      <4>1. m = n - 1 /\ n \in Nat /\ n <= Buffer
        BY <2>2, <3>1
      <4> HIDE DEF n, m
      <4>2. m <= Buffer
        BY <4>1, StreamBounds
      <4> QED
        BY <4>2 DEF m
    <3> QED
      BY <1>0, <1>1, <2>1, <2>2, <2>4, <3>2 DEF A!TypeOK
  <2>6. A!SocketInv'
    BY <1>0, <1>1, <2>1 DEF A!SocketInv
  <2>7. \A c \in ToolRequests : view'[c] = IF A!Tells(event, c) THEN event[3] ELSE view[c]
    BY <1>0, <2>1, <2>2 DEF A!Tells, A!TypeOK
  <2>8. A!FeedInv'
    <3>1. ASSUME open, NEW c \in ToolRequests, handler[c] \notin {"inserted", "recorded"}
          PROVE  \/ A!LastTells(channel', c, status[c])
                 \/ A!NoneTells(channel', c) /\ (informed => view'[c] = status[c])
      <4>1. \/ A!LastTells(channel, c, status[c])
            \/ A!NoneTells(channel, c) /\ (informed => view[c] = status[c])
        BY <1>0, <3>1 DEF A!FeedInv
      <4> QED
        BY <2>3, <2>7, <4>1
    <3> QED
      BY <1>1, <2>1, <3>1 DEF A!FeedInv
  <2> QED
    BY <1>2, <2>5, <2>6, <2>8 DEF A!IInv
<1>10. CASE A!ChannelClosed \/ A!Disconnect
  <2>1. /\ ws' = "off" /\ slot' = "none" /\ serving' = "none" /\ wanted' = "none"
        /\ informed' = FALSE /\ channel' = <<>> /\ open' = FALSE /\ view' = view
    BY <1>10 DEF A!ChannelClosed, A!Disconnect, A!Close
  <2>2. A!TypeOK'
    BY <1>0, <1>1, <1>3, <2>1 DEF A!TypeOK
  <2>3. A!SocketInv' /\ A!FeedInv'
    BY <1>0, <1>1, <2>1 DEF A!SocketInv, A!FeedInv
  <2> QED
    BY <1>2, <2>2, <2>3 DEF A!IInv
<1> QED
  BY <1>4, <1>5, <1>6, <1>7, <1>8, <1>9, <1>10

\* A crash, and the start after it, which settles what the crash cut off.
LEMMA ActivityCrashStep ==
  ASSUME A!IInv, A!Crash \/ A!Restart
  PROVE  A!IInv'
<1>0. A!TypeOK /\ A!CallInv /\ A!SocketInv /\ A!FeedInv
  BY DEF A!IInv
<1>1. <<>> \in Seq(A!Event) /\ Len(<<>>) = 0 /\ 0 <= Buffer
  BY EmptySeq, StreamBounds
<1>2. CASE A!Crash
  <2>1. /\ up' = FALSE
        /\ handler' = [c \in ToolRequests |-> IF handler[c] = "idle" THEN "idle" ELSE "dead"]
        /\ ws' = "off" /\ slot' = "none" /\ serving' = "none" /\ wanted' = "none"
        /\ informed' = FALSE /\ channel' = <<>> /\ open' = FALSE
        /\ UNCHANGED <<view, status, linked, operation, result, run>>
    BY <1>2 DEF A!Crash, A!Close, A!rows
  <2>2. A!TypeOK'
    BY <1>0, <1>1, <2>1 DEF A!TypeOK
  <2>3. A!CallInv' /\ A!SocketInv' /\ A!FeedInv'
    BY <1>0, <2>1 DEF A!TypeOK, A!CallInv, A!SocketInv, A!FeedInv
  <2> QED
    BY <2>2, <2>3 DEF A!IInv
<1>3. CASE A!Restart
  <2>1. /\ ~up /\ up' = TRUE
        /\ status' = [c \in ToolRequests |->
                        IF status[c] = "running" THEN "interrupted" ELSE status[c]]
        /\ operation' = [c \in ToolRequests |->
                           IF status[c] = "running" /\ operation[c] = ""
                             THEN "interrupted" ELSE operation[c]]
        /\ UNCHANGED <<linked, handler, result, run, ws, slot, serving, wanted, informed, view,
                       channel, open>>
    BY <1>3 DEF A!Restart, A!InterruptRunningMCPToolCalls, A!socket, A!feed
  <2>2. A!TypeOK'
    BY <1>0, <2>1 DEF A!TypeOK, A!Ended
  <2>3. ~open
    BY <1>0, <2>1 DEF A!SocketInv
  <2>4. A!CallInv' /\ A!SocketInv' /\ A!FeedInv'
    BY <1>0, <2>1, <2>3 DEF A!TypeOK, A!CallInv, A!SocketInv, A!FeedInv
  <2> QED
    BY <2>2, <2>4 DEF A!IInv
<1> QED
  BY <1>2, <1>3

LEMMA ActivityInitially == A!Init => A!IInv
<1> SUFFICES ASSUME A!Init PROVE A!IInv
  OBVIOUS
<1>1. <<>> \in Seq(A!Event) /\ Len(<<>>) = 0 /\ 0 <= Buffer
  BY EmptySeq, StreamBounds
<1>2. A!TypeOK
  <2>1. result \in [ToolRequests -> [status : {"running"} \cup A!Ended, linked : BOOLEAN,
                                     operation : {"", "approval_required", "completed"}]]
    BY DEF A!Init, A!NoResult
  <2>2. up \in BOOLEAN /\ open \in BOOLEAN /\ informed \in BOOLEAN
    BY Zenon DEF A!Init
  <2> QED
    BY <1>1, <2>1, <2>2 DEF A!Init, A!TypeOK
<1>3. A!CallInv /\ A!SocketInv /\ A!FeedInv
  BY DEF A!Init, A!CallInv, A!SocketInv, A!FeedInv
<1> QED
  BY <1>2, <1>3 DEF A!IInv

\* Rows, handlers and what is on its way to the console agree in every state.
THEOREM ActivityInvariance == Spec => []A!IInv
<1>1. Init => A!IInv
  BY ActivityInitially DEF Init
<1>2. ASSUME Next \/ UNCHANGED vars PROVE A!Next \/ UNCHANGED activityVars
  BY <1>2 DEF Next, vars, MoveTools, MoveClients, MoveExplanations, MoveSearches,
              MoveChat, MoveActivity, MoveTurn
<1>3. ASSUME A!IInv, UNCHANGED activityVars PROVE A!IInv'
  <2>1. UNCHANGED <<up, status, linked, operation, handler, result, run, ws, slot, serving, wanted,
                    channel, open, informed, view>>
    BY <1>3 DEF activityVars
  <2> QED
    BY <1>3, <2>1 DEF A!IInv, A!TypeOK, A!CallInv, A!SocketInv, A!FeedInv
<1>4. ASSUME A!IInv, A!Next PROVE A!IInv'
  BY <1>4, ActivityCallStep, ActivitySocketStep, ActivityCrashStep DEF A!Next
<1>5. A!IInv /\ [Next]_vars => A!IInv'
  BY <1>2, <1>3, <1>4
<1> QED
  BY <1>1, <1>5, PTL DEF Spec

-----------------------------------------------------------------------------
(* What a turn shows and stores *)

\* A set of numbers has a least one.
LEMMA Smallest ==
  ASSUME NEW Set \in SUBSET Nat, Set # {}
  PROVE  \E m \in Set : \A k \in Set : m <= k
<1> DEFINE Intervals == {0..n : n \in Set}
           Order == StrictSubsetOrdering(Nat)
<1>1. IsWellFoundedOn(Order, FiniteSubsetsOf(Nat))
  BY FS_StrictSubsetOrderingWellFounded
<1>2. \A n \in Set : 0..n \in FiniteSubsetsOf(Nat)
  BY FS_Interval DEF FiniteSubsetsOf
<1>3. Intervals \subseteq FiniteSubsetsOf(Nat) /\ Intervals # {}
  BY <1>2
<1>4. PICK x \in Intervals : \A y \in Intervals : <<y, x>> \notin Order
  <2> HIDE DEF Order, Intervals
  <2> QED
    BY <1>1, <1>3, WFMin
<1>5. PICK m \in Set : x = 0..m
  BY <1>4
<1>6. ASSUME NEW k \in Set, k < m PROVE FALSE
  <2>1. 0..k \subseteq 0..m /\ m \in 0..m /\ m \notin 0..k /\ {0..k, 0..m} \subseteq SUBSET Nat
    BY <1>6
  <2>2. <<0..k, 0..m>> \in Order
    BY <2>1 DEF StrictSubsetOrdering
  <2> QED
    BY <1>4, <1>5, <2>2
<1> QED
  BY <1>6

\* The texts of the model are sequences of letters.
LEMMA TextsAreTexts ==
  ASSUME NEW k \in Nat, NEW t \in Q!Texts(k)
  PROVE  t \in Seq(Letters) /\ Len(t) \in Nat
<1>1. PICK n \in 0..k : t \in [1..n -> Letters]
  BY DEF Q!Texts
<1> QED
  BY <1>1

\* A marker is not empty.
LEMMA MarkerLength ==
  ASSUME NEW m \in Markers
  PROVE  m \in Seq(Letters) /\ Len(m) \in Nat \ {0}
<1>1. m \in Seq(Letters) /\ m # <<>>
  BY TurnBounds
<1> QED
  BY <1>1, EmptySeq

\* What ends before the first marker shows none.
LEMMA PrefixIsClean ==
  ASSUME NEW t \in Seq(Letters), NEW p \in 0..Len(t), \A n \in Q!Starts(t) : n > p
  PROVE  SubSeq(t, 1, p) \in Seq(Letters) /\ ~Q!Internal(SubSeq(t, 1, p))
<1> DEFINE s == SubSeq(t, 1, p)
<1>1. s \in Seq(Letters) /\ Len(s) = p /\ \A i \in 1..p : s[i] = t[i]
  OBVIOUS
<1> HIDE DEF s
<1>2. ASSUME NEW n \in Q!Starts(s) PROVE FALSE
  <2>1. PICK m \in Markers : n + Len(m) - 1 <= Len(s) /\ Q!IsAt(m, s, n)
    BY <1>2 DEF Q!Starts
  <2>2. n \in 1..p /\ n \in 1..Len(t) /\ n + Len(m) - 1 <= p /\ Len(m) \in Nat
    BY <1>1, <2>1, MarkerLength DEF Q!Starts
  <2>3. \A k \in 1..Len(m) : n + k - 1 \in 1..p
    BY <2>2
  <2>4. Q!IsAt(m, t, n)
    BY <1>1, <2>1, <2>2, <2>3 DEF Q!IsAt
  <2>5. n \in Q!Starts(t)
    BY <2>2, <2>4 DEF Q!Starts
  <2> QED
    BY <2>2, <2>5
<1> QED
  BY <1>1, <1>2 DEF s, Q!Internal

\* What begins after the shown part begins at the same letter of the rest.
LEMMA StartsOfConcat ==
  ASSUME NEW s \in Seq(Letters), NEW t \in Seq(Letters), NEW n \in Nat, n > Len(s)
  PROVE  /\ n \in Q!Starts(s \o t) => n - Len(s) \in Q!Starts(t)
         /\ n \in Q!MaybeMarker(s \o t) => n - Len(s) \in Q!MaybeMarker(t)
<1> DEFINE r == s \o t
           i == n - Len(s)
<1>1. /\ Len(s) \in Nat /\ Len(t) \in Nat /\ Len(r) = Len(s) + Len(t)
      /\ \A k \in 1..Len(t) : r[Len(s) + k] = t[k]
  BY ConcatProperties, LenProperties
<1>2. i \in Nat \ {0} /\ n = Len(s) + i
  BY <1>1
<1> HIDE DEF r, i
<1>3. ASSUME NEW m \in Markers, Q!IsAt(m, r, n), i <= Len(t) PROVE Q!IsAt(m, t, i)
  <2>1. ASSUME NEW k \in 1..Len(m), i + k - 1 <= Len(t) PROVE t[i + k - 1] = m[k]
    <3>1. k \in Nat \ {0} /\ i + k - 1 \in 1..Len(t) /\ n + k - 1 = Len(s) + (i + k - 1)
      BY <1>1, <1>2, <2>1, MarkerLength
    <3>2. r[n + k - 1] = t[i + k - 1]
      BY <1>1, <3>1
    <3>3. r[n + k - 1] = m[k]
      BY <1>1, <1>3, <3>1 DEF Q!IsAt
    <3> QED
      BY <3>2, <3>3
  <2> QED
    BY <2>1 DEF Q!IsAt
<1>4. ASSUME n \in Q!Starts(r) PROVE i \in Q!Starts(t)
  <2>1. PICK m \in Markers : n + Len(m) - 1 <= Len(r) /\ Q!IsAt(m, r, n)
    BY <1>4 DEF Q!Starts
  <2>2. n \in 1..Len(r) /\ i \in 1..Len(t) /\ i + Len(m) - 1 <= Len(t) /\ i <= Len(t)
    BY <1>1, <1>2, <1>4, <2>1, MarkerLength DEF Q!Starts
  <2> QED
    BY <1>3, <2>1, <2>2 DEF Q!Starts
<1>5. ASSUME n \in Q!MaybeMarker(r) PROVE i \in Q!MaybeMarker(t)
  <2>1. PICK m \in Markers : n + Len(m) - 1 > Len(r) /\ Q!IsAt(m, r, n)
    BY <1>5 DEF Q!MaybeMarker
  <2>2. n \in 1..Len(r) /\ i \in 1..Len(t) /\ i + Len(m) - 1 > Len(t) /\ i <= Len(t)
    BY <1>1, <1>2, <1>5, <2>1, MarkerLength DEF Q!MaybeMarker
  <2> QED
    BY <1>3, <2>1, <2>2 DEF Q!MaybeMarker
<1> QED
  BY <1>4, <1>5 DEF r, i

\* Where a marker begins in a text that is continued, it stood or had begun before.
LEMMA StartsBefore ==
  ASSUME NEW s \in Seq(Letters), NEW t \in Seq(Letters), NEW n \in Nat, n <= Len(s),
         n \in Q!Starts(s \o t) \cup Q!MaybeMarker(s \o t)
  PROVE  n \in Q!Starts(s) \cup Q!MaybeMarker(s)
<1> DEFINE r == s \o t
<1>1. /\ Len(s) \in Nat /\ Len(t) \in Nat /\ Len(r) = Len(s) + Len(t)
      /\ \A k \in 1..Len(s) : r[k] = s[k]
  BY ConcatProperties, LenProperties
<1> HIDE DEF r
<1>2. PICK m \in Markers : Q!IsAt(m, r, n) /\ n \in 1..Len(r)
  BY DEF Q!Starts, Q!MaybeMarker, r
<1>3. n \in 1..Len(s) /\ Len(m) \in Nat \ {0}
  BY <1>1, <1>2, MarkerLength
<1>4. ASSUME NEW k \in 1..Len(m), n + k - 1 <= Len(s) PROVE s[n + k - 1] = m[k]
  <2>1. n + k - 1 \in 1..Len(s) /\ n + k - 1 <= Len(r)
    BY <1>1, <1>3, <1>4
  <2> QED
    BY <1>1, <1>2, <1>4, <2>1 DEF Q!IsAt
<1>5. Q!IsAt(m, s, n)
  BY <1>4 DEF Q!IsAt
<1>6. n + Len(m) - 1 <= Len(s) \/ n + Len(m) - 1 > Len(s)
  BY <1>1, <1>3
<1> QED
  BY <1>3, <1>5, <1>6 DEF Q!Starts, Q!MaybeMarker

\* What is held back is the longest end that may begin a marker.
LEMMA HeldIsLeast ==
  ASSUME NEW t \in Seq(Letters)
  PROVE  Q!HeldFrom(t) \in 1..Len(t) + 1 /\ \A n \in Q!MaybeMarker(t) : Q!HeldFrom(t) <= n
<1> DEFINE ends == Q!MaybeMarker(t)
<1>1. ends \in SUBSET (1..Len(t)) /\ Len(t) \in Nat
  BY DEF Q!MaybeMarker
<1> HIDE DEF ends
<1>2. CASE ends = {}
  BY <1>1, <1>2 DEF Q!HeldFrom, ends
<1>3. CASE ends # {}
  <2> DEFINE IsLeast(n) == n \in ends /\ \A k \in ends : n <= k
  <2>1. \E n : IsLeast(n)
    BY <1>1, <1>3, Smallest
  <2>2. IsLeast(CHOOSE n : IsLeast(n))
    BY <2>1
  <2>3. Q!HeldFrom(t) = CHOOSE n \in ends : \A k \in ends : n <= k
    BY <1>3 DEF Q!HeldFrom, ends
  <2>4. Q!HeldFrom(t) \in ends /\ \A k \in ends : Q!HeldFrom(t) <= k
    BY <2>2, <2>3
  <2> QED
    BY <1>1, <2>4 DEF ends
<1> QED
  BY <1>2, <1>3

\* The shown part and a prefix of the rest are a prefix of the whole.
LEMMA PrefixOfConcat ==
  ASSUME NEW s \in Seq(Letters), NEW t \in Seq(Letters), NEW p \in 0..Len(t)
  PROVE  /\ SubSeq(t, 1, p) \in Seq(Letters) /\ Len(SubSeq(t, 1, p)) = p
         /\ s \o SubSeq(t, 1, p) = SubSeq(s \o t, 1, Len(s) + p)
<1>1. /\ Len(s) \in Nat /\ Len(t) \in Nat /\ Len(s \o t) = Len(s) + Len(t)
      /\ s \o t \in Seq(Letters)
      /\ \A k \in 1..Len(s) + Len(t) : (s \o t)[k] = IF k <= Len(s) THEN s[k] ELSE t[k - Len(s)]
  BY ConcatProperties, LenProperties
<1>2. /\ SubSeq(t, 1, p) \in Seq(Letters) /\ Len(SubSeq(t, 1, p)) = p
      /\ \A k \in 1..p : SubSeq(t, 1, p)[k] = t[k]
  BY <1>1
<1> DEFINE u == SubSeq(t, 1, p)
           r == s \o t
           q == Len(s) + p
<1> HIDE DEF u, r
<1>3. /\ s \o u \in Seq(Letters) /\ Len(s \o u) = q
      /\ \A k \in 1..q : (s \o u)[k] = IF k <= Len(s) THEN s[k] ELSE u[k - Len(s)]
  BY <1>2, ConcatProperties DEF u
<1>4. /\ SubSeq(r, 1, q) \in Seq(Letters) /\ Len(SubSeq(r, 1, q)) = q
      /\ \A k \in 1..q : SubSeq(r, 1, q)[k] = r[k]
  BY <1>1 DEF r
<1>5. ASSUME NEW k \in 1..q PROVE (s \o u)[k] = SubSeq(r, 1, q)[k]
  <2>1. k \in 1..Len(s) + Len(t) /\ (k > Len(s) => k - Len(s) \in 1..p)
    BY <1>1
  <2>2. k > Len(s) => u[k - Len(s)] = t[k - Len(s)]
    BY <1>2, <2>1 DEF u
  <2>3. r[k] = IF k <= Len(s) THEN s[k] ELSE t[k - Len(s)]
    BY <1>1, <2>1 DEF r
  <2> QED
    BY <1>1, <1>3, <1>4, <2>2, <2>3
<1>6. s \o u = SubSeq(r, 1, q)
  BY <1>3, <1>4, <1>5, SeqEqual
<1> QED
  BY <1>2, <1>6 DEF u, r

\* Texts are joined in any order.
LEMMA TextsJoin ==
  ASSUME NEW a \in Seq(Letters), NEW b \in Seq(Letters), NEW c \in Seq(Letters)
  PROVE  (a \o b) \o c = a \o (b \o c)
BY ConcatAssociative, Z3

\* A marker that has come stays, whatever comes before or after it.
LEMMA MarkersStay ==
  ASSUME NEW s \in Seq(Letters), NEW t \in Seq(Letters), Q!Internal(s) \/ Q!Internal(t)
  PROVE  Q!Internal(s \o t)
<1> DEFINE r == s \o t
<1>1. /\ Len(s) \in Nat /\ Len(t) \in Nat /\ Len(r) = Len(s) + Len(t)
      /\ \A k \in 1..Len(s) + Len(t) : r[k] = IF k <= Len(s) THEN s[k] ELSE t[k - Len(s)]
  BY ConcatProperties, LenProperties
<1> HIDE DEF r
<1>2. ASSUME NEW n \in Q!Starts(s) PROVE n \in Q!Starts(r)
  <2>1. PICK m \in Markers : n + Len(m) - 1 <= Len(s) /\ Q!IsAt(m, s, n)
    BY DEF Q!Starts
  <2>2. n \in 1..Len(s) /\ n \in 1..Len(r) /\ n + Len(m) - 1 <= Len(r) /\ Len(m) \in Nat
    BY <1>1, <2>1, MarkerLength DEF Q!Starts
  <2>3. ASSUME NEW k \in 1..Len(m) PROVE r[n + k - 1] = m[k]
    <3>1. n + k - 1 \in 1..Len(s) /\ n + k - 1 <= Len(s)
      BY <1>1, <2>1, <2>2
    <3> QED
      BY <1>1, <2>1, <3>1 DEF Q!IsAt
  <2> QED
    BY <2>1, <2>2, <2>3 DEF Q!Starts, Q!IsAt
<1>3. ASSUME NEW n \in Q!Starts(t) PROVE n + Len(s) \in Q!Starts(r)
  <2>1. PICK m \in Markers : n + Len(m) - 1 <= Len(t) /\ Q!IsAt(m, t, n)
    BY DEF Q!Starts
  <2> DEFINE i == n + Len(s)
  <2>2. n \in 1..Len(t) /\ i \in 1..Len(r) /\ i + Len(m) - 1 <= Len(r) /\ Len(m) \in Nat
    BY <1>1, <2>1, MarkerLength DEF Q!Starts
  <2>3. ASSUME NEW k \in 1..Len(m) PROVE r[i + k - 1] = m[k]
    <3>1. /\ n + k - 1 \in 1..Len(t) /\ n + k - 1 <= Len(t) /\ i + k - 1 \in 1..Len(s) + Len(t)
          /\ i + k - 1 > Len(s) /\ (i + k - 1) - Len(s) = n + k - 1
      BY <1>1, <2>1, <2>2
    <3>2. r[i + k - 1] = t[n + k - 1]
      BY <1>1, <3>1
    <3>3. t[n + k - 1] = m[k]
      BY <2>1, <3>1 DEF Q!IsAt
    <3> QED
      BY <3>2, <3>3
  <2> HIDE DEF i
  <2> QED
    BY <2>1, <2>2, <2>3 DEF Q!Starts, Q!IsAt, i
<1> QED
  BY <1>2, <1>3 DEF Q!Internal, r

\* The guard of a stream: what it holds back, and whether it is closed, fit what has come
\* and what of it is shown.
GuardReady(s, shown) ==
    /\ s.blocked \in BOOLEAN /\ s.pending \in Seq(Letters) /\ ~Q!Internal(shown)
    /\ ~s.blocked => /\ Q!Starts(shown \o s.pending) = {}
                     /\ \A n \in Q!MaybeMarker(shown \o s.pending) : n > Len(shown)

\* What it lets through shows no marker, and what it holds back may begin one.
GuardSound(s, shown, chunk, g) ==
    /\ g.show \in Seq(Letters) /\ g.pending \in Seq(Letters) /\ g.blocked \in BOOLEAN
    /\ ~Q!Internal(shown \o g.show)
    /\ g.blocked => g.pending = <<>>
    /\ s.blocked => g.blocked
    /\ g.blocked /\ ~s.blocked => Q!Internal((shown \o s.pending) \o chunk)
    /\ ~g.blocked =>
         /\ (shown \o s.pending) \o chunk = (shown \o g.show) \o g.pending
         /\ Q!Starts((shown \o s.pending) \o chunk) = {}
         /\ \A n \in Q!MaybeMarker((shown \o s.pending) \o chunk) : n > Len(shown \o g.show)

\* assistantOutputGuard.Write: no marker is let through, in whatever pieces it comes.
LEMMA GuardKeeps ==
  ASSUME NEW s, NEW shown \in Seq(Letters), NEW chunk \in Seq(Letters), GuardReady(s, shown)
  PROVE  GuardSound(s, shown, chunk, Q!GuardWrite(s, chunk))
<1> DEFINE g == Q!GuardWrite(s, chunk)
<1> SUFFICES GuardSound(s, shown, chunk, g)
  OBVIOUS
<1> USE DEF GuardReady, GuardSound
<1> HIDE DEF g
<1> DEFINE text == s.pending \o chunk
           raw == (shown \o s.pending) \o chunk
           starts == Q!Starts(text)
           first == CHOOSE n \in starts : \A k \in starts : n <= k
           held == Q!HeldFrom(text)
<1>1. /\ text \in Seq(Letters) /\ Len(text) \in Nat /\ Len(shown) \in Nat
      /\ shown \o s.pending \in Seq(Letters)
      /\ Len(shown \o s.pending) = Len(shown) + Len(s.pending)
      /\ Len(s.pending) \in Nat
  BY ConcatProperties, LenProperties
<1>2. raw = shown \o text /\ raw \in Seq(Letters) /\ Len(raw) = Len(shown) + Len(text)
  <2>1. raw = shown \o text
    BY TextsJoin
  <2> QED
    BY <1>1, <2>1, ConcatProperties
<1>3. CASE s.blocked
  <2>1. g.show = <<>> /\ g.pending = <<>> /\ g.blocked = TRUE
    BY <1>3 DEF Q!GuardWrite, g
  <2>2. shown \o g.show = shown /\ <<>> \in Seq(Letters)
    BY <2>1, ConcatEmptySeq
  <2> QED
    BY <1>3, <2>1, <2>2
<1>4. CASE ~s.blocked
  <2>1. ASSUME NEW n \in Q!Starts(raw) \cup Q!MaybeMarker(raw) PROVE n \in Nat /\ n > Len(shown)
    <3>1. n \in Nat
      BY DEF Q!Starts, Q!MaybeMarker
    <3>2. CASE n <= Len(shown)
      <4> DEFINE before == shown \o s.pending
      <4>1. n \in Q!Starts(before) \cup Q!MaybeMarker(before)
        <5>1. before \in Seq(Letters) /\ n <= Len(before)
                /\ n \in Q!Starts(before \o chunk) \cup Q!MaybeMarker(before \o chunk)
          BY <1>1, <2>1, <3>1, <3>2
        <5> HIDE DEF before
        <5> QED
          BY <3>1, <5>1, StartsBefore
      <4> QED
        BY <1>1, <1>4, <3>1, <3>2, <4>1
    <3> QED
      BY <1>1, <3>1, <3>2
  <2>2. ASSUME NEW n \in Q!Starts(raw) PROVE n - Len(shown) \in starts /\ n \in Nat
    BY <1>1, <1>2, <2>1, StartsOfConcat
  <2>3. ASSUME NEW n \in Q!MaybeMarker(raw)
        PROVE  n - Len(shown) \in Q!MaybeMarker(text) /\ n \in Nat
    BY <1>1, <1>2, <2>1, StartsOfConcat
  <2>4. CASE starts # {}
    <3>1. starts \in SUBSET (1..Len(text))
      BY DEF Q!Starts
    <3>2. first \in starts /\ \A k \in starts : first <= k
      <4> DEFINE IsLeast(n) == n \in starts /\ \A k \in starts : n <= k
      <4> HIDE DEF starts
      <4>1. \E n : IsLeast(n)
        BY <1>1, <2>4, <3>1, Smallest
      <4>2. IsLeast(CHOOSE n : IsLeast(n))
        BY <4>1
      <4> QED
        BY <4>2
    <3>3. g = [show |-> SubSeq(text, 1, first - 1), pending |-> <<>>, blocked |-> TRUE]
      BY <1>4, <2>4 DEF Q!GuardWrite, g
    <3> DEFINE p == first - 1
    <3> HIDE DEF starts, first, text, raw
    <3>4. p \in 0..Len(text) /\ Len(shown) + p \in 0..Len(raw)
      BY <1>1, <1>2, <3>1, <3>2
    <3>5. g.show = SubSeq(text, 1, p) /\ g.show \in Seq(Letters)
            /\ shown \o g.show = SubSeq(raw, 1, Len(shown) + p)
      BY <1>1, <1>2, <3>3, <3>4, PrefixOfConcat
    <3>6. \A n \in Q!Starts(raw) : n > Len(shown) + p
      BY <1>1, <2>2, <3>1, <3>2
    <3>7. ~Q!Internal(shown \o g.show)
      BY <1>2, <3>4, <3>5, <3>6, PrefixIsClean
    <3> QED
      <4>1. Q!Internal(raw)
        BY <1>1, <1>2, <2>4, MarkersStay DEF Q!Internal, starts
      <4> QED
        BY <3>3, <3>5, <3>7, <4>1, EmptySeq DEF raw
  <2>5. CASE starts = {}
    <3>1. g = [show |-> SubSeq(text, 1, held - 1), pending |-> SubSeq(text, held, Len(text)),
               blocked |-> FALSE]
      BY <1>4, <2>5 DEF Q!GuardWrite, g
    <3>2. held \in 1..Len(text) + 1 /\ \A n \in Q!MaybeMarker(text) : held <= n
      BY <1>1, HeldIsLeast
    <3>3. Q!Starts(raw) = {}
      BY <2>2, <2>5
    <3> DEFINE p == held - 1
    <3> HIDE DEF starts, held, text, raw
    <3>4. p \in 0..Len(text) /\ Len(shown) + p \in 0..Len(raw) /\ held = p + 1 /\ held \in Int
            /\ Len(text) \in Int
      BY <1>1, <1>2, <3>2
    <3>5. g.show = SubSeq(text, 1, p) /\ g.show \in Seq(Letters)
            /\ shown \o g.show = SubSeq(raw, 1, Len(shown) + p)
          /\ Len(g.show) = p
      <4>1. g.show = SubSeq(text, 1, p)
        BY <3>1
      <4> HIDE DEF g, p
      <4> QED
        BY <1>1, <1>2, <3>4, <4>1, PrefixOfConcat
    <3>6. ~Q!Internal(shown \o g.show)
      BY <1>2, <3>3, <3>4, <3>5, PrefixIsClean
    <3>7. g.pending = SubSeq(text, p + 1, Len(text)) /\ g.pending \in Seq(Letters)
      <4>1. \A i \in held..Len(text) : text[i] \in Letters
        BY <1>1, <3>2
      <4>2. SubSeq(text, held, Len(text)) \in Seq(Letters)
        BY <3>4, <4>1, SubSeqProperties
      <4> QED
        BY <3>1, <3>4, <4>2
    <3>8. g.show \o g.pending = text
      <4>1. 1 \in 1..Len(text) + 1 /\ p \in 1 - 1..Len(text) /\ Len(text) \in p..Len(text)
        BY <1>1, <3>4
      <4>2. SubSeq(text, 1, p) \o SubSeq(text, p + 1, Len(text)) = SubSeq(text, 1, Len(text))
        BY <1>1, <4>1, ConcatAdjacentSubSeq
      <4> QED
        BY <1>1, <3>5, <3>7, <4>2, SubSeqFull
    <3>9. raw = (shown \o g.show) \o g.pending
      <4> DEFINE a == g.show
                 b == g.pending
      <4>1. a \in Seq(Letters) /\ b \in Seq(Letters)
        BY <3>5, <3>7
      <4>2. (shown \o a) \o b = shown \o (a \o b)
        <5> HIDE DEF a, b
        <5> QED
          BY <4>1, TextsJoin
      <4> QED
        BY <1>2, <3>8, <4>2
    <3>10. \A n \in Q!MaybeMarker(raw) : n > Len(shown \o g.show)
      <4>1. Len(shown \o g.show) = Len(shown) + p
        BY <3>5, ConcatProperties
      <4>2. Q!MaybeMarker(text) \in SUBSET Nat
        BY DEF Q!MaybeMarker
      <4> QED
        BY <1>1, <2>3, <3>2, <3>4, <4>1, <4>2
    <3>11. g.blocked = FALSE
      BY <3>1
    <3>12. g.show \in Seq(Letters) /\ g.pending \in Seq(Letters) /\ ~Q!Internal(shown \o g.show)
      BY <3>5, <3>6, <3>7
    <3> QED
      BY <1>4, <3>3, <3>9, <3>10, <3>11, <3>12 DEF raw
  <2> QED
    BY <2>4, <2>5
<1> QED
  BY <1>3, <1>4

\* What clients may be shown of messages.
TurnViews == [Q!Ids -> [text : Seq(Letters), state : Q!States]]

\* One message is shown as m, and whatever else was open is taken back.
TurnShows(id, m) ==
    screen' = [i \in Q!Ids |-> IF i = id THEN m ELSE Q!ResetAll(screen)[i]]

\* What the operations on messages do to each of them.
LEMMA ShowSteps ==
  ASSUME NEW v \in TurnViews, NEW id \in Q!Ids
  PROVE  /\ Q!ResetAll(v) = [i \in Q!Ids |-> IF v[i].state = "open" THEN Q!Absent ELSE v[i]]
         /\ Q!Reset(v, id) = [i \in Q!Ids |-> IF i = id /\ v[i].state = "open" THEN Q!Absent
              ELSE v[i]]
         /\ \A text \in Seq(Letters) :
              Q!Shown(v, id, text) =
                [i \in Q!Ids |-> IF i # id \/ text = <<>> THEN v[i]
                                 ELSE [text |-> v[id].text \o text,
                                       state |-> IF v[id].state = "none" THEN "open"
                                         ELSE v[id].state]]
         /\ \A state \in {"progress", "completed"} : Q!Committed(v, id, state) =
                [i \in Q!Ids |-> IF i = id /\ v[i].state = "open"
                                 THEN [text |-> v[i].text, state |-> state] ELSE v[i]]
<1>1. Q!ResetAll(v) = [i \in Q!Ids |-> IF v[i].state = "open" THEN Q!Absent ELSE v[i]]
  BY DEF Q!ResetAll
<1>2. Q!Reset(v, id) = [i \in Q!Ids |-> IF i = id /\ v[i].state = "open" THEN Q!Absent ELSE v[i]]
  BY DEF Q!Reset, TurnViews
<1>3. ASSUME NEW text \in Seq(Letters)
      PROVE  Q!Shown(v, id, text) =
                [i \in Q!Ids |-> IF i # id \/ text = <<>> THEN v[i]
                                 ELSE [text |-> v[id].text \o text,
                                       state |-> IF v[id].state = "none" THEN "open"
                                         ELSE v[id].state]]
  BY DEF Q!Shown, TurnViews
<1>4. ASSUME NEW state \in {"progress", "completed"}
      PROVE  Q!Committed(v, id, state) =
                [i \in Q!Ids |-> IF i = id /\ v[i].state = "open"
                                 THEN [text |-> v[i].text, state |-> state] ELSE v[i]]
  <2>1. v[id] \in [text : Seq(Letters), state : Q!States]
    BY DEF TurnViews
  <2>2. [v[id] EXCEPT !.state = state] = [text |-> v[id].text, state |-> state]
    BY <2>1
  <2>3. CASE v[id].state = "open"
    <3>1. Q!Committed(v, id, state) = [v EXCEPT ![id] = [v[id] EXCEPT !.state = state]]
      BY <2>3 DEF Q!Committed
    <3> QED
      BY <2>2, <2>3, <3>1 DEF TurnViews
  <2>4. CASE v[id].state # "open"
    BY <2>4 DEF Q!Committed, TurnViews
  <2> QED
    BY <2>3, <2>4
<1> QED
  BY <1>1, <1>2, <1>3, <1>4

\* The numbers of messages.
LEMMA TurnNumbers == 0 \in Q!Ids /\ MaxOutputs \in Nat /\ Q!Ids \subseteq Nat /\ Q!NoId = 0
BY TurnBounds DEF Q!Ids, Q!NoId

\* The empty text shows no marker.
LEMMA NothingIsClean == <<>> \in Seq(Letters) /\ ~Q!Internal(<<>>)
BY DEF Q!Internal, Q!Starts

\* A step that stores nothing: one message that is not settled is shown, or none.
LEMMA ShowsKeep ==
  ASSUME Q!IInv, phase # "over", NEW id \in Q!Ids, id > 0, ~Q!Settled(id), NEW m, TurnShows(id, m),
         m = Q!Absent \/ (phase' # "over" /\ \E text \in Seq(Letters) :
                             text # <<>> /\ ~Q!Internal(text)
                               /\ m = [text |-> text, state |-> "open"]),
         UNCHANGED answerRows
  PROVE  /\ screen' \in TurnViews /\ Q!ShownIsStored' /\ Q!NothingInternalIsShown'
         /\ \A i \in Q!Ids : screen'[i].state = "open" => i = id /\ m # Q!Absent
         /\ \A i \in Q!Ids : (screen'[i].state = "none") = (screen'[i].text = <<>>)
         /\ screen'[Q!NoId] = Q!Absent
         /\ \A i \in Q!Ids : i > outputs /\ i # id => screen'[i] = Q!Absent
<1> DEFINE closed == Q!ResetAll(screen)
<1>1. /\ screen \in TurnViews
      /\ answerRows \in Seq([id : Q!Ids, role : {"assistant", "assistant_progress"},
                             text : Seq(Letters)])
  BY DEF Q!IInv, Q!TypeOK, TurnViews
<1>2. \A i \in Q!Ids : closed[i] = IF screen[i].state = "open" THEN Q!Absent ELSE screen[i]
  BY <1>1, TurnNumbers, ShowSteps
<1>3. /\ \A i \in Q!Ids : screen'[i] = IF i = id THEN m ELSE closed[i]
      /\ screen' = [i \in Q!Ids |-> IF i = id THEN m ELSE closed[i]]
  BY DEF TurnShows
<1>4. Q!Absent \in [text : Seq(Letters), state : Q!States] /\ Q!Absent.text = <<>>
        /\ Q!Absent.state = "none"
  BY DEF Q!Absent, Q!States
<1>5. /\ m \in [text : Seq(Letters), state : Q!States] /\ ~Q!Internal(m.text)
      /\ (m.state = "none") = (m.text = <<>>) /\ m.state \in {"none", "open"}
      /\ m.state = "open" => m # Q!Absent /\ phase' # "over"
  BY <1>4, NothingIsClean DEF Q!States
<1> HIDE DEF closed
<1>6. screen' \in TurnViews
  <2>1. \A i \in Q!Ids :
          (IF i = id THEN m ELSE closed[i]) \in [text : Seq(Letters), state : Q!States]
    BY <1>1, <1>2, <1>4, <1>5 DEF TurnViews
  <2> QED
    BY <1>3, <2>1 DEF TurnViews
<1>7. \A n \in DOMAIN answerRows : answerRows[n].id \in Q!Ids
        /\ answerRows[n].role \in {"assistant", "assistant_progress"}
  <2> DEFINE Row == [id : Q!Ids, role : {"assistant", "assistant_progress"}, text : Seq(Letters)]
  <2>1. \A n \in DOMAIN answerRows : answerRows[n] \in Row
    <3> HIDE DEF Row
    <3> QED
      BY <1>1, LenProperties DEF Row
  <2> QED
    BY <2>1
<1>8. \A n \in DOMAIN answerRows : answerRows[n].id # id
        /\ screen'[answerRows[n].id] = screen[answerRows[n].id]
  <2>1. ASSUME NEW n \in DOMAIN answerRows
          PROVE screen[answerRows[n].id].state \in {"completed", "progress"}
    <3>1. screen[answerRows[n].id] = [text |-> answerRows[n].text,
                       state |-> IF answerRows[n].role = "assistant" THEN "completed"
                         ELSE "progress"]
      BY DEF Q!IInv, Q!ShownIsStored
    <3> QED
      BY <3>1
  <2> QED
    BY <1>2, <1>3, <1>7, <2>1 DEF Q!Settled
<1>9. Q!ShownIsStored'
  <2>1. \A n \in DOMAIN answerRows :
          screen'[answerRows[n].id] = [text |-> answerRows[n].text,
                       state |-> IF answerRows[n].role = "assistant" THEN "completed"
                         ELSE "progress"]
    BY <1>8 DEF Q!IInv, Q!ShownIsStored
  <2>2. ASSUME NEW i \in Q!Ids, screen'[i].state \in {"progress", "completed"}
        PROVE  \E n \in DOMAIN answerRows : answerRows[n].id = i
    BY <1>2, <1>3, <1>4, <1>5, <2>2 DEF Q!IInv, Q!ShownIsStored, Q!Settled
  <2>3. ASSUME phase' = "over", NEW i \in Q!Ids PROVE screen'[i].state # "open"
    BY <1>2, <1>3, <1>4, <1>5, <2>3
  <2>4. \A n, k \in DOMAIN answerRows : n < k => answerRows[n].id < answerRows[k].id
    BY DEF Q!IInv, Q!ShownIsStored
  <2> QED
    BY <2>1, <2>2, <2>3, <2>4 DEF Q!ShownIsStored, Q!Settled
<1>10. Q!NothingInternalIsShown'
  <2>1. \A i \in Q!Ids : ~Q!Internal(screen'[i].text)
    BY <1>2, <1>3, <1>4, <1>5, NothingIsClean DEF Q!IInv, Q!NothingInternalIsShown
  <2>2. \A n \in DOMAIN answerRows : ~Q!Internal(answerRows[n].text)
    BY DEF Q!IInv, Q!NothingInternalIsShown
  <2> QED
    BY <2>1, <2>2 DEF Q!NothingInternalIsShown
<1>11. \A i \in Q!Ids : screen'[i].state = "open" => i = id /\ m # Q!Absent
  BY <1>2, <1>3, <1>4, <1>5
<1>12. \A i \in Q!Ids : (screen'[i].state = "none") = (screen'[i].text = <<>>)
  BY <1>2, <1>3, <1>4, <1>5 DEF Q!IInv, Q!ViewInv
<1>13. screen'[Q!NoId] = Q!Absent
  BY <1>2, <1>3, <1>4, TurnNumbers DEF Q!IInv, Q!ViewInv
<1>14. \A i \in Q!Ids : i > outputs /\ i # id => screen'[i] = Q!Absent
  BY <1>2, <1>3, <1>4 DEF Q!IInv, Q!ViewInv
<1> QED
  BY <1>6, <1>9, <1>10, <1>11, <1>12, <1>13, <1>14

\* A step that stores the message it shows.
LEMMA StoresKeep ==
  ASSUME Q!IInv, phase # "over", NEW id \in Q!Ids,
         \A n \in DOMAIN answerRows : answerRows[n].id < id,
         NEW text \in Seq(Letters), text # <<>>, ~Q!Internal(text),
         NEW role \in {"assistant", "assistant_progress"},
         NEW state, state = (IF role = "assistant" THEN "completed" ELSE "progress"), id > 0,
         TurnShows(id, [text |-> text, state |-> state]), Q!Stored(role, id, text)
  PROVE  /\ screen' \in TurnViews /\ Q!ShownIsStored' /\ Q!NothingInternalIsShown'
         /\ answerRows' \in Seq([id : Q!Ids, role : {"assistant", "assistant_progress"},
                                 text : Seq(Letters)])
         /\ \A i \in Q!Ids : screen'[i].state # "open"
         /\ \A i \in Q!Ids : (screen'[i].state = "none") = (screen'[i].text = <<>>)
         /\ screen'[Q!NoId] = Q!Absent
         /\ \A i \in Q!Ids : i > outputs /\ i # id => screen'[i] = Q!Absent
         /\ Len(answerRows') = Len(answerRows) + 1 /\ answerRows'[Len(answerRows')].role = role
         /\ \A n \in DOMAIN answerRows' : n # Len(answerRows') =>
               n \in DOMAIN answerRows /\ answerRows'[n] = answerRows[n]
<1> DEFINE closed == Q!ResetAll(screen)
           Row == [id : Q!Ids, role : {"assistant", "assistant_progress"}, text : Seq(Letters)]
           row == [id |-> id, role |-> role, text |-> text]
           m == [text |-> text, state |-> state]
<1>1. screen \in TurnViews /\ answerRows \in Seq(Row)
  BY DEF Q!IInv, Q!TypeOK, TurnViews
<1>2. \A i \in Q!Ids : closed[i] = IF screen[i].state = "open" THEN Q!Absent ELSE screen[i]
  BY <1>1, TurnNumbers, ShowSteps
<1>3. /\ \A i \in Q!Ids : screen'[i] = IF i = id THEN m ELSE closed[i]
      /\ screen' = [i \in Q!Ids |-> IF i = id THEN m ELSE closed[i]]
  BY DEF TurnShows
<1>4. Q!Absent \in [text : Seq(Letters), state : Q!States] /\ Q!Absent.text = <<>>
        /\ Q!Absent.state = "none"
  BY DEF Q!Absent, Q!States
<1>5. /\ m \in [text : Seq(Letters), state : Q!States] /\ m.text = text /\ m.state = state
      /\ state \in {"completed", "progress"}
  BY DEF Q!States
<1>6. /\ answerRows' \in Seq(Row) /\ Len(answerRows') = Len(answerRows) + 1
      /\ Len(answerRows) \in Nat
      /\ DOMAIN answerRows = 1..Len(answerRows) /\ DOMAIN answerRows' = 1..Len(answerRows) + 1
      /\ \A n \in 1..Len(answerRows) : answerRows'[n] = answerRows[n]
      /\ answerRows'[Len(answerRows) + 1] = row
  <2>1. row \in Row /\ answerRows' = Append(answerRows, row)
    BY DEF Q!Stored
  <2> HIDE DEF Row, row
  <2>2. answerRows' \in Seq(Row) /\ Len(answerRows') = Len(answerRows) + 1
          /\ Len(answerRows) \in Nat
    BY <1>1, <2>1, AppendProperties
  <2> QED
    BY <1>1, <2>1, <2>2, AppendProperties, LenProperties
<1> HIDE DEF closed, m
<1>7. screen' \in TurnViews
  <2>1. \A i \in Q!Ids :
          (IF i = id THEN m ELSE closed[i]) \in [text : Seq(Letters), state : Q!States]
    BY <1>1, <1>2, <1>4, <1>5 DEF TurnViews
  <2> QED
    BY <1>3, <2>1 DEF TurnViews
<1>8. \A n \in DOMAIN answerRows : answerRows[n].id \in Q!Ids
        /\ answerRows[n].role \in {"assistant", "assistant_progress"}
  <2>1. \A n \in DOMAIN answerRows : answerRows[n] \in Row
    <3> HIDE DEF Row
    <3> QED
      BY <1>1, LenProperties
  <2> QED
    BY <2>1
<1>9. \A n \in DOMAIN answerRows : answerRows[n].id # id
        /\ screen'[answerRows[n].id] = screen[answerRows[n].id]
  <2>1. ASSUME NEW n \in DOMAIN answerRows
          PROVE screen[answerRows[n].id].state \in {"completed", "progress"}
    <3>1. screen[answerRows[n].id] = [text |-> answerRows[n].text,
                       state |-> IF answerRows[n].role = "assistant" THEN "completed"
                         ELSE "progress"]
      BY DEF Q!IInv, Q!ShownIsStored
    <3> QED
      BY <3>1
  <2>2. \A n \in DOMAIN answerRows : answerRows[n].id # id
    BY <1>8, TurnNumbers
  <2> QED
    BY <1>2, <1>3, <1>8, <2>1, <2>2
<1>10. Q!ShownIsStored'
  <2>1. ASSUME NEW n \in DOMAIN answerRows'
        PROVE  screen'[answerRows'[n].id] = [text |-> answerRows'[n].text,
                       state |-> IF answerRows'[n].role = "assistant" THEN "completed"
                         ELSE "progress"]
    <3>1. CASE n \in DOMAIN answerRows
      <4>1. answerRows'[n] = answerRows[n]
        BY <1>6, <3>1
      <4> QED
        BY <1>9, <3>1, <4>1 DEF Q!IInv, Q!ShownIsStored
    <3>2. CASE n = Len(answerRows) + 1
      BY <1>3, <1>6, <3>2 DEF m
    <3> QED
      BY <1>6, <3>1, <3>2
  <2>2. ASSUME NEW i \in Q!Ids, screen'[i].state \in {"progress", "completed"}
        PROVE  \E n \in DOMAIN answerRows' : answerRows'[n].id = i
    <3>1. CASE i = id
      <4>1. Len(answerRows) + 1 \in DOMAIN answerRows' /\ answerRows'[Len(answerRows) + 1].id = id
        BY <1>6
      <4> QED
        BY <3>1, <4>1
    <3>2. CASE i # id
      <4>1. screen[i].state \in {"progress", "completed"}
        BY <1>2, <1>3, <1>4, <2>2, <3>2
      <4>2. PICK n \in DOMAIN answerRows : answerRows[n].id = i
        BY <4>1 DEF Q!IInv, Q!ShownIsStored, Q!Settled
      <4> QED
        BY <1>6, <4>2
    <3> QED
      BY <3>1, <3>2
  <2>3. ASSUME NEW i \in Q!Ids PROVE screen'[i].state # "open"
    BY <1>2, <1>3, <1>4, <1>5, <2>3
  <2>4. ASSUME NEW n \in DOMAIN answerRows', NEW k \in DOMAIN answerRows', n < k
        PROVE  answerRows'[n].id < answerRows'[k].id
    <3>1. n \in DOMAIN answerRows /\ answerRows'[n] = answerRows[n]
      BY <1>6, <2>4
    <3>2. CASE k \in DOMAIN answerRows
      BY <1>6, <2>4, <3>1, <3>2 DEF Q!IInv, Q!ShownIsStored
    <3>3. CASE k = Len(answerRows) + 1
      BY <1>6, <3>1, <3>3
    <3> QED
      BY <1>6, <3>2, <3>3
  <2> QED
    BY <2>1, <2>2, <2>3, <2>4 DEF Q!ShownIsStored, Q!Settled
<1>11. Q!NothingInternalIsShown'
  <2>1. \A i \in Q!Ids : ~Q!Internal(screen'[i].text)
    BY <1>2, <1>3, <1>4, <1>5, NothingIsClean DEF Q!IInv, Q!NothingInternalIsShown
  <2>2. ASSUME NEW n \in DOMAIN answerRows' PROVE ~Q!Internal(answerRows'[n].text)
    <3>1. CASE n \in DOMAIN answerRows
      <4>1. answerRows'[n] = answerRows[n]
        BY <1>6, <3>1
      <4> QED
        BY <3>1, <4>1 DEF Q!IInv, Q!NothingInternalIsShown
    <3>2. CASE n = Len(answerRows) + 1
      BY <1>6, <3>2
    <3> QED
      BY <1>6, <3>1, <3>2
  <2> QED
    BY <2>1, <2>2 DEF Q!NothingInternalIsShown
<1>12. \A i \in Q!Ids : screen'[i].state # "open"
         /\ (screen'[i].state = "none") = (screen'[i].text = <<>>)
  BY <1>2, <1>3, <1>4, <1>5 DEF Q!IInv, Q!ViewInv
<1>13. screen'[Q!NoId] = Q!Absent
  BY <1>2, <1>3, <1>4, TurnNumbers DEF Q!IInv, Q!ViewInv
<1>14. \A i \in Q!Ids : i > outputs /\ i # id => screen'[i] = Q!Absent
  BY <1>2, <1>3, <1>4 DEF Q!IInv, Q!ViewInv
<1> QED
  BY <1>6, <1>7, <1>10, <1>11, <1>12, <1>13, <1>14

\* Rows of a turn, and candidates for its answer.
TurnRow == [id : Q!Ids, role : {"assistant", "assistant_progress"}, text : Seq(Letters)]
TurnCandidates == [text : Seq(Letters), id : Q!Ids]

\* What the invariant says of the numbers, the texts and the rows of a turn.
LEMMA TurnFacts ==
  ASSUME Q!IInv
  PROVE  /\ screen \in TurnViews /\ answerRows \in Seq(TurnRow) /\ candidate \in TurnCandidates
         /\ stream.id \in Q!Ids /\ stream.raw \in Seq(Letters) /\ stream.pending \in Seq(Letters)
         /\ stream.blocked \in BOOLEAN
         /\ outputs \in 0..MaxOutputs /\ letters \in 0..MaxText /\ MaxOutputs \in Nat
         /\ MaxText \in Nat
         /\ outputs + 1 \in Q!Ids /\ outputs + 1 > 0 /\ outputs \in Q!Ids /\ outputs \in Nat
         /\ phase # "over" => screen[outputs + 1] = Q!Absent /\ ~Q!Settled(outputs + 1)
              /\ outcome = "running"
         /\ phase # "over" => \A n \in DOMAIN answerRows : answerRows[n].id \in Nat
              /\ answerRows[n].id <= outputs
<1>1. screen \in TurnViews /\ answerRows \in Seq(TurnRow) /\ candidate \in TurnCandidates
  BY DEF Q!IInv, Q!TypeOK, TurnViews, TurnRow, TurnCandidates
<1>2. /\ stream.id \in Q!Ids /\ stream.raw \in Seq(Letters) /\ stream.pending \in Seq(Letters)
      /\ stream.blocked \in BOOLEAN
  BY DEF Q!IInv, Q!TypeOK
<1>3. /\ outputs \in 0..MaxOutputs /\ letters \in 0..MaxText /\ MaxOutputs \in Nat
      /\ MaxText \in Nat
      /\ (phase = "over") = (outcome # "running")
  BY TurnBounds DEF Q!IInv, Q!TypeOK
<1>4. outputs + 1 \in Q!Ids /\ outputs + 1 > 0 /\ outputs \in Q!Ids /\ outputs \in Nat
  BY <1>3 DEF Q!Ids, Q!NoId
<1>5. ASSUME phase # "over"
      PROVE  screen[outputs + 1] = Q!Absent /\ ~Q!Settled(outputs + 1)
  <2>1. screen[outputs + 1] = Q!Absent
    BY <1>4, <1>5 DEF Q!IInv, Q!ViewInv
  <2> QED
    BY <2>1 DEF Q!Settled, Q!Absent
<1>6. ASSUME phase # "over", NEW n \in DOMAIN answerRows
      PROVE  answerRows[n].id \in Nat /\ answerRows[n].id <= outputs
  <2>1. answerRows[n] \in TurnRow
    <3> HIDE DEF TurnRow
    <3> QED
      BY <1>1, LenProperties
  <2>2. answerRows[n].id \in Q!Ids /\ answerRows[n].id \in Nat
    BY <2>1, TurnNumbers DEF TurnRow
  <2>3. screen[answerRows[n].id].state \in {"completed", "progress"}
    <3>1. screen[answerRows[n].id] = [text |-> answerRows[n].text,
                       state |-> IF answerRows[n].role = "assistant" THEN "completed"
                         ELSE "progress"]
      BY DEF Q!IInv, Q!ShownIsStored
    <3> QED
      BY <3>1
  <2>4. answerRows[n].id > outputs => screen[answerRows[n].id] = Q!Absent
    BY <1>6, <2>2 DEF Q!IInv, Q!ViewInv
  <2> QED
    BY <1>4, <2>2, <2>3, <2>4 DEF Q!Absent
<1>7. (phase = "over") = (outcome # "running")
  BY <1>3
<1> QED
  BY <1>1, <1>2, <1>3, <1>4, <1>5, <1>6

\* What is shown once whatever was open is taken back.
LEMMA ClosedView ==
  ASSUME Q!IInv, phase # "over", screen' = Q!ResetAll(screen), UNCHANGED answerRows
  PROVE  /\ screen' \in TurnViews /\ Q!ShownIsStored' /\ Q!NothingInternalIsShown'
         /\ \A i \in Q!Ids : screen'[i].state # "open"
         /\ \A i \in Q!Ids : (screen'[i].state = "none") = (screen'[i].text = <<>>)
         /\ screen'[Q!NoId] = Q!Absent
         /\ \A i \in Q!Ids : i > outputs => screen'[i] = Q!Absent
<1> DEFINE id == outputs + 1
<1>1. /\ id \in Q!Ids /\ id > 0 /\ screen[id] = Q!Absent /\ ~Q!Settled(id)
      /\ screen \in TurnViews /\ answerRows \in Seq(TurnRow) /\ outputs \in Nat
      /\ MaxOutputs \in Nat
  BY TurnFacts
<1>2. TurnShows(id, Q!Absent)
  <2>1. Q!ResetAll(screen) = [i \in Q!Ids |-> IF screen[i].state = "open" THEN Q!Absent
          ELSE screen[i]]
    BY <1>1, ShowSteps
  <2> HIDE DEF id
  <2>2. \A i \in Q!Ids : Q!ResetAll(screen)[i] = IF i = id THEN Q!Absent ELSE Q!ResetAll(screen)[i]
    BY <1>1, <2>1
  <2>3. screen' = [i \in Q!Ids |-> Q!ResetAll(screen)[i]]
    BY <2>1
  <2> QED
    BY <2>2, <2>3 DEF TurnShows
<1>3. /\ screen' \in TurnViews /\ Q!ShownIsStored' /\ Q!NothingInternalIsShown'
      /\ \A i \in Q!Ids : screen'[i].state # "open"
      /\ \A i \in Q!Ids : (screen'[i].state = "none") = (screen'[i].text = <<>>)
      /\ screen'[Q!NoId] = Q!Absent
      /\ \A i \in Q!Ids : i > outputs /\ i # id => screen'[i] = Q!Absent
      /\ screen'[id] = Q!Absent
  <2> HIDE DEF id
  <2>1. /\ screen' \in TurnViews /\ Q!ShownIsStored' /\ Q!NothingInternalIsShown'
        /\ \A i \in Q!Ids : screen'[i].state = "open" => i = id /\ Q!Absent # Q!Absent
        /\ \A i \in Q!Ids : (screen'[i].state = "none") = (screen'[i].text = <<>>)
        /\ screen'[Q!NoId] = Q!Absent
        /\ \A i \in Q!Ids : i > outputs /\ i # id => screen'[i] = Q!Absent
    BY <1>1, <1>2, ShowsKeep
  <2> QED
    BY <1>1, <1>2, <2>1 DEF TurnShows
<1> QED
  BY <1>3

\* A step that takes back whatever was open and shows nothing.
LEMMA ClosingKeeps ==
  ASSUME Q!IInv, phase # "over", screen' = Q!ResetAll(screen), UNCHANGED answerRows,
         stream' = Q!NoStream, phase' \in {"loop", "over"},
         candidate' \in TurnCandidates, (candidate'.id = Q!NoId) = (candidate'.text = <<>>),
         \/ candidate' = Q!Nothing \/ phase' = "over"
         \/ /\ Q!Internal(candidate'.text) /\ candidate'.id <= outputs'
            /\ \A n \in DOMAIN answerRows : answerRows[n].id < candidate'.id,
         progress' \in [activity : BOOLEAN, tools : BOOLEAN, interrupted : BOOLEAN],
         outcome' \in {"running", "answered", "failed", "steered"},
         (phase' = "over") = (outcome' # "running"),
         outcome' = "answered" => progress'.interrupted,
         outputs' \in outputs..MaxOutputs, letters' \in 0..MaxText
  PROVE  Q!IInv'
<1>1. screen \in TurnViews /\ answerRows \in Seq(TurnRow) /\ outputs \in Nat /\ MaxOutputs \in Nat
  BY TurnFacts
<1>3. /\ screen' \in TurnViews /\ Q!ShownIsStored' /\ Q!NothingInternalIsShown'
      /\ \A i \in Q!Ids : screen'[i].state # "open"
      /\ \A i \in Q!Ids : (screen'[i].state = "none") = (screen'[i].text = <<>>)
      /\ screen'[Q!NoId] = Q!Absent
      /\ \A i \in Q!Ids : i > outputs => screen'[i] = Q!Absent
  BY ClosedView
<1>4. Q!TypeOK'
  <2>1. /\ phase' \in {"loop", "stream", "finish", "over"} /\ outputs' \in 0..MaxOutputs
        /\ letters' \in 0..MaxText
    BY <1>1
  <2>2. stream' \in [id : Q!Ids, raw : Seq(Letters), pending : Seq(Letters), blocked : BOOLEAN,
                     calls : BOOLEAN, reasoned : BOOLEAN]
    BY TurnNumbers, NothingIsClean DEF Q!NoStream
  <2> QED
    BY <1>1, <1>3, <2>1, <2>2 DEF Q!TypeOK, TurnViews, TurnRow, TurnCandidates
<1>5. Q!StreamInv'
  BY DEF Q!StreamInv
<1>6. Q!CandidateInv'
  BY DEF Q!CandidateInv, Q!Nothing
<1>7. Q!ViewInv'
  <2>1. outputs' >= outputs /\ outputs' \in Nat
    BY <1>1
  <2>2. ASSUME NEW i \in Q!Ids, i > outputs' PROVE i > outputs
    BY <1>1, <2>1, <2>2, TurnNumbers
  <2>3. \A i \in Q!Ids : i > outputs' => screen'[i] = Q!Absent
    BY <1>3, <2>2
  <2> QED
    BY <1>3, <2>3 DEF Q!ViewInv
<1>8. Q!RowsInv'
  <2>1. \A n \in DOMAIN answerRows : answerRows[n].role # "assistant"
    BY TurnFacts DEF Q!IInv, Q!RowsInv
  <2> QED
    BY <2>1 DEF Q!RowsInv
<1> QED
  BY <1>3, <1>4, <1>5, <1>6, <1>7, <1>8 DEF Q!IInv

\* A step that stores a message and shows it for good.
LEMMA StoringKeeps ==
  ASSUME Q!IInv, phase # "over", NEW id \in Q!Ids, id > 0,
         \A n \in DOMAIN answerRows : answerRows[n].id < id,
         NEW text \in Seq(Letters), text # <<>>, ~Q!Internal(text),
         NEW role \in {"assistant", "assistant_progress"},
         NEW state, state = (IF role = "assistant" THEN "completed" ELSE "progress"),
         TurnShows(id, [text |-> text, state |-> state]), Q!Stored(role, id, text),
         stream' = Q!NoStream, phase' \in {"loop", "over"},
         phase' = "loop" => candidate' = Q!Nothing /\ id <= outputs',
         candidate' \in TurnCandidates, (candidate'.id = Q!NoId) = (candidate'.text = <<>>),
         progress' \in [activity : BOOLEAN, tools : BOOLEAN, interrupted : BOOLEAN],
         outcome' \in {"running", "answered", "failed", "steered"},
         (phase' = "over") = (outcome' # "running"),
         (outcome' = "answered") = (role = "assistant"),
         outputs' \in outputs..MaxOutputs, letters' \in 0..MaxText
  PROVE  Q!IInv'
<1>1. outputs \in Nat /\ MaxOutputs \in Nat /\ Q!Ids \subseteq Nat
  BY TurnFacts, TurnNumbers
<1>2. /\ screen' \in TurnViews /\ Q!ShownIsStored' /\ Q!NothingInternalIsShown'
      /\ answerRows' \in Seq(TurnRow)
      /\ \A i \in Q!Ids : screen'[i].state # "open"
      /\ \A i \in Q!Ids : (screen'[i].state = "none") = (screen'[i].text = <<>>)
      /\ screen'[Q!NoId] = Q!Absent
      /\ \A i \in Q!Ids : i > outputs /\ i # id => screen'[i] = Q!Absent
      /\ Len(answerRows') = Len(answerRows) + 1 /\ answerRows'[Len(answerRows')].role = role
      /\ \A n \in DOMAIN answerRows' : n # Len(answerRows') =>
            n \in DOMAIN answerRows /\ answerRows'[n] = answerRows[n]
  BY StoresKeep DEF TurnRow
<1>3. Q!TypeOK'
  <2>1. /\ phase' \in {"loop", "stream", "finish", "over"} /\ outputs' \in 0..MaxOutputs
        /\ letters' \in 0..MaxText
    BY <1>1
  <2>2. stream' \in [id : Q!Ids, raw : Seq(Letters), pending : Seq(Letters), blocked : BOOLEAN,
                     calls : BOOLEAN, reasoned : BOOLEAN]
    BY TurnNumbers, NothingIsClean DEF Q!NoStream
  <2> QED
    BY <1>2, <2>1, <2>2 DEF Q!TypeOK, TurnViews, TurnRow, TurnCandidates
<1>4. Q!StreamInv'
  BY DEF Q!StreamInv
<1>5. Q!CandidateInv'
  BY DEF Q!CandidateInv
<1>6. Q!ViewInv'
  <2>1. phase' # "over" => \A i \in Q!Ids : i > outputs' => screen'[i] = Q!Absent
    BY <1>1, <1>2
  <2> QED
    BY <1>2, <2>1 DEF Q!ViewInv
<1>7. Q!RowsInv'
  <2>1. \A n \in DOMAIN answerRows : answerRows[n].role # "assistant"
    BY TurnFacts DEF Q!IInv, Q!RowsInv
  <2>2. answerRows' # <<>>
    <3>1. Len(answerRows') # 0
      BY <1>2, TurnFacts, LenProperties
    <3> QED
      BY <3>1
  <2>3. \A n \in DOMAIN answerRows' : answerRows'[n].role = "assistant" => n = Len(answerRows')
          /\ role = "assistant"
    BY <1>2, <2>1
  <2> QED
    BY <1>2, <2>2, <2>3 DEF Q!RowsInv
<1> QED
  BY <1>2, <1>3, <1>4, <1>5, <1>6, <1>7 DEF Q!IInv

\* A step that leaves a message open, as the candidate for the answer.
LEMMA KeepingKeeps ==
  ASSUME Q!IInv, phase # "over", NEW id \in Q!Ids, id > 0, ~Q!Settled(id), id <= outputs',
         \A n \in DOMAIN answerRows : answerRows[n].id < id,
         NEW text \in Seq(Letters), text # <<>>, ~Q!Internal(text),
         TurnShows(id, [text |-> text, state |-> "open"]), UNCHANGED <<answerRows, outcome>>,
         stream' = Q!NoStream, phase' = "loop", candidate' = [text |-> text, id |-> id],
         progress' \in [activity : BOOLEAN, tools : BOOLEAN, interrupted : BOOLEAN],
         outputs' \in outputs..MaxOutputs, letters' \in 0..MaxText
  PROVE  Q!IInv'
<1>1. outputs \in Nat /\ MaxOutputs \in Nat /\ Q!Ids \subseteq Nat
        /\ answerRows \in Seq(TurnRow) /\ outcome = "running"
  BY TurnFacts, TurnNumbers
<1> DEFINE m == [text |-> text, state |-> "open"]
<1>2. /\ screen' \in TurnViews /\ Q!ShownIsStored' /\ Q!NothingInternalIsShown'
      /\ \A i \in Q!Ids : screen'[i].state = "open" => i = id /\ m # Q!Absent
      /\ \A i \in Q!Ids : (screen'[i].state = "none") = (screen'[i].text = <<>>)
      /\ screen'[Q!NoId] = Q!Absent
      /\ \A i \in Q!Ids : i > outputs /\ i # id => screen'[i] = Q!Absent
  BY ShowsKeep
<1>3. Q!TypeOK'
  <2>1. /\ phase' \in {"loop", "stream", "finish", "over"} /\ outputs' \in 0..MaxOutputs
        /\ letters' \in 0..MaxText /\ outcome' = "running"
    BY <1>1
  <2>2. stream' \in [id : Q!Ids, raw : Seq(Letters), pending : Seq(Letters), blocked : BOOLEAN,
                     calls : BOOLEAN, reasoned : BOOLEAN]
    BY TurnNumbers, NothingIsClean DEF Q!NoStream
  <2>3. candidate' \in TurnCandidates
    BY DEF TurnCandidates
  <2> QED
    BY <1>1, <1>2, <2>1, <2>2, <2>3 DEF Q!TypeOK, TurnViews, TurnRow, TurnCandidates
<1>4. Q!StreamInv'
  BY DEF Q!StreamInv
<1>5. Q!CandidateInv'
  <2>1. screen'[id] = m
    BY DEF TurnShows
  <2>2. id # Q!NoId
    BY <1>1, TurnNumbers
  <2> QED
    BY <2>1, <2>2 DEF Q!CandidateInv
<1>6. Q!ViewInv'
  <2>1. \A i \in Q!Ids : i > outputs' => screen'[i] = Q!Absent
    BY <1>1, <1>2
  <2> QED
    BY <1>2, <2>1 DEF Q!ViewInv
<1>7. Q!RowsInv'
  BY <1>1 DEF Q!IInv, Q!RowsInv
<1> QED
  BY <1>2, <1>3, <1>4, <1>5, <1>6, <1>7 DEF Q!IInv

\* A commit settles the one message, if it is open.
LEMMA CommitShows ==
  ASSUME NEW v \in TurnViews, NEW id \in Q!Ids, NEW state \in {"progress", "completed"}
  PROVE  Q!Committed(v, id, state) =
           [i \in Q!Ids |-> IF i = id /\ v[i].state = "open"
             THEN [text |-> v[i].text, state |-> state] ELSE v[i]]
BY ShowSteps

\* Text that is shown opens its message, or continues it.
LEMMA ContentShows ==
  ASSUME NEW v \in TurnViews, NEW id \in Q!Ids, NEW text \in Seq(Letters)
  PROVE  Q!Shown(v, id, text) =
           [i \in Q!Ids |-> IF i # id \/ text = <<>> THEN v[i]
                            ELSE [text |-> v[id].text \o text,
                                  state |-> IF v[id].state = "none" THEN "open" ELSE v[id].state]]
BY ShowSteps

\* Two texts that are nothing together are each nothing.
LEMMA NoTextInTwo ==
  ASSUME NEW s \in Seq(Letters), NEW t \in Seq(Letters), s \o t = <<>>
  PROVE  s = <<>> /\ t = <<>>
BY ConcatEqualIffEmpty

\* Only the stream, or the candidate for the answer, can be open: taking it back leaves
\* nothing open.
LEMMA ResetsClose ==
  ASSUME Q!IInv
  PROVE  /\ Q!ResetAll(screen) \in TurnViews
         /\ \A i \in Q!Ids : Q!ResetAll(screen)[i] = IF screen[i].state = "open" THEN Q!Absent
              ELSE screen[i]
         /\ Q!ResetAll(Q!ResetAll(screen)) = Q!ResetAll(screen)
         /\ phase # "stream" => Q!Reset(screen, candidate.id) = Q!ResetAll(screen)
         /\ phase = "stream" => Q!Reset(screen, stream.id) = Q!ResetAll(screen)
<1> DEFINE closed == Q!ResetAll(screen)
<1>1. /\ screen \in TurnViews /\ candidate.id \in Q!Ids /\ stream.id \in Q!Ids
      /\ \A i \in Q!Ids : screen[i].state = "open" => i = IF phase = "stream" THEN stream.id
           ELSE candidate.id
  BY TurnFacts DEF Q!IInv, Q!ViewInv, TurnCandidates
<1>2. closed = [i \in Q!Ids |-> IF screen[i].state = "open" THEN Q!Absent ELSE screen[i]]
  BY <1>1, ShowSteps
<1>3. Q!Absent \in [text : Seq(Letters), state : Q!States] /\ Q!Absent.state = "none"
  BY NothingIsClean DEF Q!Absent, Q!States
<1> HIDE DEF closed
<1>4. closed \in TurnViews
  BY <1>1, <1>2, <1>3 DEF TurnViews
<1>5. Q!ResetAll(closed) = closed
  <2>1. Q!ResetAll(closed) = [i \in Q!Ids |-> IF closed[i].state = "open" THEN Q!Absent
          ELSE closed[i]]
    BY <1>1, <1>4, ShowSteps
  <2> QED
    BY <1>2, <1>3, <2>1
<1>6. ASSUME phase # "stream" PROVE Q!Reset(screen, candidate.id) = closed
  <2>1. Q!Reset(screen, candidate.id) =
          [i \in Q!Ids |-> IF i = candidate.id /\ screen[i].state = "open" THEN Q!Absent
            ELSE screen[i]]
    BY <1>1, ShowSteps
  <2> QED
    BY <1>1, <1>2, <1>6, <2>1
<1>7. ASSUME phase = "stream" PROVE Q!Reset(screen, stream.id) = closed
  <2>1. Q!Reset(screen, stream.id) =
          [i \in Q!Ids |-> IF i = stream.id /\ screen[i].state = "open" THEN Q!Absent
            ELSE screen[i]]
    BY <1>1, ShowSteps
  <2> QED
    BY <1>1, <1>2, <1>7, <2>1
<1> QED
  BY <1>2, <1>4, <1>5, <1>6, <1>7 DEF closed

\* What a new message shows, and taking it back or storing it.
LEMMA NewMessage ==
  ASSUME Q!IInv, phase \in {"loop", "finish"}, NEW text \in Seq(Letters), text # <<>>,
         NEW id, id = outputs + 1,
         NEW told, told = Q!Shown(Q!Reset(screen, candidate.id), id, text)
  PROVE  /\ told = [i \in Q!Ids |-> IF i = id THEN [text |-> text, state |-> "open"]
                                     ELSE Q!ResetAll(screen)[i]]
         /\ Q!ResetAll(told) = Q!ResetAll(screen)
         /\ \A state \in {"progress", "completed"} :
               Q!Committed(told, id, state) =
                 [i \in Q!Ids |-> IF i = id THEN [text |-> text, state |-> state]
                                  ELSE Q!ResetAll(screen)[i]]
<1> DEFINE closed == Q!ResetAll(screen)
           m == [text |-> text, state |-> "open"]
<1>1. /\ screen \in TurnViews /\ id \in Q!Ids /\ screen[id] = Q!Absent
      /\ Q!Reset(screen, candidate.id) = closed /\ closed \in TurnViews
      /\ \A i \in Q!Ids : closed[i] = IF screen[i].state = "open" THEN Q!Absent ELSE screen[i]
  BY TurnFacts, ResetsClose
<1>2. Q!Absent.state = "none" /\ Q!Absent.text = <<>>
  BY DEF Q!Absent
<1> HIDE DEF closed
<1>3. closed[id] = Q!Absent /\ \A i \in Q!Ids : closed[i].state # "open"
  BY <1>1, <1>2
<1>4. told = [i \in Q!Ids |-> IF i = id THEN m ELSE closed[i]]
  <2>1. told = [i \in Q!Ids |-> IF i # id \/ text = <<>> THEN closed[i]
                                ELSE [text |-> closed[id].text \o text,
                                      state |-> IF closed[id].state = "none" THEN "open"
                                                ELSE closed[id].state]]
    BY <1>1, ContentShows
  <2>2. closed[id].text \o text = text /\ closed[id].state = "none"
    BY <1>2, <1>3, ConcatEmptySeq
  <2> QED
    BY <2>1, <2>2
<1>5. told \in TurnViews
  <2>1. m \in [text : Seq(Letters), state : Q!States]
    BY DEF Q!States
  <2> HIDE DEF m
  <2> QED
    BY <1>1, <1>4, <2>1 DEF TurnViews
<1>6. Q!ResetAll(told) = closed
  <2>1. Q!ResetAll(told) = [i \in Q!Ids |-> IF told[i].state = "open" THEN Q!Absent ELSE told[i]]
    BY <1>1, <1>5, ShowSteps
  <2>2. \A i \in Q!Ids : closed[i] = IF told[i].state = "open" THEN Q!Absent ELSE told[i]
    BY <1>3, <1>4
  <2>3. closed = [i \in Q!Ids |-> closed[i]]
    BY <1>1 DEF TurnViews
  <2> QED
    BY <2>1, <2>2, <2>3
<1>7. ASSUME NEW state \in {"progress", "completed"}
      PROVE  Q!Committed(told, id, state) =
               [i \in Q!Ids |-> IF i = id THEN [text |-> text, state |-> state] ELSE closed[i]]
  <2>1. Q!Committed(told, id, state) =
          [i \in Q!Ids |-> IF i = id /\ told[i].state = "open"
                           THEN [text |-> told[i].text, state |-> state] ELSE told[i]]
    BY <1>1, <1>5, CommitShows
  <2>2. \A i \in Q!Ids :
          (IF i = id /\ told[i].state = "open" THEN [text |-> told[i].text, state |-> state]
           ELSE told[i])
            = IF i = id THEN [text |-> text, state |-> state] ELSE closed[i]
    BY <1>1, <1>4
  <2> QED
    BY <2>1, <2>2
<1> QED
  BY <1>4, <1>6, <1>7 DEF closed

\* What the end of a stream shows.
LEMMA StreamTold ==
  ASSUME Q!IInv, phase = "stream", NEW told, told =
           Q!Shown(screen, stream.id, Q!GuardFinish(stream))
  PROVE  /\ stream.id \in Q!Ids /\ stream.id = outputs /\ stream.id > 0 /\ ~Q!Settled(stream.id)
         /\ candidate = Q!Nothing /\ \A n \in DOMAIN answerRows : answerRows[n].id < stream.id
         /\ stream.blocked => Q!Internal(stream.raw)
         /\ Q!ResetAll(told) = Q!ResetAll(screen) /\ Q!Reset(told, stream.id) = Q!ResetAll(screen)
         /\ ~stream.blocked /\ stream.raw = <<>> => told = Q!ResetAll(screen)
         /\ ~stream.blocked /\ stream.raw # <<>> =>
              /\ ~Q!Internal(stream.raw)
              /\ told = [i \in Q!Ids |-> IF i = stream.id
                   THEN [text |-> stream.raw, state |-> "open"]
                                         ELSE Q!ResetAll(screen)[i]]
              /\ Q!Committed(told, stream.id, "progress") =
                   [i \in Q!Ids |-> IF i = stream.id
                     THEN [text |-> stream.raw, state |-> "progress"]
                                    ELSE Q!ResetAll(screen)[i]]
<1> DEFINE closed == Q!ResetAll(screen)
           id == stream.id
           shown == screen[id].text
           rest == Q!GuardFinish(stream)
<1>1. /\ screen \in TurnViews /\ closed \in TurnViews /\ id \in Q!Ids /\ outputs \in Nat
      /\ stream.raw \in Seq(Letters) /\ stream.pending \in Seq(Letters)
      /\ stream.blocked \in BOOLEAN
      /\ \A i \in Q!Ids : closed[i] = IF screen[i].state = "open" THEN Q!Absent ELSE screen[i]
      /\ \A n \in DOMAIN answerRows : answerRows[n].id \in Nat /\ answerRows[n].id <= outputs
  BY TurnFacts, ResetsClose
<1>2. /\ id = outputs /\ outputs > 0 /\ candidate = Q!Nothing
      /\ screen[id].state \in {"none", "open"}
      /\ stream.blocked => stream.pending = <<>> /\ Q!Internal(stream.raw)
      /\ ~stream.blocked => stream.raw = shown \o stream.pending /\ Q!Starts(stream.raw) = {}
  BY <1>1 DEF Q!IInv, Q!StreamInv
<1>3. /\ \A i \in Q!Ids : screen[i].state = "open" => i = id
      /\ (screen[id].state = "none") = (shown = <<>>)
      /\ screen[id] \in [text : Seq(Letters), state : Q!States] /\ shown \in Seq(Letters)
  BY <1>1 DEF Q!IInv, Q!ViewInv, TurnViews
<1>4. Q!Absent.state = "none" /\ Q!Absent.text = <<>>
        /\ Q!Absent = [text |-> <<>>, state |-> "none"]
  BY DEF Q!Absent
<1>5. screen[id].state = "none" => screen[id] = Q!Absent
  BY <1>3, <1>4
<1>6. ~Q!Settled(id) /\ \A n \in DOMAIN answerRows : answerRows[n].id < id
  <2>1. ~Q!Settled(id)
    BY <1>2 DEF Q!Settled
  <2>2. ASSUME NEW n \in DOMAIN answerRows PROVE answerRows[n].id # id
    <3>1. screen[answerRows[n].id] = [text |-> answerRows[n].text,
                       state |-> IF answerRows[n].role = "assistant" THEN "completed"
                         ELSE "progress"]
      BY DEF Q!IInv, Q!ShownIsStored
    <3>2. screen[answerRows[n].id].state \in {"completed", "progress"}
      BY <3>1
    <3> QED
      BY <1>2, <3>2
  <2>3. ASSUME NEW n \in DOMAIN answerRows PROVE answerRows[n].id < id
    <3>1. /\ answerRows[n].id \in Nat /\ answerRows[n].id <= outputs
          /\ outputs \in Nat /\ id = outputs
      BY <1>1, <1>2
    <3>2. answerRows[n].id # id
      BY <2>2
    <3> HIDE DEF id
    <3> QED
      BY <3>1, <3>2
  <2> QED
    BY <2>1, <2>3
<1>7. /\ rest \in Seq(Letters)
      /\ (stream.blocked => rest = <<>>) /\ (~stream.blocked => rest = stream.pending)
  BY <1>1, NothingIsClean DEF Q!GuardFinish
<1> HIDE DEF closed, rest
<1>8. told = [i \in Q!Ids |-> IF i # id \/ rest = <<>> THEN screen[i]
                              ELSE [text |-> shown \o rest,
                                    state |-> IF screen[id].state = "none" THEN "open"
                                      ELSE screen[id].state]]
  <2>1. told = Q!Shown(screen, id, rest)
    BY DEF rest
  <2> HIDE DEF id
  <2>2. Q!Shown(screen, id, rest) = [i \in Q!Ids |-> IF i # id \/ rest = <<>> THEN screen[i]
                              ELSE [text |-> screen[id].text \o rest,
                                    state |-> IF screen[id].state = "none" THEN "open"
                                      ELSE screen[id].state]]
    BY <1>1, <1>7, ShowSteps
  <2> QED
    BY <2>1, <2>2
<1>9. \A i \in Q!Ids : i # id => told[i] = closed[i] /\ closed[i] = screen[i]
  BY <1>1, <1>3, <1>8
<1>10. /\ told[id].state \in {"none", "open"} /\ (told[id].state = "none" => told[id] = Q!Absent)
       /\ closed[id] = Q!Absent /\ told[id] \in [text : Seq(Letters), state : Q!States]
  <2>1. CASE rest = <<>>
    <3>1. told[id] = screen[id]
      BY <1>1, <1>8, <2>1
    <3> QED
      BY <1>1, <1>2, <1>3, <1>4, <1>5, <3>1
  <2>2. CASE rest # <<>>
    <3>1. told[id] = [text |-> shown \o rest, state |-> "open"]
      BY <1>1, <1>2, <1>8, <2>2
    <3>2. shown \o rest \in Seq(Letters)
      BY <1>3, <1>7, ConcatProperties
    <3>3. closed[id] = Q!Absent
      BY <1>1, <1>2, <1>5
    <3>4. told[id] \in [text : Seq(Letters), state : Q!States] /\ told[id].state = "open"
      BY <3>1, <3>2 DEF Q!States
    <3> QED
      BY <3>3, <3>4
  <2> QED
    BY <2>1, <2>2
<1>11. told \in TurnViews
  <2>1. \A i \in Q!Ids : told[i] \in [text : Seq(Letters), state : Q!States]
    BY <1>1, <1>9, <1>10 DEF TurnViews
  <2>2. told = [i \in Q!Ids |-> told[i]]
    BY <1>8
  <2> QED
    BY <2>1, <2>2 DEF TurnViews
<1>12. Q!ResetAll(told) = closed /\ Q!Reset(told, id) = closed
  <2>1. /\ Q!ResetAll(told) = [i \in Q!Ids |-> IF told[i].state = "open" THEN Q!Absent ELSE told[i]]
        /\ Q!Reset(told, id) = [i \in Q!Ids |-> IF i = id /\ told[i].state = "open"
             THEN Q!Absent ELSE told[i]]
    BY <1>1, <1>11, ShowSteps
  <2>2. closed = [i \in Q!Ids |-> closed[i]]
    BY <1>1 DEF TurnViews
  <2>3. \A i \in Q!Ids : closed[i].state # "open"
    BY <1>1, <1>4
  <2> QED
    BY <1>9, <1>10, <2>1, <2>2, <2>3
<1>13. ASSUME ~stream.blocked, stream.raw = <<>> PROVE told = closed
  <2>1. shown = <<>> /\ rest = <<>>
    <3>1. shown \o stream.pending = <<>> /\ shown \in Seq(Letters)
            /\ stream.pending \in Seq(Letters)
      BY <1>1, <1>2, <1>3, <1>13
    <3>2. rest = stream.pending
      BY <1>7, <1>13
    <3> HIDE DEF shown
    <3> QED
      BY <3>1, <3>2, NoTextInTwo
  <2>2. told[id] = closed[id]
    BY <1>1, <1>3, <1>5, <1>8, <1>10, <2>1
  <2>3. closed = [i \in Q!Ids |-> closed[i]] /\ told = [i \in Q!Ids |-> told[i]]
    BY <1>1, <1>11 DEF TurnViews
  <2> QED
    BY <1>9, <2>2, <2>3
<1>14. ASSUME ~stream.blocked, stream.raw # <<>>
       PROVE  /\ ~Q!Internal(stream.raw)
              /\ told = [i \in Q!Ids |-> IF i = id
                   THEN [text |-> stream.raw, state |-> "open"] ELSE closed[i]]
              /\ Q!Committed(told, id, "progress") =
                   [i \in Q!Ids |-> IF i = id THEN [text |-> stream.raw, state |-> "progress"]
                     ELSE closed[i]]
  <2>1. ~Q!Internal(stream.raw) /\ stream.raw = shown \o rest
    BY <1>2, <1>7, <1>14 DEF Q!Internal
  <2>2. told[id] = [text |-> stream.raw, state |-> "open"]
    <3>1. CASE rest = <<>>
      <4>1. stream.raw = shown /\ told[id] = screen[id]
        BY <1>1, <1>3, <1>8, <2>1, <3>1, ConcatEmptySeq
      <4>2. screen[id].state = "open" /\ screen[id].text = stream.raw
        BY <1>2, <1>3, <1>14, <4>1
      <4> QED
        BY <1>3, <4>1, <4>2
    <3>2. CASE rest # <<>>
      BY <1>1, <1>2, <1>8, <2>1, <3>2
    <3> QED
      BY <3>1, <3>2
  <2>3. told = [i \in Q!Ids |-> told[i]]
    BY <1>8
  <2>4. told = [i \in Q!Ids |-> IF i = id THEN [text |-> stream.raw, state |-> "open"]
          ELSE closed[i]]
    BY <1>9, <2>2, <2>3
  <2>5. Q!Committed(told, id, "progress") =
          [i \in Q!Ids |-> IF i = id /\ told[i].state = "open"
                           THEN [text |-> told[i].text, state |-> "progress"] ELSE told[i]]
    BY <1>1, <1>11, CommitShows
  <2>6. \A i \in Q!Ids :
          (IF i = id /\ told[i].state = "open" THEN [text |-> told[i].text, state |-> "progress"]
           ELSE told[i])
            = IF i = id THEN [text |-> stream.raw, state |-> "progress"] ELSE closed[i]
    BY <1>9, <2>2
  <2> QED
    BY <2>1, <2>4, <2>5, <2>6
<1> QED
  BY <1>1, <1>2, <1>6, <1>12, <1>13, <1>14 DEF closed

\* A stream begins: the candidate is taken back.
LEMMA TurnStreamBegins == ASSUME Q!IInv, Q!StreamBegins PROVE Q!IInv'
<1>1. /\ phase = "loop" /\ phase' = "stream" /\ outputs < MaxOutputs /\ outputs' = outputs + 1
      /\ stream' = [id |-> outputs + 1, raw |-> <<>>, pending |-> <<>>, blocked |-> FALSE,
                    calls |-> FALSE, reasoned |-> FALSE]
      /\ candidate' = Q!Nothing /\ screen' = Q!Reset(screen, candidate.id)
      /\ UNCHANGED <<progress, answerRows, letters, outcome>>
  BY DEF Q!StreamBegins, Q!CandidateDropped, Q!NoStream
<1>2. screen' = Q!ResetAll(screen)
  BY <1>1, ResetsClose
<1>3. /\ answerRows \in Seq(TurnRow) /\ outputs \in Nat /\ MaxOutputs \in Nat
      /\ outputs + 1 \in Q!Ids /\ Q!Ids \subseteq Nat
  BY TurnFacts, TurnNumbers
<1>4. /\ screen' \in TurnViews /\ Q!ShownIsStored' /\ Q!NothingInternalIsShown'
      /\ \A i \in Q!Ids : screen'[i].state # "open"
      /\ \A i \in Q!Ids : (screen'[i].state = "none") = (screen'[i].text = <<>>)
      /\ screen'[Q!NoId] = Q!Absent
      /\ \A i \in Q!Ids : i > outputs => screen'[i] = Q!Absent
  BY <1>1, <1>2, ClosedView
<1>5. Q!TypeOK'
  <2>1. stream' \in [id : Q!Ids, raw : Seq(Letters), pending : Seq(Letters), blocked : BOOLEAN,
                     calls : BOOLEAN, reasoned : BOOLEAN]
    BY <1>1, <1>3, NothingIsClean
  <2>2. candidate' \in [text : Seq(Letters), id : Q!Ids]
    BY <1>1, TurnNumbers, NothingIsClean DEF Q!Nothing
  <2>3. outputs' \in 0..MaxOutputs
    BY <1>1, <1>3
  <2> QED
    BY <1>1, <1>3, <1>4, <2>1, <2>2, <2>3 DEF Q!IInv, Q!TypeOK, TurnViews, TurnRow
<1>6. Q!StreamInv'
  <2>1. screen'[outputs + 1] = Q!Absent
    BY <1>3, <1>4
  <2>2. Q!Starts(<<>>) = {} /\ Q!MaybeMarker(<<>>) = {} /\ <<>> \o <<>> = <<>>
    BY DEF Q!Starts, Q!MaybeMarker
  <2>3. screen'[stream'.id].text = <<>> /\ screen'[stream'.id].state = "none"
          /\ stream'.id = outputs'
    BY <1>1, <2>1 DEF Q!Absent
  <2> QED
    BY <1>1, <1>3, <2>2, <2>3 DEF Q!StreamInv
<1>7. Q!CandidateInv'
  BY <1>1 DEF Q!CandidateInv, Q!Nothing
<1>8. Q!ViewInv'
  BY <1>1, <1>3, <1>4 DEF Q!ViewInv
<1>9. Q!RowsInv'
  BY <1>1 DEF Q!IInv, Q!RowsInv
<1> QED
  BY <1>4, <1>5, <1>6, <1>7, <1>8, <1>9 DEF Q!IInv

\* Tool calls and reasoning in a stream show nothing.
LEMMA TurnOtherChunk == ASSUME Q!IInv, Q!OtherChunk PROVE Q!IInv'
<1>1. /\ phase = "stream"
      /\ UNCHANGED <<phase, candidate, screen, answerRows, outputs, letters, outcome>>
      /\ progress' = [progress EXCEPT !.activity = TRUE]
      /\ stream' = [stream EXCEPT !.calls = TRUE] \/ stream' = [stream EXCEPT !.reasoned = TRUE]
  BY DEF Q!OtherChunk
<1>2. /\ stream.id = stream'.id /\ stream.raw = stream'.raw /\ stream.pending = stream'.pending
      /\ stream.blocked = stream'.blocked
      /\ stream' \in [id : Q!Ids, raw : Seq(Letters), pending : Seq(Letters), blocked : BOOLEAN,
                      calls : BOOLEAN, reasoned : BOOLEAN]
      /\ progress' \in [activity : BOOLEAN, tools : BOOLEAN, interrupted : BOOLEAN]
      /\ progress'.interrupted = progress.interrupted
  BY <1>1 DEF Q!IInv, Q!TypeOK
<1>3. Q!TypeOK'
  BY <1>1, <1>2 DEF Q!IInv, Q!TypeOK
<1>4. Q!ShownIsStored'
  BY <1>1 DEF Q!IInv, Q!ShownIsStored, Q!Settled
<1>5. Q!NothingInternalIsShown'
  BY <1>1 DEF Q!IInv, Q!NothingInternalIsShown
<1>6. Q!StreamInv'
  BY <1>1, <1>2 DEF Q!IInv, Q!StreamInv
<1>7. Q!CandidateInv'
  BY <1>1 DEF Q!IInv, Q!CandidateInv
<1>8. Q!ViewInv'
  BY <1>1, <1>2 DEF Q!IInv, Q!ViewInv
<1>9. Q!RowsInv'
  BY <1>1, <1>2 DEF Q!IInv, Q!RowsInv
<1> QED
  BY <1>3, <1>4, <1>5, <1>6, <1>7, <1>8, <1>9 DEF Q!IInv

\* The loop ends with the candidate as it is.
LEMMA TurnLoopEnds == ASSUME Q!IInv, Q!LoopEnds PROVE Q!IInv'
<1>1. /\ phase = "loop" /\ phase' = "finish"
      /\ UNCHANGED <<candidate, stream, progress, screen, answerRows, outputs, letters, outcome>>
  BY DEF Q!LoopEnds
<1>2. Q!TypeOK'
  BY <1>1 DEF Q!IInv, Q!TypeOK
<1>3. Q!ShownIsStored'
  BY <1>1 DEF Q!IInv, Q!ShownIsStored, Q!Settled
<1>4. Q!NothingInternalIsShown'
  BY <1>1 DEF Q!IInv, Q!NothingInternalIsShown
<1>5. Q!StreamInv'
  BY <1>1 DEF Q!IInv, Q!StreamInv
<1>6. Q!CandidateInv'
  BY <1>1 DEF Q!IInv, Q!CandidateInv
<1>7. Q!ViewInv'
  BY <1>1 DEF Q!IInv, Q!ViewInv
<1>8. Q!RowsInv'
  BY <1>1 DEF Q!IInv, Q!RowsInv
<1> QED
  BY <1>2, <1>3, <1>4, <1>5, <1>6, <1>7, <1>8 DEF Q!IInv

\* A chunk of text: the guard lets through what is no marker, and begins none.
LEMMA TurnChunk ==
  ASSUME Q!IInv, NEW text \in Seq(Letters), Q!Chunk(text)
  PROVE  Q!IInv'
<1> DEFINE g == Q!GuardWrite(stream, text)
           id == stream.id
           shown == screen[id].text
           now == shown \o g.show
           m == screen'[id]
<1>1. /\ phase = "stream" /\ letters' = letters + Len(text) /\ letters + Len(text) <= MaxText
      /\ screen' = Q!Shown(screen, id, g.show)
      /\ stream' = [stream EXCEPT !.raw = @ \o text, !.pending = g.pending, !.blocked = g.blocked]
      /\ progress' = [progress EXCEPT !.activity = TRUE]
      /\ UNCHANGED <<phase, candidate, answerRows, outputs, outcome>>
  BY DEF Q!Chunk
<1>2. /\ screen \in TurnViews /\ answerRows \in Seq(TurnRow) /\ id \in Q!Ids
      /\ stream.raw \in Seq(Letters)
      /\ stream.pending \in Seq(Letters) /\ stream.blocked \in BOOLEAN /\ outputs \in Nat
      /\ letters \in 0..MaxText /\ MaxText \in Nat /\ Len(text) \in Nat
  BY TurnFacts, LenProperties
<1>3. /\ id = outputs /\ outputs > 0 /\ candidate = Q!Nothing
      /\ screen[id].state \in {"none", "open"}
      /\ stream.blocked => stream.pending = <<>> /\ Q!Internal(stream.raw)
      /\ ~stream.blocked => /\ stream.raw = shown \o stream.pending /\ Q!Starts(stream.raw) = {}
                            /\ \A n \in Q!MaybeMarker(stream.raw) : n > Len(shown)
  BY <1>1, <1>2 DEF Q!IInv, Q!StreamInv
<1>4. /\ \A i \in Q!Ids : screen[i].state = "open" => i = id
      /\ (screen[id].state = "none") = (shown = <<>>)
      /\ screen[id] \in [text : Seq(Letters), state : Q!States] /\ shown \in Seq(Letters)
      /\ ~Q!Internal(shown)
  BY <1>1, <1>2 DEF Q!IInv, Q!ViewInv, Q!NothingInternalIsShown, TurnViews
<1> HIDE DEF g
<1>5. GuardSound(stream, shown, text, g)
  <2>1. GuardReady(stream, shown)
    BY <1>2, <1>3, <1>4 DEF GuardReady
  <2> HIDE DEF shown
  <2> QED
    BY <1>4, <2>1, GuardKeeps DEF g
<1>6. /\ now \in Seq(Letters) /\ (now = <<>>) = (shown = <<>> /\ g.show = <<>>)
      /\ (g.show = <<>> => now = shown)
  <2> HIDE DEF shown
  <2> QED
    BY <1>4, <1>5, ConcatProperties, ConcatEmptySeq, NoTextInTwo DEF GuardSound
<1>7. screen' = [i \in Q!Ids |-> IF i # id \/ g.show = <<>> THEN screen[i]
                              ELSE [text |-> now,
                                    state |-> IF screen[id].state = "none" THEN "open"
                                      ELSE screen[id].state]]
  BY <1>1, <1>2, <1>5, ShowSteps DEF GuardSound
<1>8. Q!Absent.state = "none" /\ Q!Absent.text = <<>>
        /\ Q!Absent = [text |-> <<>>, state |-> "none"]
  BY DEF Q!Absent
<1>9. /\ m.text = now
      /\ (now = <<>> => m = Q!Absent) /\ (now # <<>> => m = [text |-> now, state |-> "open"])
  <2>1. CASE g.show = <<>>
    <3>1. m = screen[id] /\ now = shown
      BY <1>2, <1>6, <1>7, <2>1
    <3> QED
      BY <1>3, <1>4, <1>8, <3>1
  <2>2. CASE g.show # <<>>
    <3>1. m = [text |-> now, state |-> "open"] /\ now # <<>>
      BY <1>2, <1>3, <1>6, <1>7, <2>2
    <3> HIDE DEF now, m
    <3> QED
      BY <3>1
  <2> QED
    BY <2>1, <2>2
<1> HIDE DEF now, m
<1>10. TurnShows(id, m)
  <2>1. \A i \in Q!Ids : i # id => screen'[i] = Q!ResetAll(screen)[i]
    BY <1>4, <1>7, ResetsClose
  <2>2. screen' = [i \in Q!Ids |-> screen'[i]]
    BY <1>7
  <2>3. \A i \in Q!Ids : screen'[i] = IF i = id THEN m ELSE Q!ResetAll(screen)[i]
    BY <2>1 DEF m
  <2> QED
    BY <2>2, <2>3 DEF TurnShows
<1>11. /\ screen' \in TurnViews /\ Q!ShownIsStored' /\ Q!NothingInternalIsShown'
       /\ \A i \in Q!Ids : screen'[i].state = "open" => i = id /\ m # Q!Absent
       /\ \A i \in Q!Ids : (screen'[i].state = "none") = (screen'[i].text = <<>>)
       /\ screen'[Q!NoId] = Q!Absent
       /\ \A i \in Q!Ids : i > outputs /\ i # id => screen'[i] = Q!Absent
  <2>1. m = Q!Absent \/ (phase' # "over" /\ \E t \in Seq(Letters) :
                             t # <<>> /\ ~Q!Internal(t) /\ m = [text |-> t, state |-> "open"])
    BY <1>1, <1>5, <1>6, <1>9 DEF GuardSound, now
  <2>2. phase # "over" /\ id > 0 /\ ~Q!Settled(id) /\ UNCHANGED answerRows
    BY <1>1, <1>3 DEF Q!Settled
  <2> HIDE DEF id
  <2> QED
    BY <1>2, <1>10, <2>1, <2>2, ShowsKeep
<1>12. /\ stream'.id = id /\ stream'.raw = stream.raw \o text /\ stream'.pending = g.pending
       /\ stream'.blocked = g.blocked /\ stream.raw \o text \in Seq(Letters)
       /\ stream' \in [id : Q!Ids, raw : Seq(Letters), pending : Seq(Letters), blocked : BOOLEAN,
                      calls : BOOLEAN, reasoned : BOOLEAN]
       /\ progress' \in [activity : BOOLEAN, tools : BOOLEAN, interrupted : BOOLEAN]
       /\ progress'.interrupted = progress.interrupted
  <2>1. stream.raw \o text \in Seq(Letters)
    BY <1>2, ConcatProperties
  <2> QED
    BY <1>1, <1>5, <2>1 DEF Q!IInv, Q!TypeOK, GuardSound
<1>13. Q!TypeOK'
  <2>1. letters' \in 0..MaxText
    BY <1>1, <1>2
  <2> QED
    BY <1>1, <1>2, <1>11, <1>12, <2>1 DEF Q!IInv, Q!TypeOK, TurnViews, TurnRow
<1>14. Q!StreamInv'
  <2>1. screen'[stream'.id].text = now /\ screen'[stream'.id].state \in {"none", "open"}
    BY <1>8, <1>9, <1>12 DEF m
  <2>2. stream'.blocked => stream'.pending = <<>> /\ Q!Internal(stream'.raw)
    <3>1. stream.blocked => Q!Internal(stream.raw \o text)
      BY <1>2, <1>3, MarkersStay
    <3> QED
      BY <1>3, <1>5, <1>12, <3>1 DEF GuardSound
  <2>3. ~stream'.blocked => /\ stream'.raw = now \o stream'.pending
                            /\ Q!Starts(stream'.raw) = {}
                            /\ \A n \in Q!MaybeMarker(stream'.raw) : n > Len(now)
    BY <1>3, <1>5, <1>12 DEF GuardSound, now
  <2> QED
    BY <1>1, <1>3, <1>12, <2>1, <2>2, <2>3 DEF Q!StreamInv
<1>15. Q!CandidateInv'
  BY <1>1, <1>3 DEF Q!CandidateInv, Q!Nothing
<1>16. Q!ViewInv'
  <2>1. \A i \in Q!Ids : i > outputs => screen'[i] = Q!Absent
    BY <1>2, <1>3, <1>11, TurnNumbers
  <2> QED
    BY <1>1, <1>11, <1>12, <2>1 DEF Q!ViewInv
<1>17. Q!RowsInv'
  BY <1>1, <1>12 DEF Q!IInv, Q!RowsInv
<1> QED
  BY <1>11, <1>13, <1>14, <1>15, <1>16, <1>17 DEF Q!IInv

\* What the invariant says of the phases of a turn.
LEMMA TurnTypes ==
  ASSUME Q!IInv
  PROVE  /\ progress \in [activity : BOOLEAN, tools : BOOLEAN, interrupted : BOOLEAN]
         /\ phase \in {"loop", "stream", "finish", "over"}
         /\ phase # "stream" => stream = Q!NoStream
         /\ phase = "stream" => candidate = Q!Nothing
         /\ candidate \in TurnCandidates /\ (candidate.id = Q!NoId) = (candidate.text = <<>>)
         /\ Q!Nothing \in TurnCandidates /\ (Q!Nothing.id = Q!NoId) = (Q!Nothing.text = <<>>)
         /\ outputs \in outputs..MaxOutputs /\ letters \in 0..MaxText
<1>1. /\ progress \in [activity : BOOLEAN, tools : BOOLEAN, interrupted : BOOLEAN]
      /\ phase \in {"loop", "stream", "finish", "over"}
  BY DEF Q!IInv, Q!TypeOK
<1>2. /\ phase # "stream" => stream = Q!NoStream
      /\ phase = "stream" => candidate = Q!Nothing
  BY DEF Q!IInv, Q!StreamInv
<1>3. candidate \in TurnCandidates /\ (candidate.id = Q!NoId) = (candidate.text = <<>>)
  BY TurnFacts DEF Q!IInv, Q!CandidateInv
<1>4. Q!Nothing \in TurnCandidates /\ (Q!Nothing.id = Q!NoId) = (Q!Nothing.text = <<>>)
  BY TurnNumbers, NothingIsClean DEF Q!Nothing, TurnCandidates
<1>5. outputs \in outputs..MaxOutputs /\ letters \in 0..MaxText
  BY TurnFacts
<1> QED
  BY <1>1, <1>2, <1>3, <1>4, <1>5

\* The request is repeated: what was shown of the stream is taken back.
LEMMA TurnStreamRetries == ASSUME Q!IInv, Q!StreamRetries PROVE Q!IInv'
<1>1. /\ phase = "stream" /\ phase' = "loop" /\ stream' = Q!NoStream /\ screen' = Q!ResetAll(screen)
      /\ candidate' = Q!Nothing /\ UNCHANGED <<progress, answerRows, outputs, letters, outcome>>
  BY ResetsClose, TurnTypes DEF Q!StreamRetries
<1>2. outcome' = "running"
  BY <1>1, TurnFacts
<1> QED
  BY <1>1, <1>2, TurnTypes, ClosingKeeps

\* The stream fails, and the turn with it.
LEMMA TurnStreamBreaks == ASSUME Q!IInv, Q!StreamBreaks PROVE Q!IInv'
<1>1. /\ phase = "stream" /\ phase' = "over" /\ outcome' = "failed" /\ stream' = Q!NoStream
      /\ screen' = Q!ResetAll(screen)
      /\ UNCHANGED <<candidate, progress, answerRows, outputs, letters>>
  BY ResetsClose DEF Q!StreamBreaks, Q!Fails, Q!Ends
<1> QED
  BY <1>1, TurnTypes, ClosingKeeps

\* A tool result follows: the candidate was not the answer.
LEMMA TurnToolResult == ASSUME Q!IInv, NEW fault \in BOOLEAN, Q!ToolResult(fault) PROVE Q!IInv'
<1>1. /\ phase = "loop" /\ phase' \in {"loop", "over"} /\ stream' = Q!NoStream
      /\ outputs < MaxOutputs /\ outputs' = outputs + 1 /\ candidate' = Q!Nothing
      /\ progress' = [progress EXCEPT !.activity = TRUE, !.tools = TRUE]
      /\ UNCHANGED <<answerRows, letters>>
  BY TurnTypes DEF Q!ToolResult, Q!Fails, Q!Ends
<1>2. screen' = Q!ResetAll(screen)
  BY ResetsClose DEF Q!ToolResult, Q!Fails
<1>3. outcome' \in {"running", "failed"} /\ (phase' = "over") = (outcome' # "running")
  BY TurnFacts DEF Q!ToolResult, Q!Fails, Q!Ends
<1>4. progress' \in [activity : BOOLEAN, tools : BOOLEAN, interrupted : BOOLEAN]
  BY <1>1, TurnTypes
<1>5. outputs' \in outputs..MaxOutputs
  BY <1>1, TurnFacts
<1> QED
  BY <1>1, <1>2, <1>3, <1>4, <1>5, TurnTypes, ClosingKeeps

\* A tool interrupts the run.
LEMMA TurnInterrupted == ASSUME Q!IInv, Q!Interrupted PROVE Q!IInv'
<1>1. /\ phase = "loop" /\ phase' = "loop" /\ stream' = Q!NoStream /\ candidate' = Q!Nothing
      /\ screen' = Q!ResetAll(screen)
      /\ progress' = [progress EXCEPT !.activity = TRUE, !.interrupted = TRUE]
      /\ UNCHANGED <<answerRows, outputs, letters, outcome>>
  BY TurnTypes DEF Q!Interrupted
<1>2. outcome' = "running"
  BY <1>1, TurnFacts
<1>3. progress' \in [activity : BOOLEAN, tools : BOOLEAN, interrupted : BOOLEAN]
  BY <1>1, TurnTypes
<1> QED
  BY <1>1, <1>2, <1>3, TurnTypes, ClosingKeeps

\* The turn is steered, cancelled or failed.
LEMMA TurnLoopBreaks ==
  ASSUME Q!IInv, NEW how \in {"failed", "steered"}, Q!LoopBreaks(how)
  PROVE  Q!IInv'
<1>1. /\ phase = "loop" /\ phase' = "over" /\ stream' = Q!NoStream
      /\ outcome' \in {"failed", "steered"}
      /\ screen' = Q!ResetAll(screen)
      /\ UNCHANGED <<candidate, progress, answerRows, outputs, letters>>
  BY TurnTypes DEF Q!LoopBreaks, Q!Ends
<1> QED
  BY <1>1, TurnTypes, ClosingKeeps

\* The turn ends interrupted.
LEMMA TurnFinishInterrupted == ASSUME Q!IInv, Q!FinishInterrupted PROVE Q!IInv'
<1>1. /\ phase = "finish" /\ phase' = "over" /\ stream' = Q!NoStream /\ outcome' = "answered"
      /\ progress.interrupted
      /\ screen' = Q!ResetAll(screen)
      /\ UNCHANGED <<candidate, progress, answerRows, outputs, letters>>
  BY TurnTypes, ResetsClose DEF Q!FinishInterrupted, Q!Ends
<1> QED
  BY <1>1, TurnTypes, ClosingKeeps

\* The turn ends without an answer.
LEMMA TurnFinishFails == ASSUME Q!IInv, Q!FinishFails PROVE Q!IInv'
<1>1. /\ phase = "finish" /\ phase' = "over" /\ stream' = Q!NoStream /\ outcome' = "failed"
      /\ screen' = Q!ResetAll(screen)
      /\ UNCHANGED <<candidate, progress, answerRows, outputs, letters>>
  BY TurnTypes, ResetsClose DEF Q!FinishFails, Q!Fails, Q!Ends
<1> QED
  BY <1>1, TurnTypes, ClosingKeeps

\* The candidate is stored as the answer, or could not be.
LEMMA TurnFinishWithAnswer ==
  ASSUME Q!IInv, NEW fault \in BOOLEAN, Q!FinishWithAnswer(fault)
  PROVE  Q!IInv'
<1>1. /\ phase = "finish" /\ phase' = "over" /\ stream' = Q!NoStream
      /\ UNCHANGED <<candidate, progress, outputs, letters>>
      /\ ~Q!Internal(candidate.text) /\ candidate # Q!Nothing /\ Q!Answer = candidate
  BY TurnTypes DEF Q!FinishWithAnswer, Q!Fails, Q!AnswerStored, Q!Ends, Q!Answer
<1>2. CASE fault
  <2>1. outcome' = "failed" /\ screen' = Q!ResetAll(screen) /\ UNCHANGED answerRows
    BY <1>2 DEF Q!FinishWithAnswer, Q!Fails, Q!Ends
  <2> QED
    BY <1>1, <2>1, TurnTypes, ClosingKeeps
<1>3. CASE ~fault
  <2> DEFINE id == candidate.id
             text == candidate.text
  <2>1. /\ outcome' = "answered" /\ Q!Stored("assistant", id, text)
        /\ screen' = Q!Committed(screen, id, "completed")
    BY <1>1, <1>3 DEF Q!FinishWithAnswer, Q!AnswerStored, Q!Ends
  <2>2. id \in Q!Ids /\ text \in Seq(Letters) /\ id > 0 /\ text # <<>>
    <3>1. candidate = [text |-> text, id |-> id] /\ id \in Q!Ids /\ text \in Seq(Letters)
      BY TurnTypes DEF TurnCandidates
    <3>2. (id = 0) = (text = <<>>) /\ ~(text = <<>> /\ id = 0)
      BY <1>1, <3>1, TurnTypes, TurnNumbers DEF Q!Nothing
    <3> QED
      BY <3>1, <3>2, TurnNumbers
  <2>3. screen[id] = [text |-> text, state |-> "open"]
          /\ \A n \in DOMAIN answerRows : answerRows[n].id < id
    BY <1>1 DEF Q!IInv, Q!CandidateInv
  <2>4. TurnShows(id, [text |-> text, state |-> "completed"])
    <3>1. screen' = [i \in Q!Ids |-> IF i = id /\ screen[i].state = "open"
                                     THEN [text |-> screen[i].text, state |-> "completed"]
                                       ELSE screen[i]]
      BY <2>1, <2>2, TurnFacts, CommitShows
    <3>2. \A i \in Q!Ids : i # id => screen[i] = Q!ResetAll(screen)[i]
      BY <1>1, ResetsClose DEF Q!IInv, Q!ViewInv
    <3> HIDE DEF id, text
    <3> QED
      BY <2>3, <3>1, <3>2 DEF TurnShows
  <2> HIDE DEF id, text
  <2>5. ~Q!Internal(text)
    BY <1>1 DEF text
  <2> DEFINE role == "assistant"
             state == "completed"
  <2>6. /\ role \in {"assistant", "assistant_progress"}
        /\ state = (IF role = "assistant" THEN "completed" ELSE "progress")
    OBVIOUS
  <2>7. TurnShows(id, [text |-> text, state |-> state]) /\ Q!Stored(role, id, text)
    BY <2>1, <2>4
  <2>8. (outcome' = "answered") = (role = "assistant")
          /\ outcome' \in {"running", "answered", "failed", "steered"}
        /\ (phase' = "over") = (outcome' # "running")
    BY <1>1, <2>1
  <2> HIDE DEF role, state
  <2> QED
    BY <1>1, <2>2, <2>3, <2>5, <2>6, <2>7, <2>8, TurnTypes, StoringKeeps
<1> QED
  BY <1>2, <1>3

\* The finalizer makes the answer.
LEMMA TurnFinishWithFinalizer ==
  ASSUME Q!IInv, NEW text \in Seq(Letters), NEW fault \in BOOLEAN,
         Q!FinishWithFinalizer(text, fault)
  PROVE  Q!IInv'
<1> DEFINE id == outputs + 1
           told == Q!Shown(Q!Reset(screen, candidate.id), id, text)
           role == "assistant"
           state == "completed"
<1>1. /\ phase = "finish" /\ phase' = "over" /\ stream' = Q!NoStream /\ text # <<>>
      /\ ~Q!Internal(text)
      /\ UNCHANGED <<candidate, progress, outputs, letters>>
  BY TurnTypes DEF Q!FinishWithFinalizer, Q!Fails, Q!AnswerStored, Q!Ends
<1>2. /\ Q!ResetAll(told) = Q!ResetAll(screen)
      /\ Q!Committed(told, id, "completed") =
           [i \in Q!Ids |-> IF i = id THEN [text |-> text, state |-> "completed"]
             ELSE Q!ResetAll(screen)[i]]
  BY <1>1, NewMessage
<1>3. CASE fault
  <2>1. outcome' = "failed" /\ screen' = Q!ResetAll(told) /\ UNCHANGED answerRows
    BY <1>3 DEF Q!FinishWithFinalizer, Q!Fails, Q!Ends
  <2>2. screen' = Q!ResetAll(screen)
    BY <1>2, <2>1
  <2> HIDE DEF told
  <2> QED
    BY <1>1, <2>1, <2>2, TurnTypes, ClosingKeeps
<1>4. CASE ~fault
  <2>1. outcome' = "answered" /\ Q!Stored(role, id, text)
          /\ screen' = Q!Committed(told, id, "completed")
    BY <1>4 DEF Q!FinishWithFinalizer, Q!AnswerStored, Q!Ends
  <2>2. id \in Q!Ids /\ id > 0 /\ \A n \in DOMAIN answerRows : answerRows[n].id < id
    BY <1>1, TurnFacts
  <2>3. TurnShows(id, [text |-> text, state |-> state])
    BY <1>2, <2>1 DEF TurnShows
  <2>4. /\ role \in {"assistant", "assistant_progress"}
        /\ state = (IF role = "assistant" THEN "completed" ELSE "progress")
    OBVIOUS
  <2>5. (outcome' = "answered") = (role = "assistant")
          /\ outcome' \in {"running", "answered", "failed", "steered"}
        /\ (phase' = "over") = (outcome' # "running")
    BY <1>1, <2>1
  <2> HIDE DEF id, told, role, state
  <2> QED
    BY <1>1, <2>1, <2>2, <2>3, <2>4, <2>5, TurnTypes, StoringKeeps
<1> QED
  BY <1>3, <1>4

\* A whole message is progress, the candidate, or not shown at all.
LEMMA TurnWholeMessage ==
  ASSUME Q!IInv, NEW text \in Seq(Letters), NEW calls \in BOOLEAN, NEW fault \in BOOLEAN,
         Q!WholeMessage(text, calls, fault)
  PROVE  Q!IInv'
<1> DEFINE id == outputs + 1
           told == Q!Shown(Q!Reset(screen, candidate.id), id, text)
           kept == text # <<>> /\ ~Q!Internal(text)
<1>1. /\ phase = "loop" /\ stream' = Q!NoStream /\ outputs < MaxOutputs /\ outputs' = id
      /\ letters' = letters + Len(text) /\ letters + Len(text) <= MaxText
      /\ fault => calls /\ kept
      /\ progress' = IF calls \/ text # <<>> THEN [progress EXCEPT !.activity = TRUE] ELSE progress
      /\ candidate' = IF kept /\ ~calls THEN [text |-> text, id |-> id] ELSE Q!Nothing
  BY TurnTypes DEF Q!WholeMessage
<1>2. /\ outputs' \in outputs..MaxOutputs /\ letters' \in 0..MaxText
      /\ progress' \in [activity : BOOLEAN, tools : BOOLEAN, interrupted : BOOLEAN]
  <2>1. Len(text) \in Nat
    BY LenProperties
  <2>2. outputs' \in outputs..MaxOutputs /\ letters' \in 0..MaxText
    BY <1>1, <2>1, TurnFacts
  <2>3. progress' \in [activity : BOOLEAN, tools : BOOLEAN, interrupted : BOOLEAN]
    BY <1>1, TurnTypes
  <2> QED
    BY <2>2, <2>3
<1>3. /\ id \in Q!Ids /\ id > 0 /\ ~Q!Settled(id) /\ id <= outputs' /\ outcome = "running"
      /\ \A n \in DOMAIN answerRows : answerRows[n].id < id
  BY <1>1, TurnFacts
<1>4. kept => /\ told = [i \in Q!Ids |-> IF i = id THEN [text |-> text, state |-> "open"]
                                         ELSE Q!ResetAll(screen)[i]]
              /\ Q!ResetAll(told) = Q!ResetAll(screen)
              /\ Q!Committed(told, id, "progress") =
                   [i \in Q!Ids |-> IF i = id THEN [text |-> text, state |-> "progress"]
                                  ELSE Q!ResetAll(screen)[i]]
  BY <1>1, NewMessage
<1>5. CASE fault
  <2>1. outcome' = "failed" /\ phase' = "over" /\ screen' = Q!ResetAll(told) /\ UNCHANGED answerRows
    BY <1>5 DEF Q!WholeMessage, Q!Fails, Q!Ends
  <2>2. screen' = Q!ResetAll(screen) /\ candidate' = Q!Nothing
    BY <1>1, <1>4, <1>5, <2>1
  <2> HIDE DEF id, told, kept
  <2> QED
    BY <1>1, <1>2, <2>1, <2>2, TurnTypes, ClosingKeeps
<1>6. CASE ~kept
  <2>1. screen' = Q!ResetAll(screen) /\ candidate' = Q!Nothing
          /\ UNCHANGED <<answerRows, phase, outcome>>
    <3>1. ~fault
      BY <1>1, <1>6
    <3>2. screen' = Q!Reset(screen, candidate.id) /\ UNCHANGED <<answerRows, phase, outcome>>
      BY <1>6, <3>1 DEF Q!WholeMessage
    <3> QED
      BY <1>1, <1>6, <3>2, ResetsClose
  <2> HIDE DEF id, told, kept
  <2> QED
    BY <1>1, <1>2, <1>3, <2>1, TurnTypes, ClosingKeeps
<1>7. CASE ~fault /\ kept /\ calls
  <2> DEFINE role == "assistant_progress"
             state == "progress"
  <2>1. /\ screen' = Q!Committed(told, id, "progress") /\ UNCHANGED <<phase, outcome>>
        /\ Q!Stored(role, id, text)
    BY <1>7 DEF Q!WholeMessage
  <2>2. TurnShows(id, [text |-> text, state |-> state])
    BY <1>4, <1>7, <2>1 DEF TurnShows
  <2>3. /\ role \in {"assistant", "assistant_progress"}
        /\ state = (IF role = "assistant" THEN "completed" ELSE "progress")
    OBVIOUS
  <2>4. (outcome' = "answered") = (role = "assistant")
          /\ outcome' \in {"running", "answered", "failed", "steered"}
        /\ (phase' = "over") = (outcome' # "running") /\ phase' = "loop"
    BY <1>1, <1>3, <2>1
  <2>5. candidate' = Q!Nothing /\ text # <<>> /\ ~Q!Internal(text)
    BY <1>1, <1>7
  <2> HIDE DEF id, told, kept, role, state
  <2> QED
    BY <1>1, <1>2, <1>3, <2>1, <2>2, <2>3, <2>4, <2>5, TurnTypes, StoringKeeps
<1>8. CASE ~fault /\ kept /\ ~calls
  <2>1. screen' = told /\ UNCHANGED <<phase, outcome, answerRows>>
    BY <1>8 DEF Q!WholeMessage
  <2>2. TurnShows(id, [text |-> text, state |-> "open"])
    BY <1>4, <1>8, <2>1 DEF TurnShows
  <2>3. candidate' = [text |-> text, id |-> id] /\ text # <<>> /\ ~Q!Internal(text)
          /\ phase' = "loop"
    BY <1>1, <1>8, <2>1
  <2> HIDE DEF id, told, kept
  <2> QED
    BY <1>1, <1>2, <1>3, <2>1, <2>2, <2>3, KeepingKeeps
<1> QED
  BY <1>5, <1>6, <1>7, <1>8

\* A stream ends as progress, as the candidate, or taken back, and its writes may fail.
LEMMA TurnStreamEnds ==
  ASSUME Q!IInv, NEW fault \in {"none", "progress", "reasoning"}, Q!StreamEnds(fault)
  PROVE  Q!IInv'
<1> DEFINE id == stream.id
           text == stream.raw
           told == Q!Shown(screen, id, Q!GuardFinish(stream))
           internal == stream.blocked \/ Q!Internal(text)
           shows == text # <<>>
           calls == stream.calls
           closed == Q!ResetAll(screen)
           v == CASE calls /\ shows /\ ~internal -> Q!Committed(told, id, "progress")
                  [] calls /\ (internal \/ ~shows) -> Q!Reset(told, id)
                  [] ~calls /\ stream.blocked -> Q!Reset(told, id)
                  [] OTHER -> told
<1>1. /\ phase = "stream" /\ stream' = Q!NoStream
      /\ fault = "progress" => calls /\ ~internal /\ shows
      /\ fault = "progress" => UNCHANGED answerRows /\ screen' = Q!ResetAll(told)
      /\ fault = "none" => screen' = v
      /\ fault = "reasoning" => screen' = Q!ResetAll(v)
      /\ fault # "progress" => IF calls /\ shows /\ ~internal
           THEN Q!Stored("assistant_progress", id, text)
                               ELSE UNCHANGED answerRows
      /\ candidate' = IF ~calls /\ shows THEN [text |-> text, id |-> id] ELSE candidate
      /\ UNCHANGED <<progress, outputs, letters>>
  BY DEF Q!StreamEnds
<1>2. /\ fault = "none" => phase' = "loop" /\ UNCHANGED outcome
      /\ fault # "none" => phase' = "over" /\ outcome' = "failed"
  BY DEF Q!StreamEnds, Q!Ends
<1>3. /\ id \in Q!Ids /\ id = outputs /\ id > 0 /\ ~Q!Settled(id) /\ outcome = "running"
      /\ outputs \in Nat
      /\ candidate = Q!Nothing /\ \A n \in DOMAIN answerRows : answerRows[n].id < id
      /\ text \in Seq(Letters) /\ stream.blocked \in BOOLEAN /\ calls \in BOOLEAN
      /\ stream.blocked => Q!Internal(text)
      /\ Q!ResetAll(told) = closed /\ Q!Reset(told, id) = closed
      /\ ~stream.blocked /\ text = <<>> => told = closed
      /\ ~stream.blocked /\ text # <<>> =>
           /\ ~Q!Internal(text)
           /\ told = [i \in Q!Ids |-> IF i = id THEN [text |-> text, state |-> "open"]
                ELSE closed[i]]
           /\ Q!Committed(told, id, "progress") =
                [i \in Q!Ids |-> IF i = id THEN [text |-> text, state |-> "progress"]
                  ELSE closed[i]]
  <2>1. calls \in BOOLEAN
    BY DEF Q!IInv, Q!TypeOK
  <2> QED
    BY <1>1, <2>1, StreamTold, TurnFacts
<1>4. /\ closed \in TurnViews /\ \A i \in Q!Ids : closed[i].state # "open"
      /\ Q!ResetAll(closed) = closed
  BY <1>3, ResetsClose DEF Q!Absent
<1> HIDE DEF told, closed
<1>5. CASE calls /\ shows /\ ~internal /\ fault # "progress"
  <2> DEFINE role == "assistant_progress"
             state == "progress"
             m == [text |-> text, state |-> "progress"]
             s == [i \in Q!Ids |-> IF i = id THEN m ELSE closed[i]]
  <2>1. v = s /\ Q!Stored(role, id, text)
    BY <1>1, <1>3, <1>5
  <2>2. Q!ResetAll(s) = s
    <3>1. m \in [text : Seq(Letters), state : Q!States] /\ m.state # "open"
      BY <1>3 DEF Q!States
    <3> HIDE DEF m
    <3>2. s \in TurnViews /\ \A i \in Q!Ids : s[i].state # "open"
      BY <1>3, <1>4, <3>1 DEF TurnViews
    <3>3. s = [i \in Q!Ids |-> s[i]]
      OBVIOUS
    <3> HIDE DEF s
    <3>4. Q!ResetAll(s) = [i \in Q!Ids |-> IF s[i].state = "open" THEN Q!Absent ELSE s[i]]
      BY <1>3, <3>2, ShowSteps
    <3> QED
      BY <3>2, <3>3, <3>4
  <2>3. screen' = s
    <3> HIDE DEF s, v
    <3> QED
      BY <1>1, <1>5, <2>1, <2>2
  <2>4. TurnShows(id, [text |-> text, state |-> state])
    BY <2>3 DEF TurnShows, closed
  <2>5. /\ role \in {"assistant", "assistant_progress"}
        /\ state = (IF role = "assistant" THEN "completed" ELSE "progress")
    OBVIOUS
  <2>6. (outcome' = "answered") = (role = "assistant")
          /\ outcome' \in {"running", "answered", "failed", "steered"}
        /\ (phase' = "over") = (outcome' # "running") /\ phase' \in {"loop", "over"}
    BY <1>2, <1>3
  <2>7. candidate' = Q!Nothing /\ text # <<>> /\ ~Q!Internal(text) /\ id <= outputs'
    BY <1>1, <1>3, <1>5
  <2> HIDE DEF id, text, role, state, v
  <2> QED
    BY <1>1, <1>3, <2>1, <2>4, <2>5, <2>6, <2>7, TurnTypes, StoringKeeps
<1>6. CASE ~calls /\ shows /\ ~stream.blocked /\ fault = "none"
  <2>1. /\ screen' = [i \in Q!Ids |-> IF i = id THEN [text |-> text, state |-> "open"]
             ELSE closed[i]]
        /\ UNCHANGED answerRows
    BY <1>1, <1>3, <1>6
  <2>2. TurnShows(id, [text |-> text, state |-> "open"])
    BY <2>1 DEF TurnShows, closed
  <2>3. /\ candidate' = [text |-> text, id |-> id] /\ text # <<>> /\ ~Q!Internal(text)
        /\ phase' = "loop" /\ UNCHANGED <<answerRows, outcome>> /\ id <= outputs'
    BY <1>1, <1>2, <1>3, <1>6, <2>1
  <2> HIDE DEF id, text, v
  <2> QED
    BY <1>1, <1>3, <2>2, <2>3, TurnTypes, KeepingKeeps
<1>7. CASE /\ ~(calls /\ shows /\ ~internal /\ fault # "progress")
           /\ ~(~calls /\ shows /\ ~stream.blocked /\ fault = "none")
  <2>1. UNCHANGED answerRows
    BY <1>1, <1>7
  <2>2. screen' = closed
    <3>1. CASE fault = "progress"
      BY <1>1, <1>3, <3>1
    <3>2. CASE fault # "progress" /\ (calls \/ stream.blocked \/ ~shows)
      <4>1. v = closed
        BY <1>1, <1>3, <1>7, <3>2
      <4> HIDE DEF v
      <4> QED
        BY <1>1, <1>4, <3>2, <4>1
    <3>3. CASE fault = "reasoning" /\ ~calls /\ ~stream.blocked /\ shows
      <4>1. v = told
        BY <3>3
      <4> HIDE DEF v
      <4> QED
        BY <1>1, <1>3, <3>3, <4>1
    <3> QED
      BY <1>1, <1>7, <3>1, <3>2, <3>3
  <2>3. /\ phase' \in {"loop", "over"} /\ outcome' \in {"running", "failed"}
        /\ (phase' = "over") = (outcome' # "running")
    BY <1>2, <1>3
  <2>4. /\ candidate' \in TurnCandidates /\ (candidate'.id = Q!NoId) = (candidate'.text = <<>>)
        /\ \/ candidate' = Q!Nothing \/ phase' = "over"
           \/ Q!Internal(candidate'.text) /\ candidate'.id = id
    <3>1. CASE ~calls /\ shows
      <4>1. candidate' = [text |-> text, id |-> id] /\ text # <<>> /\ id # Q!NoId
              /\ candidate' \in TurnCandidates
        BY <1>1, <1>3, <3>1, TurnNumbers DEF TurnCandidates
      <4>2. phase' = "over" \/ Q!Internal(text)
        BY <1>2, <1>3, <1>7, <3>1
      <4> HIDE DEF id, text
      <4> QED
        BY <4>1, <4>2
    <3>2. CASE ~(~calls /\ shows)
      BY <1>1, <1>3, <3>2, TurnTypes
    <3> QED
      BY <3>1, <3>2
  <2>5. candidate' = Q!Nothing \/ phase' = "over"
         \/ /\ Q!Internal(candidate'.text) /\ candidate'.id <= outputs'
            /\ \A n \in DOMAIN answerRows : answerRows[n].id < candidate'.id
    BY <1>1, <1>3, <2>4
  <2>6. screen' = Q!ResetAll(screen) /\ outcome' # "answered" /\ phase # "over"
    BY <1>1, <2>2, <2>3 DEF closed
  <2> HIDE DEF id, text, v
  <2> QED
    BY <1>1, <2>1, <2>3, <2>4, <2>5, <2>6, TurnTypes, ClosingKeeps
<1> QED
  BY <1>5, <1>6, <1>7

\* A turn begins in the invariant.
LEMMA TurnStarts == ASSUME Q!Init PROVE Q!IInv
<1>1. /\ phase = "loop" /\ outcome = "running" /\ candidate = Q!Nothing /\ stream = Q!NoStream
      /\ progress = [activity |-> FALSE, tools |-> FALSE, interrupted |-> FALSE]
      /\ screen = [id \in Q!Ids |-> Q!Absent] /\ answerRows = <<>> /\ outputs = 0 /\ letters = 0
  BY DEF Q!Init
<1>2. Q!Absent \in [text : Seq(Letters), state : Q!States] /\ Q!Absent.text = <<>>
        /\ Q!Absent.state = "none"
  BY NothingIsClean DEF Q!Absent, Q!States
<1>3. Q!TypeOK
  <2>1. candidate \in [text : Seq(Letters), id : Q!Ids]
    BY <1>1, TurnNumbers, NothingIsClean DEF Q!Nothing
  <2>2. stream \in [id : Q!Ids, raw : Seq(Letters), pending : Seq(Letters), blocked : BOOLEAN,
                    calls : BOOLEAN, reasoned : BOOLEAN]
    BY <1>1, TurnNumbers, NothingIsClean DEF Q!NoStream
  <2>3. outputs \in 0..MaxOutputs /\ letters \in 0..MaxText
    BY <1>1, TurnBounds
  <2> QED
    BY <1>1, <1>2, <2>1, <2>2, <2>3, EmptySeq DEF Q!TypeOK
<1>4. Q!ShownIsStored /\ Q!NothingInternalIsShown
  BY <1>1, <1>2, NothingIsClean DEF Q!ShownIsStored, Q!NothingInternalIsShown, Q!Settled
<1>5. Q!StreamInv /\ Q!CandidateInv
  BY <1>1 DEF Q!StreamInv, Q!CandidateInv, Q!Nothing
<1>6. Q!ViewInv
  BY <1>1, <1>2, TurnNumbers DEF Q!ViewInv
<1>7. Q!RowsInv
  BY <1>1 DEF Q!RowsInv
<1> QED
  BY <1>3, <1>4, <1>5, <1>6, <1>7 DEF Q!IInv

\* Every step of a turn keeps the invariant.
LEMMA TurnStep == ASSUME Q!IInv, Q!Next \/ UNCHANGED turnVars PROVE Q!IInv'
<1>1. ASSUME UNCHANGED turnVars PROVE Q!IInv'
  <2>1. UNCHANGED <<phase, candidate, stream, progress, screen, answerRows, outputs, letters,
                    outcome>>
    BY <1>1 DEF turnVars
  <2>2. Q!TypeOK'
    BY <2>1 DEF Q!IInv, Q!TypeOK
  <2>3. Q!ShownIsStored'
    BY <2>1 DEF Q!IInv, Q!ShownIsStored, Q!Settled
  <2>4. Q!NothingInternalIsShown'
    BY <2>1 DEF Q!IInv, Q!NothingInternalIsShown
  <2>5. Q!StreamInv' /\ Q!CandidateInv'
    BY <2>1 DEF Q!IInv, Q!StreamInv, Q!CandidateInv
  <2>6. Q!ViewInv' /\ Q!RowsInv'
    BY <2>1 DEF Q!IInv, Q!ViewInv, Q!RowsInv
  <2> QED
    BY <2>2, <2>3, <2>4, <2>5, <2>6 DEF Q!IInv
<1>2. ASSUME NEW text \in Q!Texts(MaxChunk), Q!Chunk(text) PROVE Q!IInv'
  BY <1>2, TextsAreTexts, TurnBounds, TurnChunk
<1>3. ASSUME NEW fault \in {"none", "progress", "reasoning"}, Q!StreamEnds(fault) PROVE Q!IInv'
  BY <1>3, TurnStreamEnds
<1>4. ASSUME NEW text \in Q!Texts(MaxText), NEW calls \in BOOLEAN, NEW fault \in BOOLEAN,
             Q!WholeMessage(text, calls, fault)
      PROVE  Q!IInv'
  BY <1>4, TextsAreTexts, TurnBounds, TurnWholeMessage
<1>5. ASSUME NEW fault \in BOOLEAN, Q!ToolResult(fault) \/ Q!FinishWithAnswer(fault) PROVE Q!IInv'
  BY <1>5, TurnToolResult, TurnFinishWithAnswer
<1>6. ASSUME NEW how \in {"failed", "steered"}, Q!LoopBreaks(how) PROVE Q!IInv'
  BY <1>6, TurnLoopBreaks
<1>7. ASSUME NEW text \in Q!Texts(1), NEW fault \in BOOLEAN, Q!FinishWithFinalizer(text, fault)
      PROVE  Q!IInv'
  BY <1>7, TextsAreTexts, TurnFinishWithFinalizer
<1>8. ASSUME Q!StreamBegins \/ Q!OtherChunk \/ Q!StreamRetries \/ Q!StreamBreaks PROVE Q!IInv'
  BY <1>8, TurnStreamBegins, TurnOtherChunk, TurnStreamRetries, TurnStreamBreaks
<1>9. ASSUME Q!Interrupted \/ Q!LoopEnds \/ Q!FinishInterrupted \/ Q!FinishFails PROVE Q!IInv'
  BY <1>9, TurnInterrupted, TurnLoopEnds, TurnFinishInterrupted, TurnFinishFails
<1> QED
  BY <1>1, <1>2, <1>3, <1>4, <1>5, <1>6, <1>7, <1>8, <1>9 DEF Q!Next

\* What a turn reports agrees with the last of its rows.
LEMMA TurnAnswers == ASSUME Q!IInv PROVE Q!AnsweredMeansAnswer
<1> DEFINE answers == {n \in DOMAIN answerRows : answerRows[n].role = "assistant"}
<1>1. \A n \in DOMAIN answerRows : answerRows[n].role = "assistant" => n = Len(answerRows)
        /\ outcome = "answered"
  BY DEF Q!IInv, Q!RowsInv
<1>2. ASSUME outcome = "answered", ~progress.interrupted PROVE answers = {Len(answerRows)}
  <2>1. answerRows # <<>> /\ answerRows[Len(answerRows)].role = "assistant"
          /\ answerRows \in Seq(TurnRow)
    BY <1>2, TurnFacts DEF Q!IInv, Q!RowsInv
  <2>2. Len(answerRows) \in DOMAIN answerRows
    BY <2>1, LenProperties, EmptySeq
  <2> QED
    BY <1>1, <2>1, <2>2
<1>3. outcome # "answered" => answers = {}
  BY <1>1
<1> QED
  BY <1>2, <1>3 DEF Q!AnsweredMeansAnswer

\* In every state of a turn what is open is the stream or the candidate, what the guard
\* holds back is the rest of what has come, and the rows are what is shown for good
\* (runtime.go).
THEOREM TurnInvariance == Spec => []Q!IInv
<1>1. Init => Q!IInv
  BY TurnStarts DEF Init
<1>2. ASSUME Next \/ UNCHANGED vars PROVE Q!Next \/ UNCHANGED turnVars
  BY <1>2 DEF Next, vars, MoveTools, MoveClients, MoveExplanations, MoveSearches,
              MoveChat, MoveActivity, MoveTurn
<1>3. Q!IInv /\ [Next]_vars => Q!IInv'
  BY <1>2, TurnStep
<1> QED
  BY <1>1, <1>3, PTL DEF Spec

-----------------------------------------------------------------------------
(* What clients are shown *)

\* chat_events.go and mcp_activity.go: a console that follows a conversation has been
\* told of every event up to its cursor and is sent what follows it, and one that
\* follows tool calls believes what is stored, where nothing is shown as running
\* that nobody serves; what it was shown of a turn for good is stored, nothing internal
\* is shown in whatever pieces it comes, and an answered turn has an answer (runtime.go).
THEOREM ConsolesMissNothing == Spec => []ClientsMissNothing
<1>1. E!IInv => E!TypeOK /\ E!SubscribersMissNothing /\ E!HandOffIsSeamless
  BY ChatHandOff DEF E!IInv
<1>2. A!IInv => A!TypeOK /\ A!ToldIsStored /\ A!RunningIsServed
  <2> SUFFICES ASSUME A!IInv PROVE A!ToldIsStored /\ A!RunningIsServed
    BY DEF A!IInv
  <2>1. A!ToldIsStored
    <3> SUFFICES ASSUME informed, open, channel = <<>>, NEW c \in ToolRequests,
                        handler[c] \notin {"inserted", "recorded"}
                 PROVE  view[c] = status[c]
      BY DEF A!ToldIsStored
    <3>1. \/ A!LastTells(channel, c, status[c])
          \/ A!NoneTells(channel, c) /\ (informed => view[c] = status[c])
      BY DEF A!IInv, A!FeedInv
    <3>2. ~A!LastTells(channel, c, status[c])
      <4>1. Len(channel) = 0
        BY EmptySeq
      <4> QED
        BY <4>1 DEF A!LastTells
    <3> QED
      BY <3>1, <3>2
  <2>2. A!RunningIsServed
    BY DEF A!IInv, A!TypeOK, A!CallInv, A!RunningIsServed, A!Ended
  <2> QED
    BY <2>1, <2>2
<1>3. Q!IInv => /\ Q!TypeOK /\ Q!ShownIsStored /\ Q!NothingInternalIsShown
               /\ Q!AnsweredMeansAnswer
  BY TurnAnswers DEF Q!IInv
<1> QED
  BY <1>1, <1>2, <1>3, ChatInvariance, ActivityInvariance, TurnInvariance, PTL
     DEF ClientsMissNothing

-----------------------------------------------------------------------------
(* The journal of tool calls *)

\* A write that was decided is made, and nothing else is written.
LEMMA JournalWrites ==
  ASSUME T!TypeOK, NEW w, NEW c \in Calls, T!FinishWrite(w, c)
  PROVE  /\ pending' = {p \in pending : ~(p[1] = w /\ p[2] = c)}
         /\ journal' \in [Calls -> T!Terminal \cup {"none", "running"}]
         /\ \A d \in Calls : d # c => journal'[d] = journal[d]
         /\ \/ journal'[c] = journal[c]
            \/ \E p \in pending : p[1] = w /\ p[2] = c /\ journal'[c] = p[3]
<1> DEFINE mine == {p \in pending : p[1] = w /\ p[2] = c}
           first == CHOOSE p \in mine : TRUE
<1>1. /\ pending' = pending \ mine
      /\ journal' = [journal EXCEPT ![c] = IF mine = {} THEN @ ELSE first[3]]
  BY DEF T!FinishWrite
<1>2. mine # {} => first \in mine
  OBVIOUS
<1>3. \A p \in pending : p[3] \in T!Terminal
  BY DEF T!TypeOK
<1>4. pending' = {p \in pending : ~(p[1] = w /\ p[2] = c)}
  BY <1>1
<1>5. mine # {} => first \in pending /\ first[1] = w /\ first[2] = c /\ first[3] \in T!Terminal
  BY <1>2, <1>3
<1> HIDE DEF mine, first
<1> QED
  BY <1>1, <1>4, <1>5 DEF T!TypeOK

\* What is decided to be written is of a row the journal has.
LEMMA JournalDecides ==
  ASSUME T!TypeOK, NEW w \in {"tool", "loop", "settle", "exec"}, NEW c \in Calls,
         NEW s \in T!Terminal, T!FinishRead(w, c, s)
  PROVE  /\ pending' \subseteq {"tool", "loop", "settle", "exec"} \X Calls \X T!Terminal
         /\ pending \subseteq pending'
         /\ \A p \in pending' :
              \/ p \in pending
              \/ p = <<w, c, s>> /\ p[1] = w /\ p[2] = c /\ p[3] = s /\ journal[c] # "none"
<1>1. \/ pending' = pending
      \/ pending' = pending \cup {<<w, c, s>>} /\ journal[c] # "none"
  BY DEF T!FinishRead, T!Decides, T!TypeOK, T!Terminal
<1>2. <<w, c, s>> \in {"tool", "loop", "settle", "exec"} \X Calls \X T!Terminal
  OBVIOUS
<1>3. pending' \subseteq {"tool", "loop", "settle", "exec"} \X Calls \X T!Terminal
  BY <1>1, <1>2 DEF T!TypeOK
<1>4. ASSUME NEW p \in pending'
      PROVE  \/ p \in pending
             \/ p = <<w, c, s>> /\ p[1] = w /\ p[2] = c /\ p[3] = s /\ journal[c] # "none"
  BY <1>1
<1> QED
  BY <1>1, <1>3, <1>4

\* Every step leaves every variable well typed.
LEMMA JournalTyping ==
  ASSUME T!TypeOK, T!CallInv, T!ResultInv, T!Next \/ UNCHANGED toolVars
  PROVE  T!TypeOK'
<1> USE CallBounds, StreamBounds DEF T!TypeOK, T!Goto, T!Stage, T!Terminal, T!scopes, T!tools,
    T!events, T!bounds
<1>1. CASE UNCHANGED toolVars
  BY <1>1 DEF toolVars
<1>2. ASSUME T!BeginTurn, kind' = kind PROVE T!TypeOK'
  BY <1>2 DEF T!BeginTurn
<1>3. ASSUME T!CancelSession, kind' = kind PROVE T!TypeOK'
  BY <1>3 DEF T!CancelSession
<1>4. ASSUME T!TurnCompletes, kind' = kind PROVE T!TypeOK'
  BY <1>4 DEF T!TurnCompletes
<1>5. ASSUME T!TurnFails, kind' = kind PROVE T!TypeOK'
  BY <1>5 DEF T!TurnFails
<1>6. ASSUME T!Unsubscribe, kind' = kind PROVE T!TypeOK'
  BY <1>6, 0 \in 0 .. Buffer DEF T!Unsubscribe
<1>7. ASSUME T!SettleList, kind' = kind PROVE T!TypeOK'
  BY <1>7 DEF T!SettleList
<1>8. ASSUME T!Settled, kind' = kind PROVE T!TypeOK'
  BY <1>8 DEF T!Settled
<1>9. ASSUME T!EndSession, kind' = kind PROVE T!TypeOK'
  BY <1>9 DEF T!EndSession
<1>10. ASSUME T!Receive, kind' = kind PROVE T!TypeOK'
  BY <1>10 DEF T!Receive
<1>11. ASSUME T!Crash, kind' = kind PROVE T!TypeOK'
  <2>1. /\ stage' \in [Turns -> {"none", "run", "list", "ids", "settle", "end", "over"}]
        /\ turn' = 0 /\ registered' = {} /\ modelEnd' = {} /\ scopesCancelled' = {}
        /\ scopesClosed' = {}
    BY <1>11 DEF T!Crash
  <2>2. /\ tool' \in [Calls -> {"idle", "scoped", "called", "finish", "write", "release", "loop", "done"}]
        /\ of' = of /\ toolResult' = toolResult /\ listed' = {} /\ pending' = {}
    BY <1>11 DEF T!Crash
  <2>3. journal' \in [Calls -> T!Terminal \cup {"none", "running"}]
    BY <1>11 DEF T!Crash, T!Recovered
  <2>4. /\ toolRun' \in [Calls -> T!Terminal \cup {"none", "approval_required", "running", "abandoned"}]
        /\ toolPublisher' \in [Calls -> {"none", "read", "write", "send"}]
    BY <1>11 DEF T!Crash
  <2>5. console' \in 0 .. Buffer /\ crashes' \in 0 .. MaxFaults /\ failures' \in 0 .. MaxFaults
    BY <1>11 DEF T!Crash
  <2>6. subscribed' \in BOOLEAN
    BY <1>11, Zenon DEF T!Crash
  <2> HIDE DEF T!Terminal
  <2>7. kind' \in Kinds /\ turn' \in Turns \cup {0}
    BY <1>11, <2>1, <2>5
  <2>8. /\ registered' \subseteq Turns /\ modelEnd' \subseteq Turns
        /\ scopesCancelled' \subseteq Turns /\ scopesClosed' \subseteq Turns
        /\ listed' \subseteq Calls
        /\ pending' \subseteq {"tool", "loop", "settle", "exec"} \X Calls \X T!Terminal
    BY <2>1, <2>2, Zenon
  <2>9. of' \in [Calls -> Turns \cup {0}] /\ toolResult' \in [Calls -> T!Terminal \cup {"none"}]
    BY <2>2
  <2> QED
    BY <2>1, <2>2, <2>3, <2>4, <2>5, <2>7, <2>8, <2>9, <2>6
<1>12. ASSUME NEW c \in Calls, T!Settle(c), kind' = kind PROVE T!TypeOK'
  <2>1. /\ "settle" \in {"tool", "loop", "settle", "exec"}
        /\ "interrupted" \in T!Terminal /\ "unknown" \in T!Terminal
    BY DEF T!Terminal
  <2>2. pending' \subseteq {"tool", "loop", "settle", "exec"} \X Calls \X T!Terminal
    BY <1>12, <2>1, JournalDecides DEF T!Settle
  <2> QED
    BY <1>12, <2>2 DEF T!Settle
<1>13. ASSUME NEW c \in Calls, T!SettleWrite(c), kind' = kind PROVE T!TypeOK'
  BY <1>13, JournalWrites DEF T!SettleWrite
<1>14. ASSUME NEW c \in Calls, T!ToolStarted(c), kind' = kind PROVE T!TypeOK'
  BY <1>14 DEF T!ToolStarted
<1>15. ASSUME NEW c \in Calls, T!RunSubmitted(c), kind' = kind PROVE T!TypeOK'
  BY <1>15 DEF T!RunSubmitted
<1>16. ASSUME NEW c \in Calls, T!ToolReturns(c), kind' = kind PROVE T!TypeOK'
  <2>1. PICK s \in T!Terminal : T!Returns(c, s)
    BY <1>16 DEF T!ToolReturns
  <2> QED
    BY <2>1, <1>16 DEF T!Returns
<1>17. ASSUME NEW c \in Calls, T!RunReturns(c), kind' = kind PROVE T!TypeOK'
  BY <1>17 DEF T!RunReturns, T!Returns
<1>18. ASSUME NEW c \in Calls, T!ToolCancelled(c), kind' = kind PROVE T!TypeOK'
  BY <1>18 DEF T!ToolCancelled, T!Returns
<1>19. ASSUME NEW c \in Calls, T!ToolFinishes(c), kind' = kind PROVE T!TypeOK'
  <2>1. toolResult[c] \in T!Terminal
    BY <1>19 DEF T!ToolFinishes, T!CallInv
  <2>2. pending' \subseteq {"tool", "loop", "settle", "exec"} \X Calls \X T!Terminal
    BY <1>19, <2>1, JournalDecides DEF T!ToolFinishes
  <2> QED
    BY <1>19, <2>2 DEF T!ToolFinishes
<1>20. ASSUME NEW c \in Calls, T!ToolWrites(c), kind' = kind PROVE T!TypeOK'
  BY <1>20, JournalWrites DEF T!ToolWrites
<1>21. ASSUME NEW c \in Calls, T!ToolReleases(c), kind' = kind PROVE T!TypeOK'
  BY <1>21 DEF T!ToolReleases
<1>22. ASSUME NEW c \in Calls, T!LoopPersists(c), kind' = kind PROVE T!TypeOK'
  <2>1. toolResult[c] \in T!Terminal
    BY <1>22 DEF T!LoopPersists, T!CallInv
  <2>2. CASE T!FinishRead("loop", c, toolResult[c]) /\ UNCHANGED <<stage, journal, failures>>
    <3>1. pending' \subseteq {"tool", "loop", "settle", "exec"} \X Calls \X T!Terminal
      BY <2>1, <2>2, JournalDecides
    <3> QED
      BY <1>22, <2>2, <3>1 DEF T!LoopPersists
  <2>3. CASE T!FinishWrite("loop", c) /\ UNCHANGED <<stage, failures>>
    BY <1>22, <2>3, JournalWrites DEF T!LoopPersists
  <2>4. CASE failures' = failures + 1
    BY <1>22, <2>4 DEF T!LoopPersists
  <2> QED
    BY <1>22, <2>2, <2>3, <2>4 DEF T!LoopPersists
<1>23. ASSUME NEW c \in Calls, T!PublishRead(c), kind' = kind PROVE T!TypeOK'
  <2>1. toolRun[c] \in T!Terminal
    BY <1>23 DEF T!PublishRead, T!ResultInv
  <2>2. pending' \subseteq {"tool", "loop", "settle", "exec"} \X Calls \X T!Terminal
    BY <1>23, <2>1, JournalDecides DEF T!PublishRead
  <2> QED
    BY <1>23, <2>2 DEF T!PublishRead
<1>24. ASSUME NEW c \in Calls, T!PublishWrite(c), kind' = kind PROVE T!TypeOK'
  BY <1>24, JournalWrites DEF T!PublishWrite
<1>25. ASSUME NEW c \in Calls, T!Send(c), kind' = kind PROVE T!TypeOK'
  BY <1>25 DEF T!Send
<1>26. ASSUME NEW c \in Calls, T!ToolScoped(c), kind' = kind PROVE T!TypeOK'
  BY <1>26 DEF T!ToolScoped
<1>27. ASSUME NEW c \in Calls, T!ToolWriteFails(c), kind' = kind PROVE T!TypeOK'
  BY <1>27 DEF T!ToolWriteFails
<1>28. ASSUME NEW c \in Calls, T!Approve(c), kind' = kind PROVE T!TypeOK'
  BY <1>28 DEF T!Approve
<1>29. ASSUME NEW c \in Calls, T!RunEnds(c), kind' = kind PROVE T!TypeOK'
  BY <1>29 DEF T!RunEnds
<1> QED
    BY <1>1, <1>2, <1>3, <1>4, <1>5, <1>6, <1>7, <1>8, <1>9, <1>10, <1>11, <1>12, <1>13, <1>14,
     <1>15, <1>16, <1>17, <1>18, <1>19, <1>20, <1>21, <1>22, <1>23, <1>24, <1>25, <1>26, <1>27,
     <1>28, <1>29, Zenon DEF T!Next, T!Turn, T!Tool, T!Executor

\* Turns begin, fail and end one after the other.
LEMMA JournalTurns ==
  ASSUME T!TypeOK, T!TurnInv, T!Next \/ UNCHANGED toolVars
  PROVE  T!TurnInv'
<1> USE CallBounds DEF T!Goto, T!Stage, T!scopes, T!tools, T!events, T!bounds, T!TypeOK, T!TurnInv
<1>1. CASE UNCHANGED toolVars
  BY <1>1 DEF toolVars
<1>2. ASSUME T!BeginTurn, kind' = kind PROVE T!TurnInv'
  BY <1>2 DEF T!BeginTurn
<1>3. ASSUME T!CancelSession, kind' = kind PROVE T!TurnInv'
  BY <1>3 DEF T!CancelSession
<1>4. ASSUME T!TurnCompletes, kind' = kind PROVE T!TurnInv'
  BY <1>4 DEF T!TurnCompletes
<1>5. ASSUME T!TurnFails, kind' = kind PROVE T!TurnInv'
  BY <1>5 DEF T!TurnFails
<1>6. ASSUME T!Unsubscribe, kind' = kind PROVE T!TurnInv'
  BY <1>6 DEF T!Unsubscribe
<1>7. ASSUME T!SettleList, kind' = kind PROVE T!TurnInv'
  BY <1>7 DEF T!SettleList
<1>8. ASSUME T!Settled, kind' = kind PROVE T!TurnInv'
  BY <1>8 DEF T!Settled
<1>9. ASSUME T!EndSession, kind' = kind PROVE T!TurnInv'
  <2>1. /\ turn \in Turns /\ stage' = [stage EXCEPT ![turn] = "over"] /\ turn' = 0
        /\ stage[turn] = "end"
        /\ modelEnd' = modelEnd \cup {turn} /\ UNCHANGED scopesCancelled
        /\ \/ scopesClosed' = scopesClosed \cup {turn} /\ registered' = registered \ {turn}
           \/ UNCHANGED <<scopesClosed, registered>>
    BY <1>9 DEF T!EndSession
  <2> QED
    BY <2>1
<1>10. ASSUME T!Receive, kind' = kind PROVE T!TurnInv'
  BY <1>10 DEF T!Receive
<1>11. ASSUME T!Crash, kind' = kind PROVE T!TurnInv'
  BY <1>11 DEF T!Crash
<1>12. ASSUME NEW c \in Calls, T!Settle(c), kind' = kind PROVE T!TurnInv'
  BY <1>12 DEF T!Settle
<1>13. ASSUME NEW c \in Calls, T!SettleWrite(c), kind' = kind PROVE T!TurnInv'
  BY <1>13 DEF T!SettleWrite
<1>14. ASSUME NEW c \in Calls, T!ToolStarted(c), kind' = kind PROVE T!TurnInv'
  BY <1>14 DEF T!ToolStarted
<1>15. ASSUME NEW c \in Calls, T!RunSubmitted(c), kind' = kind PROVE T!TurnInv'
  BY <1>15 DEF T!RunSubmitted
<1>16. ASSUME NEW c \in Calls, T!ToolReturns(c), kind' = kind PROVE T!TurnInv'
  BY <1>16 DEF T!ToolReturns, T!Returns
<1>17. ASSUME NEW c \in Calls, T!RunReturns(c), kind' = kind PROVE T!TurnInv'
  BY <1>17 DEF T!RunReturns, T!Returns
<1>18. ASSUME NEW c \in Calls, T!ToolCancelled(c), kind' = kind PROVE T!TurnInv'
  BY <1>18 DEF T!ToolCancelled, T!Returns
<1>19. ASSUME NEW c \in Calls, T!ToolFinishes(c), kind' = kind PROVE T!TurnInv'
  BY <1>19 DEF T!ToolFinishes
<1>20. ASSUME NEW c \in Calls, T!ToolWrites(c), kind' = kind PROVE T!TurnInv'
  BY <1>20 DEF T!ToolWrites
<1>21. ASSUME NEW c \in Calls, T!ToolReleases(c), kind' = kind PROVE T!TurnInv'
  <2>1. /\ UNCHANGED <<turn, stage, modelEnd, scopesCancelled>>
        /\ \/ UNCHANGED <<registered, scopesClosed>>
           \/ /\ of[c] \in modelEnd
              /\ registered' = registered \ {of[c]} /\ scopesClosed' = scopesClosed \cup {of[c]}
    BY <1>21 DEF T!ToolReleases
  <2> QED
    BY <2>1
<1>22. ASSUME NEW c \in Calls, T!LoopPersists(c), kind' = kind PROVE T!TurnInv'
  BY <1>22 DEF T!LoopPersists
<1>23. ASSUME NEW c \in Calls, T!PublishRead(c), kind' = kind PROVE T!TurnInv'
  BY <1>23 DEF T!PublishRead
<1>24. ASSUME NEW c \in Calls, T!PublishWrite(c), kind' = kind PROVE T!TurnInv'
  BY <1>24 DEF T!PublishWrite
<1>25. ASSUME NEW c \in Calls, T!Send(c), kind' = kind PROVE T!TurnInv'
  BY <1>25 DEF T!Send
<1>26. ASSUME NEW c \in Calls, T!ToolScoped(c), kind' = kind PROVE T!TurnInv'
  BY <1>26 DEF T!ToolScoped
<1>27. ASSUME NEW c \in Calls, T!ToolWriteFails(c), kind' = kind PROVE T!TurnInv'
  BY <1>27 DEF T!ToolWriteFails
<1>28. ASSUME NEW c \in Calls, T!Approve(c), kind' = kind PROVE T!TurnInv'
  BY <1>28 DEF T!Approve
<1>29. ASSUME NEW c \in Calls, T!RunEnds(c), kind' = kind PROVE T!TurnInv'
  BY <1>29 DEF T!RunEnds
<1> QED
    BY <1>1, <1>2, <1>3, <1>4, <1>5, <1>6, <1>7, <1>8, <1>9, <1>10, <1>11, <1>12, <1>13, <1>14,
     <1>15, <1>16, <1>17, <1>18, <1>19, <1>20, <1>21, <1>22, <1>23, <1>24, <1>25, <1>26, <1>27,
     <1>28, <1>29, Zenon DEF T!Next, T!Turn, T!Tool, T!Executor

\* A call keeps its turn, its scope and its place in the journal, whoever moves.
LEMMA JournalCalls ==
  ASSUME T!TypeOK, T!TurnInv, T!CallInv, T!PendingInv, T!Next \/ UNCHANGED toolVars
  PROVE  T!CallInv'
<1> USE CallBounds DEF T!Goto, T!Stage, T!scopes, T!tools, T!events, T!bounds, T!TypeOK,
    T!CallInv, T!InScope
<1>1. CASE UNCHANGED toolVars
  BY <1>1 DEF toolVars
<1>2. ASSUME T!BeginTurn, kind' = kind PROVE T!CallInv'
  BY <1>2 DEF T!BeginTurn
<1>3. ASSUME T!CancelSession, kind' = kind PROVE T!CallInv'
  BY <1>3 DEF T!CancelSession
<1>4. ASSUME T!TurnCompletes, kind' = kind PROVE T!CallInv'
  BY <1>4 DEF T!TurnCompletes
<1>5. ASSUME T!TurnFails, kind' = kind PROVE T!CallInv'
  BY <1>5 DEF T!TurnFails
<1>6. ASSUME T!Unsubscribe, kind' = kind PROVE T!CallInv'
  BY <1>6 DEF T!Unsubscribe
<1>7. ASSUME T!SettleList, kind' = kind PROVE T!CallInv'
  <2>1. /\ UNCHANGED <<tool, of, toolResult, journal, registered>> /\ stage[turn] # "none"
        /\ \E t \in {"ids", "settle"} : stage' = [stage EXCEPT ![turn] = t]
    BY <1>7 DEF T!SettleList
  <2> QED
    BY <2>1
<1>8. ASSUME T!Settled, kind' = kind PROVE T!CallInv'
  BY <1>8 DEF T!Settled
<1>9. ASSUME T!EndSession, kind' = kind PROVE T!CallInv'
  <2>1. /\ turn \in Turns /\ stage' = [stage EXCEPT ![turn] = "over"] /\ turn' = 0
        /\ stage[turn] = "end"
        /\ modelEnd' = modelEnd \cup {turn} /\ UNCHANGED scopesCancelled
        /\ \/ scopesClosed' = scopesClosed \cup {turn} /\ registered' = registered \ {turn}
           \/ UNCHANGED <<scopesClosed, registered>>
    BY <1>9 DEF T!EndSession
  <2>2. \A d \in Calls : T!InScope(d) => of[d] \in registered'
    BY <1>9 DEF T!EndSession, T!Active
  <2>3. UNCHANGED <<tool, of, toolResult, journal>>
    BY <1>9 DEF T!EndSession
  <2> QED
    BY <2>1, <2>2, <2>3
<1>10. ASSUME T!Receive, kind' = kind PROVE T!CallInv'
  BY <1>10 DEF T!Receive
<1>11. ASSUME T!Crash, kind' = kind PROVE T!CallInv'
  BY <1>11 DEF T!Crash
<1>12. ASSUME NEW c \in Calls, T!Settle(c), kind' = kind PROVE T!CallInv'
  BY <1>12 DEF T!Settle
<1>13. ASSUME NEW c \in Calls, T!SettleWrite(c), kind' = kind PROVE T!CallInv'
  <2>1. \A d \in Calls : journal[d] = "none" => journal'[d] = "none"
    BY <1>13, JournalWrites DEF T!SettleWrite, T!PendingInv, T!Decided
  <2>2. /\ UNCHANGED <<stage, of, registered, toolResult>>
        /\ \A d \in Calls : tool'[d] = tool[d]
    BY <1>13 DEF T!SettleWrite
  <2> QED
    BY <2>1, <2>2
<1>14. ASSUME NEW c \in Calls, T!ToolStarted(c), kind' = kind PROVE T!CallInv'
  BY <1>14 DEF T!ToolStarted
<1>15. ASSUME NEW c \in Calls, T!RunSubmitted(c), kind' = kind PROVE T!CallInv'
  BY <1>15 DEF T!RunSubmitted
<1>16. ASSUME NEW c \in Calls, T!ToolReturns(c), kind' = kind PROVE T!CallInv'
  BY <1>16 DEF T!ToolReturns, T!Returns
<1>17. ASSUME NEW c \in Calls, T!RunReturns(c), kind' = kind PROVE T!CallInv'
  <2>1. /\ tool[c] = "called" /\ tool' = [tool EXCEPT ![c] = "finish"] /\ toolRun[c] # "none"
        /\ toolResult' = [toolResult EXCEPT ![c] = toolRun[c]]
        /\ UNCHANGED <<stage, of, registered, journal>>
    BY <1>17 DEF T!RunReturns, T!Returns, T!Terminal
  <2> QED
    BY <2>1
<1>18. ASSUME NEW c \in Calls, T!ToolCancelled(c), kind' = kind PROVE T!CallInv'
  BY <1>18 DEF T!ToolCancelled, T!Returns
<1>19. ASSUME NEW c \in Calls, T!ToolFinishes(c), kind' = kind PROVE T!CallInv'
  BY <1>19 DEF T!ToolFinishes
<1>20. ASSUME NEW c \in Calls, T!ToolWrites(c), kind' = kind PROVE T!CallInv'
  <2>1. \A d \in Calls : journal[d] = "none" => journal'[d] = "none"
    BY <1>20, JournalWrites DEF T!ToolWrites, T!PendingInv, T!Decided
  <2>2. /\ UNCHANGED <<stage, of, registered, toolResult>>
        /\ \A d \in Calls :
             tool'[d] = tool[d] \/ (d = c /\ tool[d] = "write" /\ tool'[d] = "release")
    BY <1>20 DEF T!ToolWrites
  <2> QED
    BY <2>1, <2>2
<1>21. ASSUME NEW c \in Calls, T!ToolReleases(c), kind' = kind PROVE T!CallInv'
  <2>1. /\ tool[c] = "release" /\ tool'[c] \in {"loop", "done"}
        /\ \A d \in Calls : d # c => tool'[d] = tool[d]
        /\ UNCHANGED <<stage, of, toolResult, journal>>
    BY <1>21 DEF T!ToolReleases
  <2>2. \A d \in Calls : d # c /\ T!InScope(d) => of[d] \in registered'
    BY <1>21 DEF T!ToolReleases, T!Active
  <2> QED
    BY <2>1, <2>2
<1>22. ASSUME NEW c \in Calls, T!LoopPersists(c), kind' = kind PROVE T!CallInv'
  <2>1. /\ \A d \in Calls : tool'[d] = tool[d] \/ (d = c /\ tool[d] = "loop" /\ tool'[d] = "done")
        /\ UNCHANGED <<of, toolResult, registered>>
        /\ \A t \in Turns : stage[t] # "none" => stage'[t] # "none"
    BY <1>22 DEF T!LoopPersists
  <2>2. \A d \in Calls : journal[d] = "none" => journal'[d] = "none"
    BY <1>22, JournalWrites DEF T!LoopPersists, T!PendingInv, T!Decided
  <2>3. \A d \in Calls : of'[d] = 0 \/ (of'[d] \in Turns /\ stage[of'[d]] # "none")
    BY <2>1
  <2>4. \A d \in Calls : tool'[d] = "idle" <=> of'[d] = 0
    BY <2>1
  <2>5. \A d \in Calls : of'[d] # 0 => stage'[of'[d]] # "none"
    BY <2>1, <2>3
  <2> HIDE DEF T!TypeOK
  <2> QED
    BY <2>1, <2>2, <2>4, <2>5
<1>23. ASSUME NEW c \in Calls, T!PublishRead(c), kind' = kind PROVE T!CallInv'
  BY <1>23 DEF T!PublishRead
<1>24. ASSUME NEW c \in Calls, T!PublishWrite(c), kind' = kind PROVE T!CallInv'
  <2>1. \A d \in Calls : journal[d] = "none" => journal'[d] = "none"
    BY <1>24, JournalWrites DEF T!PublishWrite, T!PendingInv, T!Decided
  <2>2. /\ UNCHANGED <<stage, of, registered, toolResult>>
        /\ \A d \in Calls : tool'[d] = tool[d]
    BY <1>24 DEF T!PublishWrite
  <2> QED
    BY <2>1, <2>2
<1>25. ASSUME NEW c \in Calls, T!Send(c), kind' = kind PROVE T!CallInv'
  BY <1>25 DEF T!Send
<1>26. ASSUME NEW c \in Calls, T!ToolScoped(c), kind' = kind PROVE T!CallInv'
  <2>1. /\ turn \in Turns /\ tool[c] = "idle" /\ tool' = [tool EXCEPT ![c] = "scoped"]
        /\ of' = [of EXCEPT ![c] = turn] /\ stage[turn] # "none" /\ turn \in registered /\ turn # 0
        /\ UNCHANGED <<stage, toolResult, journal, registered>>
    BY <1>26 DEF T!ToolScoped, T!TurnInv
  <2> QED
    BY <2>1
<1>27. ASSUME NEW c \in Calls, T!ToolWriteFails(c), kind' = kind PROVE T!CallInv'
  BY <1>27 DEF T!ToolWriteFails
<1>28. ASSUME NEW c \in Calls, T!Approve(c), kind' = kind PROVE T!CallInv'
  BY <1>28 DEF T!Approve
<1>29. ASSUME NEW c \in Calls, T!RunEnds(c), kind' = kind PROVE T!CallInv'
  BY <1>29 DEF T!RunEnds
<1> QED
    BY <1>1, <1>2, <1>3, <1>4, <1>5, <1>6, <1>7, <1>8, <1>9, <1>10, <1>11, <1>12, <1>13, <1>14,
     <1>15, <1>16, <1>17, <1>18, <1>19, <1>20, <1>21, <1>22, <1>23, <1>24, <1>25, <1>26, <1>27,
     <1>28, <1>29, Zenon DEF T!Next, T!Turn, T!Tool, T!Executor

\* The settlement sees the calls of its turn that nobody works on.
LEMMA JournalLists ==
  ASSUME T!TypeOK, T!TurnInv, T!CallInv, T!ListInv, T!Next \/ UNCHANGED toolVars
  PROVE  T!ListInv'
<1> USE CallBounds DEF T!Goto, T!Stage, T!scopes, T!tools, T!events, T!bounds, T!TypeOK,
    T!ListInv, T!InScope
<1>1. CASE UNCHANGED toolVars
  BY <1>1 DEF toolVars
<1>2. ASSUME T!BeginTurn, kind' = kind PROVE T!ListInv'
  BY <1>2 DEF T!BeginTurn
<1>3. ASSUME T!CancelSession, kind' = kind PROVE T!ListInv'
  BY <1>3 DEF T!CancelSession
<1>4. ASSUME T!TurnCompletes, kind' = kind PROVE T!ListInv'
  BY <1>4 DEF T!TurnCompletes
<1>5. ASSUME T!TurnFails, kind' = kind PROVE T!ListInv'
  BY <1>5 DEF T!TurnFails
<1>6. ASSUME T!Unsubscribe, kind' = kind PROVE T!ListInv'
  BY <1>6 DEF T!Unsubscribe
<1>7. ASSUME T!SettleList, kind' = kind PROVE T!ListInv'
  <2>1. CASE stage[turn] = "list"
    <3>1. /\ stage' = [stage EXCEPT ![turn] = "ids"] /\ turn # 0 /\ turn \in Turns
          /\ \A d \in listed' : d \in Calls /\ of[d] = turn
          /\ UNCHANGED <<turn, of, tool>>
      BY <1>7, <2>1 DEF T!SettleList
    <3> QED
      BY <3>1
  <2>2. CASE stage[turn] = "ids"
    <3>1. /\ stage' = [stage EXCEPT ![turn] = "settle"] /\ turn # 0 /\ turn \in Turns
          /\ \A d \in listed' : d \in listed /\ ~T!InScope(d)
          /\ UNCHANGED <<turn, of, tool>>
      BY <1>7, <2>2 DEF T!SettleList, T!Active
    <3> QED
      BY <3>1
  <2> QED
    BY <1>7, <2>1, <2>2 DEF T!SettleList
<1>8. ASSUME T!Settled, kind' = kind PROVE T!ListInv'
  BY <1>8 DEF T!Settled
<1>9. ASSUME T!EndSession, kind' = kind PROVE T!ListInv'
  BY <1>9 DEF T!EndSession
<1>10. ASSUME T!Receive, kind' = kind PROVE T!ListInv'
  BY <1>10 DEF T!Receive
<1>11. ASSUME T!Crash, kind' = kind PROVE T!ListInv'
  BY <1>11 DEF T!Crash
<1>12. ASSUME NEW c \in Calls, T!Settle(c), kind' = kind PROVE T!ListInv'
  BY <1>12 DEF T!Settle
<1>13. ASSUME NEW c \in Calls, T!SettleWrite(c), kind' = kind PROVE T!ListInv'
  BY <1>13 DEF T!SettleWrite
<1>14. ASSUME NEW c \in Calls, T!ToolStarted(c), kind' = kind PROVE T!ListInv'
  BY <1>14 DEF T!ToolStarted
<1>15. ASSUME NEW c \in Calls, T!RunSubmitted(c), kind' = kind PROVE T!ListInv'
  BY <1>15 DEF T!RunSubmitted
<1>16. ASSUME NEW c \in Calls, T!ToolReturns(c), kind' = kind PROVE T!ListInv'
  BY <1>16 DEF T!ToolReturns, T!Returns
<1>17. ASSUME NEW c \in Calls, T!RunReturns(c), kind' = kind PROVE T!ListInv'
  BY <1>17 DEF T!RunReturns, T!Returns
<1>18. ASSUME NEW c \in Calls, T!ToolCancelled(c), kind' = kind PROVE T!ListInv'
  BY <1>18 DEF T!ToolCancelled, T!Returns
<1>19. ASSUME NEW c \in Calls, T!ToolFinishes(c), kind' = kind PROVE T!ListInv'
  BY <1>19 DEF T!ToolFinishes
<1>20. ASSUME NEW c \in Calls, T!ToolWrites(c), kind' = kind PROVE T!ListInv'
  BY <1>20 DEF T!ToolWrites
<1>21. ASSUME NEW c \in Calls, T!ToolReleases(c), kind' = kind PROVE T!ListInv'
  BY <1>21 DEF T!ToolReleases
<1>22. ASSUME NEW c \in Calls, T!LoopPersists(c), kind' = kind PROVE T!ListInv'
  BY <1>22 DEF T!LoopPersists
<1>23. ASSUME NEW c \in Calls, T!PublishRead(c), kind' = kind PROVE T!ListInv'
  BY <1>23 DEF T!PublishRead
<1>24. ASSUME NEW c \in Calls, T!PublishWrite(c), kind' = kind PROVE T!ListInv'
  BY <1>24 DEF T!PublishWrite
<1>25. ASSUME NEW c \in Calls, T!Send(c), kind' = kind PROVE T!ListInv'
  BY <1>25 DEF T!Send
<1>26. ASSUME NEW c \in Calls, T!ToolScoped(c), kind' = kind PROVE T!ListInv'
  <2>1. /\ tool[c] = "idle" /\ tool' = [tool EXCEPT ![c] = "scoped"] /\ turn # 0
        /\ of' = [of EXCEPT ![c] = turn] /\ of[c] = 0
        /\ UNCHANGED <<turn, stage, listed>>
    BY <1>26 DEF T!ToolScoped, T!CallInv
  <2> QED
    BY <2>1
<1>27. ASSUME NEW c \in Calls, T!ToolWriteFails(c), kind' = kind PROVE T!ListInv'
  BY <1>27 DEF T!ToolWriteFails
<1>28. ASSUME NEW c \in Calls, T!Approve(c), kind' = kind PROVE T!ListInv'
  BY <1>28 DEF T!Approve
<1>29. ASSUME NEW c \in Calls, T!RunEnds(c), kind' = kind PROVE T!ListInv'
  BY <1>29 DEF T!RunEnds
<1> QED
    BY <1>1, <1>2, <1>3, <1>4, <1>5, <1>6, <1>7, <1>8, <1>9, <1>10, <1>11, <1>12, <1>13, <1>14,
     <1>15, <1>16, <1>17, <1>18, <1>19, <1>20, <1>21, <1>22, <1>23, <1>24, <1>25, <1>26, <1>27,
     <1>28, <1>29, Zenon DEF T!Next, T!Turn, T!Tool, T!Executor

\* What a call returned stays what its run was, unless its turn was stopped.
LEMMA JournalResults ==
  ASSUME T!TypeOK, T!TurnInv, T!CallInv, T!ListInv, T!ResultInv, T!Next \/ UNCHANGED toolVars
  PROVE  T!ResultInv'
<1> USE CallBounds DEF T!Goto, T!Stage, T!scopes, T!tools, T!events, T!bounds, T!TypeOK,
    T!ResultInv, T!Runs, T!Background, T!Terminal
<1>1. CASE UNCHANGED toolVars
  BY <1>1 DEF toolVars
<1>2. ASSUME T!BeginTurn, kind' = kind PROVE T!ResultInv'
  <2>1. /\ UNCHANGED <<kind, of, tool, toolResult, toolRun, toolPublisher>>
        /\ turn' \in Turns /\ stage[turn'] = "none"
    BY <1>2 DEF T!BeginTurn
  <2>2. \A d \in Calls : of[d] # turn'
    BY <2>1 DEF T!CallInv
  <2> QED
    BY <2>1, <2>2
<1>3. ASSUME T!CancelSession, kind' = kind PROVE T!ResultInv'
  BY <1>3 DEF T!CancelSession
<1>4. ASSUME T!TurnCompletes, kind' = kind PROVE T!ResultInv'
  BY <1>4 DEF T!TurnCompletes
<1>5. ASSUME T!TurnFails, kind' = kind PROVE T!ResultInv'
  BY <1>5 DEF T!TurnFails
<1>6. ASSUME T!Unsubscribe, kind' = kind PROVE T!ResultInv'
  BY <1>6 DEF T!Unsubscribe
<1>7. ASSUME T!SettleList, kind' = kind PROVE T!ResultInv'
  BY <1>7 DEF T!SettleList
<1>8. ASSUME T!Settled, kind' = kind PROVE T!ResultInv'
  BY <1>8 DEF T!Settled
<1>9. ASSUME T!EndSession, kind' = kind PROVE T!ResultInv'
  BY <1>9 DEF T!EndSession
<1>10. ASSUME T!Receive, kind' = kind PROVE T!ResultInv'
  BY <1>10 DEF T!Receive
<1>11. ASSUME T!Crash, kind' = kind PROVE T!ResultInv'
  BY <1>11 DEF T!Crash
<1>12. ASSUME NEW c \in Calls, T!Settle(c), kind' = kind PROVE T!ResultInv'
  BY <1>12 DEF T!Settle
<1>13. ASSUME NEW c \in Calls, T!SettleWrite(c), kind' = kind PROVE T!ResultInv'
  BY <1>13 DEF T!SettleWrite
<1>14. ASSUME NEW c \in Calls, T!ToolStarted(c), kind' = kind PROVE T!ResultInv'
  BY <1>14 DEF T!ToolStarted
<1>15. ASSUME NEW c \in Calls, T!RunSubmitted(c), kind' = kind PROVE T!ResultInv'
  BY <1>15 DEF T!RunSubmitted
<1>16. ASSUME NEW c \in Calls, T!ToolReturns(c), kind' = kind PROVE T!ResultInv'
  BY <1>16 DEF T!ToolReturns, T!Returns
<1>17. ASSUME NEW c \in Calls, T!RunReturns(c), kind' = kind PROVE T!ResultInv'
  BY <1>17 DEF T!RunReturns, T!Returns
<1>18. ASSUME NEW c \in Calls, T!ToolCancelled(c), kind' = kind PROVE T!ResultInv'
  <2>1. /\ of[c] \in scopesCancelled /\ of[c] \in registered
    BY <1>18 DEF T!ToolCancelled, T!Returns, T!CallInv, T!InScope, T!TurnInv
  <2>2. /\ tool' = [tool EXCEPT ![c] = "finish"]
        /\ toolResult' = [toolResult EXCEPT ![c] = "interrupted"]
        /\ UNCHANGED <<kind, turn, of, scopesCancelled, toolRun, toolPublisher>>
    BY <1>18 DEF T!ToolCancelled, T!Returns
  <2> QED
    BY <2>1, <2>2
<1>19. ASSUME NEW c \in Calls, T!ToolFinishes(c), kind' = kind PROVE T!ResultInv'
  BY <1>19 DEF T!ToolFinishes
<1>20. ASSUME NEW c \in Calls, T!ToolWrites(c), kind' = kind PROVE T!ResultInv'
  BY <1>20 DEF T!ToolWrites
<1>21. ASSUME NEW c \in Calls, T!ToolReleases(c), kind' = kind PROVE T!ResultInv'
  BY <1>21 DEF T!ToolReleases
<1>22. ASSUME NEW c \in Calls, T!LoopPersists(c), kind' = kind PROVE T!ResultInv'
  BY <1>22 DEF T!LoopPersists
<1>23. ASSUME NEW c \in Calls, T!PublishRead(c), kind' = kind PROVE T!ResultInv'
  BY <1>23 DEF T!PublishRead
<1>24. ASSUME NEW c \in Calls, T!PublishWrite(c), kind' = kind PROVE T!ResultInv'
  BY <1>24 DEF T!PublishWrite
<1>25. ASSUME NEW c \in Calls, T!Send(c), kind' = kind PROVE T!ResultInv'
  BY <1>25 DEF T!Send
<1>26. ASSUME NEW c \in Calls, T!ToolScoped(c), kind' = kind PROVE T!ResultInv'
  BY <1>26 DEF T!ToolScoped
<1>27. ASSUME NEW c \in Calls, T!ToolWriteFails(c), kind' = kind PROVE T!ResultInv'
  BY <1>27 DEF T!ToolWriteFails
<1>28. ASSUME NEW c \in Calls, T!Approve(c), kind' = kind PROVE T!ResultInv'
  BY <1>28 DEF T!Approve
<1>29. ASSUME NEW c \in Calls, T!RunEnds(c), kind' = kind PROVE T!ResultInv'
  BY <1>29 DEF T!RunEnds
<1> QED
    BY <1>1, <1>2, <1>3, <1>4, <1>5, <1>6, <1>7, <1>8, <1>9, <1>10, <1>11, <1>12, <1>13, <1>14,
     <1>15, <1>16, <1>17, <1>18, <1>19, <1>20, <1>21, <1>22, <1>23, <1>24, <1>25, <1>26, <1>27,
     <1>28, <1>29, Zenon DEF T!Next, T!Turn, T!Tool, T!Executor

\* A write that was decided stays decided: what it is of does not change under it.
LEMMA JournalKeeps ==
  ASSUME T!TypeOK, NEW p \in pending, T!Decided(p), UNCHANGED <<kind, turn, stage>>,
         p[1] = "settle" => p[2] \in listed',
         \A c \in Calls : journal[c] # "none" => journal'[c] # "none",
         \A c \in Calls : tool[c] \notin {"idle", "scoped", "called"} =>
            tool'[c] \notin {"idle", "scoped", "called"} /\ toolResult'[c] = toolResult[c],
         \A c \in Calls : toolRun[c] \in T!Terminal => toolRun'[c] = toolRun[c]
  PROVE  T!Decided(p)'
<1>1. p[2] \in Calls /\ p[3] \in T!Terminal
  BY DEF T!TypeOK
<1>2. T!Runs' = T!Runs /\ T!Background' = T!Background
  BY DEF T!Runs, T!Background
<1> QED
  BY <1>1, <1>2, Zenon DEF T!Decided

\* What a writer decided holds until it writes.
LEMMA JournalPending ==
  ASSUME T!TypeOK, T!TurnInv, T!CallInv, T!ListInv, T!ResultInv, T!PendingInv,
         T!Next \/ UNCHANGED toolVars
  PROVE  T!PendingInv'
<1> USE CallBounds DEF T!Goto, T!Stage, T!scopes, T!tools, T!events, T!bounds, T!TypeOK, T!Runs,
    T!Background
<1>1. CASE UNCHANGED toolVars
  BY <1>1 DEF toolVars, T!PendingInv, T!Decided
<1>2. ASSUME T!BeginTurn, kind' = kind PROVE T!PendingInv'
  BY <1>2 DEF T!BeginTurn, T!PendingInv, T!Decided
<1>3. ASSUME T!CancelSession, kind' = kind PROVE T!PendingInv'
  BY <1>3 DEF T!CancelSession, T!PendingInv, T!Decided
<1>4. ASSUME T!TurnCompletes, kind' = kind PROVE T!PendingInv'
  BY <1>4 DEF T!TurnCompletes, T!PendingInv, T!Decided
<1>5. ASSUME T!TurnFails, kind' = kind PROVE T!PendingInv'
  BY <1>5 DEF T!TurnFails, T!PendingInv, T!Decided
<1>6. ASSUME T!Unsubscribe, kind' = kind PROVE T!PendingInv'
  BY <1>6 DEF T!Unsubscribe, T!PendingInv, T!Decided
<1>7. ASSUME T!SettleList, kind' = kind PROVE T!PendingInv'
  BY <1>7 DEF T!SettleList, T!PendingInv, T!Decided
<1>8. ASSUME T!Settled, kind' = kind PROVE T!PendingInv'
  BY <1>8 DEF T!Settled, T!PendingInv, T!Decided
<1>9. ASSUME T!EndSession, kind' = kind PROVE T!PendingInv'
  BY <1>9 DEF T!EndSession, T!PendingInv, T!Decided
<1>10. ASSUME T!Receive, kind' = kind PROVE T!PendingInv'
  BY <1>10 DEF T!Receive, T!PendingInv, T!Decided
<1>11. ASSUME T!Crash, kind' = kind PROVE T!PendingInv'
  BY <1>11 DEF T!Crash, T!PendingInv, T!Decided
<1>12. ASSUME NEW c \in Calls, T!Settle(c), kind' = kind PROVE T!PendingInv'
  <2> DEFINE s == IF turn \in scopesCancelled THEN "interrupted" ELSE "unknown"
  <2>1. /\ T!FinishRead("settle", c, s) /\ s \in {"interrupted", "unknown"} /\ c \in listed
        /\ turn # 0 /\ stage[turn] = "settle" /\ \A p \in pending : p[1] # "settle"
        /\ (pending' # pending => listed' = listed)
        /\ UNCHANGED <<kind, turn, stage, journal, tool, toolResult, toolRun>>
    BY <1>12 DEF T!Settle, T!PendingInv, T!Decided
  <2>2. s = "unknown" /\ c \in T!Runs \ T!Background => toolRun[c] \in T!Terminal
    BY <2>1 DEF T!ListInv, T!CallInv, T!ResultInv, T!InScope
  <2>3. s \in T!Terminal
    BY DEF T!Terminal
  <2> HIDE DEF s
  <2>4. \A p \in pending' : p \in pending
           \/ (p[1] = "settle" /\ p[2] = c /\ p[3] = s /\ journal[c] # "none")
    BY <2>1, <2>3, JournalDecides
  <2>5. ASSUME NEW p \in pending', p \notin pending PROVE T!Decided(p)'
    <3>1. /\ p[1] = "settle" /\ p[2] = c /\ p[3] = s /\ journal[c] # "none" /\ listed' = listed
      BY <2>1, <2>4, <2>5
    <3> QED
      BY <2>1, <2>2, <3>1 DEF T!Decided
  <2> QED
    BY <2>1, <2>5, JournalKeeps DEF T!PendingInv
<1>13. ASSUME NEW c \in Calls, T!SettleWrite(c), kind' = kind PROVE T!PendingInv'
  <2>1. /\ UNCHANGED <<kind, turn, stage>>
        /\ \A p \in pending' : p \in pending /\ (p[1] = "settle" => p[2] \in listed')
        /\ \A d \in Calls : journal[d] # "none" => journal'[d] # "none"
        /\ \A d \in Calls : tool[d] \notin {"idle", "scoped", "called"} =>
              tool'[d] \notin {"idle", "scoped", "called"} /\ toolResult'[d] = toolResult[d]
        /\ \A d \in Calls : toolRun[d] \in T!Terminal => toolRun'[d] = toolRun[d]
    BY <1>13, JournalWrites DEF T!SettleWrite, T!PendingInv, T!Decided, T!Terminal
  <2> QED
    BY <2>1, JournalKeeps DEF T!PendingInv
<1>14. ASSUME NEW c \in Calls, T!ToolStarted(c), kind' = kind PROVE T!PendingInv'
  BY <1>14 DEF T!ToolStarted, T!PendingInv, T!Decided
<1>15. ASSUME NEW c \in Calls, T!RunSubmitted(c), kind' = kind PROVE T!PendingInv'
  <2>1. /\ UNCHANGED <<kind, turn, stage>>
        /\ \A p \in pending' : p \in pending /\ (p[1] = "settle" => p[2] \in listed')
        /\ \A d \in Calls : journal[d] # "none" => journal'[d] # "none"
        /\ \A d \in Calls : tool[d] \notin {"idle", "scoped", "called"} =>
              tool'[d] \notin {"idle", "scoped", "called"} /\ toolResult'[d] = toolResult[d]
        /\ \A d \in Calls : toolRun[d] \in T!Terminal => toolRun'[d] = toolRun[d]
    BY <1>15, JournalWrites DEF T!RunSubmitted, T!PendingInv, T!Decided, T!Terminal
  <2> QED
    BY <2>1, JournalKeeps DEF T!PendingInv
<1>16. ASSUME NEW c \in Calls, T!ToolReturns(c), kind' = kind PROVE T!PendingInv'
  BY <1>16 DEF T!ToolReturns, T!Returns, T!PendingInv, T!Decided
<1>17. ASSUME NEW c \in Calls, T!RunReturns(c), kind' = kind PROVE T!PendingInv'
  BY <1>17 DEF T!RunReturns, T!Returns, T!PendingInv, T!Decided
<1>18. ASSUME NEW c \in Calls, T!ToolCancelled(c), kind' = kind PROVE T!PendingInv'
  BY <1>18 DEF T!ToolCancelled, T!Returns, T!PendingInv, T!Decided
<1>19. ASSUME NEW c \in Calls, T!ToolFinishes(c), kind' = kind PROVE T!PendingInv'
  <2>1. toolResult[c] \in T!Terminal
    BY <1>19 DEF T!ToolFinishes, T!CallInv, T!ResultInv
  <2>2. /\ UNCHANGED <<kind, turn, stage>> /\ \A p \in pending : p[1] = "settle" => p[2] \in listed'
        /\ \A d \in Calls : journal[d] # "none" => journal'[d] # "none"
        /\ \A d \in Calls : tool[d] \notin {"idle", "scoped", "called"} =>
              tool'[d] \notin {"idle", "scoped", "called"} /\ toolResult'[d] = toolResult[d]
        /\ \A d \in Calls : toolRun[d] \in T!Terminal => toolRun'[d] = toolRun[d]
    BY <1>19 DEF T!ToolFinishes, T!PendingInv, T!Decided
  <2>3. \A p \in pending' : p \in pending
           \/ (p[1] = "tool" /\ p[2] = c /\ p[3] = toolResult[c] /\ journal[c] # "none")
    BY <1>19, <2>1, JournalDecides DEF T!ToolFinishes
  <2>4. ASSUME NEW p \in pending', p[1] = "tool", p[2] = c, p[3] = toolResult[c],
               journal[c] # "none"
        PROVE  T!Decided(p)'
    BY <1>19, <2>1, <2>4 DEF T!ToolFinishes, T!Decided
  <2> QED
    BY <2>2, <2>3, <2>4, JournalKeeps DEF T!PendingInv
<1>20. ASSUME NEW c \in Calls, T!ToolWrites(c), kind' = kind PROVE T!PendingInv'
  <2>1. /\ UNCHANGED <<kind, turn, stage>>
        /\ \A p \in pending' : p \in pending /\ (p[1] = "settle" => p[2] \in listed')
        /\ \A d \in Calls : journal[d] # "none" => journal'[d] # "none"
        /\ \A d \in Calls : tool[d] \notin {"idle", "scoped", "called"} =>
              tool'[d] \notin {"idle", "scoped", "called"} /\ toolResult'[d] = toolResult[d]
        /\ \A d \in Calls : toolRun[d] \in T!Terminal => toolRun'[d] = toolRun[d]
    BY <1>20, JournalWrites DEF T!ToolWrites, T!PendingInv, T!Decided, T!Terminal
  <2> QED
    BY <2>1, JournalKeeps DEF T!PendingInv
<1>21. ASSUME NEW c \in Calls, T!ToolReleases(c), kind' = kind PROVE T!PendingInv'
  BY <1>21 DEF T!ToolReleases, T!PendingInv, T!Decided
<1>22. ASSUME NEW c \in Calls, T!LoopPersists(c), kind' = kind PROVE T!PendingInv'
  <2>1. /\ tool[c] = "loop" /\ c \in Calls
        /\ \A d \in Calls : tool'[d] = tool[d] \/ (d = c /\ tool'[d] = "done")
        /\ UNCHANGED <<kind, turn, toolResult, listed, toolRun>>
        /\ turn # 0 /\ stage[turn] = "run"
    BY <1>22 DEF T!LoopPersists, T!PendingInv, T!Decided
  <2>2. \A p \in pending : p[1] # "settle"
    BY <2>1 DEF T!PendingInv, T!Decided
  <2>3. toolResult[c] \in T!Terminal
    BY <2>1 DEF T!CallInv
  <2>4. CASE T!FinishRead("loop", c, toolResult[c]) /\ UNCHANGED <<stage, journal>>
    <3>1. \A p \in pending' : p \in pending
             \/ (p[1] = "loop" /\ p[2] = c /\ p[3] = toolResult[c] /\ journal[c] # "none")
      BY <2>3, <2>4, JournalDecides
    <3>2. ASSUME NEW p \in pending', p[1] = "loop", p[2] = c, p[3] = toolResult[c],
                 journal[c] # "none"
          PROVE  T!Decided(p)'
      BY <2>1, <2>4, <3>2 DEF T!Decided
    <3> QED
      BY <2>1, <2>2, <2>4, <3>1, <3>2, JournalKeeps DEF T!PendingInv
  <2>5. CASE T!FinishWrite("loop", c) /\ UNCHANGED stage
    <3>1. /\ \A p \in pending' : p \in pending
          /\ \A d \in Calls : journal[d] # "none" => journal'[d] # "none"
      BY <2>5, JournalWrites DEF T!Terminal
    <3> QED
      BY <2>1, <2>2, <2>5, <3>1, JournalKeeps DEF T!PendingInv
  <2>6. CASE /\ pending' = {p \in pending : p[1] # "loop"} /\ journal' = journal
             /\ stage' = [stage EXCEPT ![turn] = "list"]
    BY <2>1, <2>2, <2>6 DEF T!PendingInv, T!Decided
  <2> QED
    BY <1>22, <2>4, <2>5, <2>6 DEF T!LoopPersists
<1>23. ASSUME NEW c \in Calls, T!PublishRead(c), kind' = kind PROVE T!PendingInv'
  <2>1. toolRun[c] \in T!Terminal
    BY <1>23 DEF T!PublishRead, T!ResultInv
  <2>2. UNCHANGED <<kind, turn, stage, listed, journal, tool, toolResult, toolRun>>
    BY <1>23 DEF T!PublishRead, T!PendingInv, T!Decided
  <2>3. CASE pending' = pending
    BY <2>2, <2>3, JournalKeeps DEF T!PendingInv, T!Decided
  <2>4. CASE T!FinishRead("exec", c, toolRun[c]) /\ c \notin T!Background
    <3>1. \A p \in pending' : p \in pending
             \/ (p[1] = "exec" /\ p[2] = c /\ p[3] = toolRun[c] /\ journal[c] # "none")
      BY <2>1, <2>4, JournalDecides
    <3>2. ASSUME NEW p \in pending', p[1] = "exec", p[2] = c, p[3] = toolRun[c], journal[c] # "none"
          PROVE  T!Decided(p)'
      BY <2>2, <2>4, <3>2 DEF T!Decided
    <3> QED
      BY <2>2, <3>1, <3>2, JournalKeeps DEF T!PendingInv, T!Decided
  <2> QED
    BY <1>23, <2>3, <2>4 DEF T!PublishRead
<1>24. ASSUME NEW c \in Calls, T!PublishWrite(c), kind' = kind PROVE T!PendingInv'
  <2>1. /\ UNCHANGED <<kind, turn, stage>>
        /\ \A p \in pending' : p \in pending /\ (p[1] = "settle" => p[2] \in listed')
        /\ \A d \in Calls : journal[d] # "none" => journal'[d] # "none"
        /\ \A d \in Calls : tool[d] \notin {"idle", "scoped", "called"} =>
              tool'[d] \notin {"idle", "scoped", "called"} /\ toolResult'[d] = toolResult[d]
        /\ \A d \in Calls : toolRun[d] \in T!Terminal => toolRun'[d] = toolRun[d]
    BY <1>24, JournalWrites DEF T!PublishWrite, T!PendingInv, T!Decided, T!Terminal
  <2> QED
    BY <2>1, JournalKeeps DEF T!PendingInv
<1>25. ASSUME NEW c \in Calls, T!Send(c), kind' = kind PROVE T!PendingInv'
  BY <1>25 DEF T!Send, T!PendingInv, T!Decided
<1>26. ASSUME NEW c \in Calls, T!ToolScoped(c), kind' = kind PROVE T!PendingInv'
  BY <1>26 DEF T!ToolScoped, T!PendingInv, T!Decided
<1>27. ASSUME NEW c \in Calls, T!ToolWriteFails(c), kind' = kind PROVE T!PendingInv'
  BY <1>27 DEF T!ToolWriteFails, T!PendingInv, T!Decided
<1>28. ASSUME NEW c \in Calls, T!Approve(c), kind' = kind PROVE T!PendingInv'
  <2>1. /\ UNCHANGED <<kind, turn, stage>>
        /\ \A p \in pending' : p \in pending /\ (p[1] = "settle" => p[2] \in listed')
        /\ \A d \in Calls : journal[d] # "none" => journal'[d] # "none"
        /\ \A d \in Calls : tool[d] \notin {"idle", "scoped", "called"} =>
              tool'[d] \notin {"idle", "scoped", "called"} /\ toolResult'[d] = toolResult[d]
        /\ \A d \in Calls : toolRun[d] \in T!Terminal => toolRun'[d] = toolRun[d]
    BY <1>28, JournalWrites DEF T!Approve, T!PendingInv, T!Decided, T!Terminal
  <2> QED
    BY <2>1, JournalKeeps DEF T!PendingInv
<1>29. ASSUME NEW c \in Calls, T!RunEnds(c), kind' = kind PROVE T!PendingInv'
  <2>1. /\ UNCHANGED <<kind, turn, stage>>
        /\ \A p \in pending' : p \in pending /\ (p[1] = "settle" => p[2] \in listed')
        /\ \A d \in Calls : journal[d] # "none" => journal'[d] # "none"
        /\ \A d \in Calls : tool[d] \notin {"idle", "scoped", "called"} =>
              tool'[d] \notin {"idle", "scoped", "called"} /\ toolResult'[d] = toolResult[d]
        /\ \A d \in Calls : toolRun[d] \in T!Terminal => toolRun'[d] = toolRun[d]
    BY <1>29, JournalWrites DEF T!RunEnds, T!PendingInv, T!Decided, T!Terminal
  <2> QED
    BY <2>1, JournalKeeps DEF T!PendingInv
<1> QED
    BY <1>1, <1>2, <1>3, <1>4, <1>5, <1>6, <1>7, <1>8, <1>9, <1>10, <1>11, <1>12, <1>13, <1>14,
     <1>15, <1>16, <1>17, <1>18, <1>19, <1>20, <1>21, <1>22, <1>23, <1>24, <1>25, <1>26, <1>27,
     <1>28, <1>29, Zenon DEF T!Next, T!Turn, T!Tool, T!Executor

\* Whoever writes a row writes what its run or its call says.
LEMMA JournalRows ==
  ASSUME T!TypeOK, T!TurnInv, T!CallInv, T!ListInv, T!ResultInv, T!PendingInv, T!RowInv,
         T!Next \/ UNCHANGED toolVars
  PROVE  T!RowInv'
<1> USE CallBounds DEF T!Goto, T!Stage, T!scopes, T!tools, T!events, T!bounds, T!TypeOK, T!RowInv,
    T!Agrees, T!Runs, T!Background, T!Terminal
<1>1. CASE UNCHANGED toolVars
  BY <1>1 DEF toolVars
<1>2. ASSUME T!BeginTurn, kind' = kind PROVE T!RowInv'
  BY <1>2 DEF T!BeginTurn
<1>3. ASSUME T!CancelSession, kind' = kind PROVE T!RowInv'
  BY <1>3 DEF T!CancelSession
<1>4. ASSUME T!TurnCompletes, kind' = kind PROVE T!RowInv'
  BY <1>4 DEF T!TurnCompletes
<1>5. ASSUME T!TurnFails, kind' = kind PROVE T!RowInv'
  BY <1>5 DEF T!TurnFails
<1>6. ASSUME T!Unsubscribe, kind' = kind PROVE T!RowInv'
  BY <1>6 DEF T!Unsubscribe
<1>7. ASSUME T!SettleList, kind' = kind PROVE T!RowInv'
  BY <1>7 DEF T!SettleList
<1>8. ASSUME T!Settled, kind' = kind PROVE T!RowInv'
  BY <1>8 DEF T!Settled
<1>9. ASSUME T!EndSession, kind' = kind PROVE T!RowInv'
  BY <1>9 DEF T!EndSession
<1>10. ASSUME T!Receive, kind' = kind PROVE T!RowInv'
  BY <1>10 DEF T!Receive
<1>11. ASSUME T!Crash, kind' = kind PROVE T!RowInv'
  <2>1. /\ \A d \in Calls : /\ tool'[d] # "called"
                            /\ journal'[d] = IF journal[d] = "running" THEN T!Recovered(d)
                                 ELSE journal[d]
                            /\ toolRun'[d] = IF toolRun[d] = "running" THEN "abandoned"
                                 ELSE toolRun[d]
        /\ crashes' # 0 /\ kind' = kind
    BY <1>11 DEF T!Crash
  <2>2. ASSUME NEW d \in Calls PROVE T!Recovered(d) \in {"running", "unknown", toolRun[d]}
    BY DEF T!Recovered
  <2>3. ASSUME NEW d \in Calls, T!Recovered(d) = "unknown" PROVE toolRun[d] # "approval_required"
    BY <2>3 DEF T!Recovered
  <2>4. ASSUME NEW d \in Calls, d \in T!Runs \ T!Background
        PROVE  /\ journal'[d] \in {"none", "running", "interrupted", "unknown", toolRun'[d]}
               /\ journal'[d] = "unknown" => toolRun'[d] # "approval_required"
    BY <2>1, <2>2, <2>3, <2>4
  <2> QED
    BY <2>1, <2>4
<1>12. ASSUME NEW c \in Calls, T!Settle(c), kind' = kind PROVE T!RowInv'
  BY <1>12 DEF T!Settle
<1>13. ASSUME NEW c \in Calls, T!SettleWrite(c), kind' = kind PROVE T!RowInv'
  <2>1. /\ T!FinishWrite("settle", c) /\ UNCHANGED <<kind, toolResult, toolRun, crashes>>
        /\ \A d \in Calls : tool'[d] = tool[d]
    BY <1>13 DEF T!SettleWrite
  <2>2. ASSUME NEW d \in Calls, journal'[d] = journal[d] PROVE T!Agrees(d)'
    BY <2>1, <2>2
  <2>3. ASSUME NEW p \in pending, p[1] = "settle", p[2] = c, journal'[c] = p[3] PROVE T!Agrees(c)'
    <3>1. /\ journal'[c] \in {"interrupted", "unknown"} /\ tool[c] # "called"
          /\ journal'[c] = "unknown" /\ c \in T!Runs \ T!Background => toolRun[c] \in T!Terminal
      BY <2>3 DEF T!PendingInv, T!Decided, T!ListInv, T!InScope
    <3> QED
      BY <2>1, <2>3, <3>1
  <2> QED
    BY <2>1, <2>2, <2>3, JournalWrites
<1>14. ASSUME NEW c \in Calls, T!ToolStarted(c), kind' = kind PROVE T!RowInv'
  <2>1. /\ tool[c] = "scoped" /\ journal[c] = "none" /\ tool' = [tool EXCEPT ![c] = "called"]
        /\ journal' = [journal EXCEPT ![c] = "running"] /\ UNCHANGED <<kind, toolResult, toolRun,
           crashes>>
    BY <1>14 DEF T!ToolStarted, T!CallInv
  <2> QED
    BY <2>1
<1>15. ASSUME NEW c \in Calls, T!RunSubmitted(c), kind' = kind PROVE T!RowInv'
  BY <1>15 DEF T!RunSubmitted
<1>16. ASSUME NEW c \in Calls, T!ToolReturns(c), kind' = kind PROVE T!RowInv'
  BY <1>16 DEF T!ToolReturns, T!Returns
<1>17. ASSUME NEW c \in Calls, T!RunReturns(c), kind' = kind PROVE T!RowInv'
  BY <1>17 DEF T!RunReturns, T!Returns
<1>18. ASSUME NEW c \in Calls, T!ToolCancelled(c), kind' = kind PROVE T!RowInv'
  BY <1>18 DEF T!ToolCancelled, T!Returns
<1>19. ASSUME NEW c \in Calls, T!ToolFinishes(c), kind' = kind PROVE T!RowInv'
  BY <1>19 DEF T!ToolFinishes
<1>20. ASSUME NEW c \in Calls, T!ToolWrites(c), kind' = kind PROVE T!RowInv'
  <2>1. /\ T!FinishWrite("tool", c) /\ UNCHANGED <<kind, toolResult, toolRun, crashes>>
        /\ \A d \in Calls : tool'[d] = tool[d] \/ (d = c /\ tool'[d] = "release")
    BY <1>20 DEF T!ToolWrites
  <2>2. ASSUME NEW d \in Calls, journal'[d] = journal[d] PROVE T!Agrees(d)'
    BY <2>1, <2>2
  <2>3. ASSUME NEW p \in pending, p[1] = "tool", p[2] = c, journal'[c] = p[3] PROVE T!Agrees(c)'
    <3>1. journal'[c] = toolResult[c] /\ tool'[c] \in {"write", "release"}
      BY <1>20, <2>3 DEF T!PendingInv, T!Decided, T!ToolWrites
    <3> QED
      BY <2>1, <2>3, <3>1 DEF T!ResultInv
  <2> QED
    BY <2>1, <2>2, <2>3, JournalWrites
<1>21. ASSUME NEW c \in Calls, T!ToolReleases(c), kind' = kind PROVE T!RowInv'
  BY <1>21 DEF T!ToolReleases
<1>22. ASSUME NEW c \in Calls, T!LoopPersists(c), kind' = kind PROVE T!RowInv'
  <2>1. /\ tool[c] = "loop" /\ UNCHANGED <<kind, toolResult, toolRun, crashes>>
        /\ \A d \in Calls : tool'[d] = tool[d] \/ (d = c /\ tool'[d] = "done")
    BY <1>22 DEF T!LoopPersists
  <2>2. ASSUME NEW d \in Calls, journal'[d] = journal[d] PROVE T!Agrees(d)'
    BY <2>1, <2>2
  <2>3. ASSUME NEW p \in pending, p[1] = "loop", p[2] = c, journal'[c] = p[3] PROVE T!Agrees(c)'
    <3>1. journal'[c] = toolResult[c] /\ tool'[c] \in {"loop", "done"}
      BY <2>1, <2>3 DEF T!PendingInv, T!Decided
    <3> QED
      BY <2>1, <2>3, <3>1 DEF T!ResultInv
  <2>4. journal' = journal \/ T!FinishWrite("loop", c)
    BY <1>22 DEF T!LoopPersists
  <2> QED
    BY <2>2, <2>3, <2>4, JournalWrites
<1>23. ASSUME NEW c \in Calls, T!PublishRead(c), kind' = kind PROVE T!RowInv'
  BY <1>23 DEF T!PublishRead
<1>24. ASSUME NEW c \in Calls, T!PublishWrite(c), kind' = kind PROVE T!RowInv'
  <2>1. /\ T!FinishWrite("exec", c) /\ UNCHANGED <<kind, toolResult, toolRun, crashes>>
        /\ \A d \in Calls : tool'[d] = tool[d]
    BY <1>24 DEF T!PublishWrite
  <2>2. ASSUME NEW d \in Calls, journal'[d] = journal[d] PROVE T!Agrees(d)'
    BY <2>1, <2>2
  <2>3. ASSUME NEW p \in pending, p[1] = "exec", p[2] = c, journal'[c] = p[3] PROVE T!Agrees(c)'
    <3>1. /\ journal'[c] = toolRun[c] /\ c \notin T!Background /\ journal'[c] \in T!Terminal
      BY <2>3 DEF T!PendingInv, T!Decided
    <3> QED
      BY <2>1, <2>3, <3>1
  <2> QED
    BY <2>1, <2>2, <2>3, JournalWrites
<1>25. ASSUME NEW c \in Calls, T!Send(c), kind' = kind PROVE T!RowInv'
  BY <1>25 DEF T!Send
<1>26. ASSUME NEW c \in Calls, T!ToolScoped(c), kind' = kind PROVE T!RowInv'
  BY <1>26 DEF T!ToolScoped
<1>27. ASSUME NEW c \in Calls, T!ToolWriteFails(c), kind' = kind PROVE T!RowInv'
  BY <1>27 DEF T!ToolWriteFails
<1>28. ASSUME NEW c \in Calls, T!Approve(c), kind' = kind PROVE T!RowInv'
  BY <1>28 DEF T!Approve
<1>29. ASSUME NEW c \in Calls, T!RunEnds(c), kind' = kind PROVE T!RowInv'
  BY <1>29 DEF T!RunEnds
<1> QED
    BY <1>1, <1>2, <1>3, <1>4, <1>5, <1>6, <1>7, <1>8, <1>9, <1>10, <1>11, <1>12, <1>13, <1>14,
     <1>15, <1>16, <1>17, <1>18, <1>19, <1>20, <1>21, <1>22, <1>23, <1>24, <1>25, <1>26, <1>27,
     <1>28, <1>29, Zenon DEF T!Next, T!Turn, T!Tool, T!Executor

\* The invariant holds when a conversation starts.
LEMMA JournalStarts == T!Init => T!IInv
<1> SUFFICES ASSUME T!Init PROVE T!IInv
  OBVIOUS
<1> USE CallBounds, StreamBounds DEF T!Init
<1>1. T!TypeOK
  <2>1. subscribed \in BOOLEAN /\ kind \in Kinds
    BY Zenon
  <2>2. turn = 0 /\ console \in 0 .. Buffer /\ crashes \in 0 .. MaxFaults
          /\ failures \in 0 .. MaxFaults
    OBVIOUS
  <2>3. /\ stage \in [Turns -> {"none", "run", "list", "ids", "settle", "end", "over"}]
        /\ tool \in [Calls -> {"idle", "scoped", "called", "finish", "write", "release", "loop", "done"}]
        /\ of \in [Calls -> Turns \cup {0}] /\ toolResult \in [Calls -> T!Terminal \cup {"none"}]
    OBVIOUS
  <2>4. /\ journal \in [Calls -> T!Terminal \cup {"none", "running"}]
        /\ toolRun \in [Calls -> T!Terminal \cup {"none", "approval_required", "running", "abandoned"}]
        /\ toolPublisher \in [Calls -> {"none", "read", "write", "send"}]
    OBVIOUS
  <2>5. registered = {} /\ modelEnd = {} /\ scopesCancelled = {} /\ scopesClosed = {}
        /\ listed = {} /\ pending = {}
    OBVIOUS
  <2> HIDE DEF T!Init
  <2> QED
    BY <2>1, <2>2, <2>3, <2>4, <2>5 DEF T!TypeOK
<1>2. T!TurnInv /\ T!CallInv /\ T!ListInv /\ T!PendingInv
  BY DEF T!TurnInv, T!CallInv, T!ListInv, T!PendingInv, T!InScope
<1>3. T!ResultInv /\ T!RowInv
  BY DEF T!ResultInv, T!RowInv, T!Agrees, T!Runs, T!Background
<1> QED
  BY <1>1, <1>2, <1>3 DEF T!IInv

\* Every step of the turn, its tools and the executors keeps it.
LEMMA JournalStep == ASSUME T!IInv, T!Next \/ UNCHANGED toolVars PROVE T!IInv'
<1> USE DEF T!IInv
<1>1. T!TypeOK' /\ T!TurnInv'
  BY JournalTyping, JournalTurns
<1>2. T!CallInv' /\ T!ListInv' /\ T!ResultInv'
  BY JournalCalls, JournalLists, JournalResults
<1>3. T!PendingInv' /\ T!RowInv'
  BY JournalPending, JournalRows
<1> QED
  BY <1>1, <1>2, <1>3

\* What the components state of the journal follows.
LEMMA JournalAgrees ==
  ASSUME T!IInv
  PROVE  /\ T!TypeOK /\ T!SettlementSparesRunningCalls /\ T!JournalAgreesWithRun
         /\ T!BackgroundRowIsOfTheCall /\ T!ScopeLivesWithTools
<1> USE DEF T!IInv
<1>1. T!SettlementSparesRunningCalls
  BY DEF T!SettlementSparesRunningCalls, T!PendingInv, T!Decided, T!ListInv
<1>2. T!JournalAgreesWithRun
  BY DEF T!JournalAgreesWithRun, T!RowInv, T!Agrees, T!Runs, T!Background
<1>3. T!BackgroundRowIsOfTheCall
  BY DEF T!BackgroundRowIsOfTheCall, T!RowInv, T!Agrees, T!Background
<1>4. T!ScopeLivesWithTools
  BY DEF T!ScopeLivesWithTools, T!TurnInv, T!CallInv
<1> QED
  BY <1>1, <1>2, <1>3, <1>4

\* In every state the rows of tool calls, the runs behind them, the writes that were
\* decided and the scopes of their turns fit together (chat_tool_calls.go, runtime.go).
THEOREM ToolCallInvariance == Spec => []T!IInv
<1>1. Init => T!IInv
  BY JournalStarts DEF Init
<1>2. ASSUME T!IInv, [Next]_vars PROVE T!IInv'
  <2>1. CASE MoveTools
    BY <1>2, <2>1, JournalStep DEF MoveTools
  <2>2. CASE ~MoveTools
    <3>1. UNCHANGED toolVars
      BY <1>2, <2>2, Zenon DEF Next, MoveClients, MoveExplanations, MoveSearches,
         MoveChat, MoveActivity, MoveTurn, vars
    <3> QED
      BY <1>2, <3>1, JournalStep
  <2> QED
    BY <2>1, <2>2
<1> QED
  BY <1>1, <1>2, PTL DEF Spec

\* A failing turn settles no call that still runs, no row contradicts the run behind
\* it, a background call's row is not its task's, and a scope lives as long as its
\* tools (chat_tool_calls.go, runtime.go, execution_events.go).
THEOREM CallsAreRecorded == Spec => []ToolCallsRecorded
<1>1. T!IInv => ToolCallsRecorded
  BY JournalAgrees DEF ToolCallsRecorded
<1> QED
  BY <1>1, ToolCallInvariance, PTL

-----------------------------------------------------------------------------
(* Explanations of approvals *)

\* Finiteness and cardinality as the component has them.
LEMMA ExplanationCount ==
  ASSUME NEW S PROVE X!Cardinality(S) = Cardinality(S) /\ (X!IsFiniteSet(S) <=> IsFiniteSet(S))
  BY DEF X!Cardinality, Cardinality, X!IsFiniteSet, IsFiniteSet

\* A slot that is taken while there is one leaves no more of them than there are.
LEMMA ExplanationTakes ==
  ASSUME NEW S, NEW x, NEW n \in Nat, X!IsFiniteSet(S), X!Cardinality(S) < n
  PROVE  X!IsFiniteSet(S \cup {x}) /\ X!Cardinality(S \cup {x}) <= n
<1>1. IsFiniteSet(S) /\ Cardinality(S) < n
  BY ExplanationCount
<1>2. Cardinality(S) \in Nat
  BY <1>1, FS_CardinalityType
<1>3. IsFiniteSet(S \cup {x}) /\ Cardinality(S \cup {x}) <= Cardinality(S) + 1
        /\ Cardinality(S \cup {x}) \in Nat
  <2>1. IsFiniteSet(S \cup {x})
    BY <1>1, FS_AddElement
  <2>2. Cardinality(S \cup {x}) \in {Cardinality(S), Cardinality(S) + 1}
    BY <1>1, FS_AddElement
  <2> QED
    BY <1>2, <2>1, <2>2
<1>4. Cardinality(S \cup {x}) <= n
  BY <1>1, <1>2, <1>3
<1> QED
  BY <1>3, <1>4, ExplanationCount

\* A slot that is given back leaves no more of them than before.
LEMMA ExplanationGives ==
  ASSUME NEW S, NEW x, NEW n \in Nat, X!IsFiniteSet(S), X!Cardinality(S) <= n
  PROVE  X!IsFiniteSet(S \ {x}) /\ X!Cardinality(S \ {x}) <= n
<1>1. IsFiniteSet(S) /\ Cardinality(S) <= n
  BY ExplanationCount
<1>2. Cardinality(S) \in Nat
  BY <1>1, FS_CardinalityType
<1>3. IsFiniteSet(S \ {x}) /\ Cardinality(S \ {x}) <= Cardinality(S) /\ Cardinality(S \ {x}) \in Nat
  <2>1. S \ {x} \subseteq S
    OBVIOUS
  <2> QED
    BY <1>1, <2>1, FS_Subset, FS_CardinalityType
<1>4. Cardinality(S \ {x}) <= n
  BY <1>1, <1>2, <1>3
<1> QED
  BY <1>3, <1>4, ExplanationCount

\* Every step leaves the variables well typed.
LEMMA ExplanationTyping ==
  ASSUME X!TypeOK, X!Next \/ UNCHANGED explanationVars
  PROVE  X!TypeOK'
<1> USE DEF X!TypeOK, X!tasks, X!Goto, X!Register, X!Clear, X!WritePending, X!Reviews, X!None,
    X!Registered, X!Working, X!Of, X!Tasks, X!NoTask, X!Route, X!NoReview, X!Skipped
<1>1. CASE UNCHANGED explanationVars
  BY <1>1 DEF explanationVars
<1>2. ASSUME NEW a \in Approvals, X!SubmitExplained(a) PROVE X!TypeOK'
  BY <1>2 DEF X!SubmitExplained
<1>3. ASSUME NEW a \in Approvals, X!SubmitAuto(a) PROVE X!TypeOK'
  BY <1>3 DEF X!SubmitAuto
<1>4. ASSUME NEW a \in Approvals, X!AutoReviewed(a) PROVE X!TypeOK'
  BY <1>4 DEF X!AutoReviewed
<1>5. ASSUME NEW a \in Approvals, X!StartExplanation(a) PROVE X!TypeOK'
  <2>1. <<a, 0>> \in X!Tasks
    BY ExplanationBounds
  <2>2. active' \in [Approvals -> X!Tasks \cup {X!NoTask}] /\ explanationSlots' \subseteq X!Tasks
        /\ tasksCancelled' \subseteq X!Tasks
    BY <1>5, <2>1 DEF X!StartExplanation
  <2>3. task' \in [X!Tasks -> {"idle", "register", "end", "ended"} \cup X!Registered]
          /\ sem' \subseteq X!Tasks
    BY <1>5, <2>1 DEF X!StartExplanation
  <2>4. review' \in [Approvals -> X!Reviews]
    BY <1>5 DEF X!StartExplanation
  <2>5. submit' \in [Approvals -> {"new", "asking", "starting", "done"}]
    BY <1>5 DEF X!StartExplanation
  <2>6. UNCHANGED <<approval, decider, autoSem>>
    BY <1>5 DEF X!StartExplanation
  <2> QED
    BY <2>2, <2>3, <2>4, <2>5, <2>6
<1>6. ASSUME NEW a \in Approvals, X!Decide(a) PROVE X!TypeOK'
  BY <1>6 DEF X!Decide
<1>7. ASSUME NEW a \in Approvals, X!CancelExplanation(a) PROVE X!TypeOK'
  BY <1>7 DEF X!CancelExplanation
<1>8. ASSUME NEW a \in Approvals, X!EraseReview(a) PROVE X!TypeOK'
  BY <1>8 DEF X!EraseReview
<1>9. ASSUME NEW t \in X!Tasks, X!RetryBegins(t) PROVE X!TypeOK'
  BY <1>9 DEF X!RetryBegins
<1>10. ASSUME NEW t \in X!Tasks, X!TakeReviewer(t) PROVE X!TypeOK'
  BY <1>10 DEF X!TakeReviewer
<1>11. ASSUME NEW t \in X!Tasks, X!Disconnect(t) PROVE X!TypeOK'
  BY <1>11 DEF X!Disconnect
<1>12. ASSUME NEW t \in X!Tasks, X!RetryRegisters(t) PROVE X!TypeOK'
  BY <1>12 DEF X!RetryRegisters
<1>13. ASSUME NEW t \in X!Tasks, X!RetryRechecks(t) PROVE X!TypeOK'
  BY <1>13 DEF X!RetryRechecks
<1>14. ASSUME NEW t \in X!Tasks, X!RetryErases(t) PROVE X!TypeOK'
  <2>1. task[t] = "erase" /\ \E to \in {"waiting", "end"} : task' = [task EXCEPT ![t] = to]
    BY <1>14 DEF X!RetryErases
  <2>2. review' \in [Approvals -> X!Reviews]
    BY <1>14 DEF X!RetryErases
  <2>3. UNCHANGED <<approval, submit, decider, active, explanationSlots, sem, autoSem,
     tasksCancelled>>
    BY <1>14 DEF X!RetryErases
  <2> QED
    BY <2>1, <2>2, <2>3
<1>15. ASSUME NEW t \in X!Tasks, X!StopWaiting(t) PROVE X!TypeOK'
  BY <1>15 DEF X!StopWaiting
<1>16. ASSUME NEW t \in X!Tasks, X!Reviewed(t) PROVE X!TypeOK'
  BY <1>16 DEF X!Reviewed
<1>17. ASSUME NEW t \in X!Tasks, X!Persist(t) PROVE X!TypeOK'
  BY <1>17 DEF X!Persist
<1>18. ASSUME NEW t \in X!Tasks, X!EndTask(t) PROVE X!TypeOK'
  BY <1>18 DEF X!EndTask
<1> QED
  BY <1>1, <1>2, <1>3, <1>4, <1>5, <1>6, <1>7, <1>8, <1>9, <1>10, <1>11, <1>12, <1>13, <1>14,
     <1>15, <1>16, <1>17, <1>18, Zenon DEF X!Next, X!SubmitGoesOn, X!DecideGoesOn, X!TaskGoesOn

\* The slots and the reviewers' places are held by the explanations that are under way:
\* whoever ends or is turned down has given them back.
LEMMA ExplanationHolders ==
  ASSUME X!TypeOK, X!HoldersInv, X!Next \/ UNCHANGED explanationVars
  PROVE  X!HoldersInv'
<1> USE DEF X!TypeOK, X!tasks, X!Goto, X!Register, X!Clear, X!WritePending, X!Registered,
    X!Working, X!Of, X!NoTask, X!First, X!HoldersInv, X!Tasks
<1>1. CASE UNCHANGED explanationVars
  BY <1>1 DEF explanationVars
<1>2. ASSUME NEW a \in Approvals, X!SubmitExplained(a) PROVE X!HoldersInv'
  BY <1>2 DEF X!SubmitExplained
<1>3. ASSUME NEW a \in Approvals, X!SubmitAuto(a) PROVE X!HoldersInv'
  BY <1>3 DEF X!SubmitAuto
<1>4. ASSUME NEW a \in Approvals, X!AutoReviewed(a) PROVE X!HoldersInv'
  BY <1>4 DEF X!AutoReviewed
<1>5. ASSUME NEW a \in Approvals, X!StartExplanation(a) PROVE X!HoldersInv'
  <2>1. CASE explanationSlots' = explanationSlots \cup {<<a, 0>>} /\ task[<<a, 0>>] = "idle"
          /\ task' = [task EXCEPT ![<<a, 0>>] = "waiting"]
             /\ sem' = sem
    <3> DEFINE f == <<a, 0>>
    <3>1. f \in X!Tasks /\ f[2] = 0
      BY ExplanationBounds
    <3>2. explanationSlots' = explanationSlots \cup {f} /\ task[f] = "idle" /\ sem' = sem
          /\ task' = [task EXCEPT ![f] = "waiting"]
      BY <2>1
    <3> HIDE DEF f
    <3> QED
      BY <3>1, <3>2
  <2>2. CASE UNCHANGED <<explanationSlots, task, sem>>
    BY <2>2
  <2> QED
    BY <1>5, <2>1, <2>2 DEF X!StartExplanation
<1>6. ASSUME NEW a \in Approvals, X!Decide(a) PROVE X!HoldersInv'
  BY <1>6 DEF X!Decide
<1>7. ASSUME NEW a \in Approvals, X!CancelExplanation(a) PROVE X!HoldersInv'
  BY <1>7 DEF X!CancelExplanation
<1>8. ASSUME NEW a \in Approvals, X!EraseReview(a) PROVE X!HoldersInv'
  BY <1>8 DEF X!EraseReview
<1>9. ASSUME NEW t \in X!Tasks, X!RetryBegins(t) PROVE X!HoldersInv'
  BY <1>9 DEF X!RetryBegins
<1>10. ASSUME NEW t \in X!Tasks, X!TakeReviewer(t) PROVE X!HoldersInv'
  BY <1>10 DEF X!TakeReviewer
<1>11. ASSUME NEW t \in X!Tasks, X!Disconnect(t) PROVE X!HoldersInv'
  BY <1>11 DEF X!Disconnect
<1>12. ASSUME NEW t \in X!Tasks, X!RetryRegisters(t) PROVE X!HoldersInv'
  BY <1>12 DEF X!RetryRegisters
<1>13. ASSUME NEW t \in X!Tasks, X!RetryRechecks(t) PROVE X!HoldersInv'
  BY <1>13 DEF X!RetryRechecks
<1>14. ASSUME NEW t \in X!Tasks, X!RetryErases(t) PROVE X!HoldersInv'
  <2>1. task[t] = "erase" /\ \E to \in {"waiting", "end"} : task' = [task EXCEPT ![t] = to]
    BY <1>14 DEF X!RetryErases
  <2>2. UNCHANGED <<explanationSlots, sem>>
    BY <1>14 DEF X!RetryErases
  <2> QED
    BY <2>1, <2>2
<1>15. ASSUME NEW t \in X!Tasks, X!StopWaiting(t) PROVE X!HoldersInv'
  BY <1>15 DEF X!StopWaiting
<1>16. ASSUME NEW t \in X!Tasks, X!Reviewed(t) PROVE X!HoldersInv'
  BY <1>16 DEF X!Reviewed
<1>17. ASSUME NEW t \in X!Tasks, X!Persist(t) PROVE X!HoldersInv'
  BY <1>17 DEF X!Persist
<1>18. ASSUME NEW t \in X!Tasks, X!EndTask(t) PROVE X!HoldersInv'
  BY <1>18 DEF X!EndTask
<1> QED
  BY <1>1, <1>2, <1>3, <1>4, <1>5, <1>6, <1>7, <1>8, <1>9, <1>10, <1>11, <1>12, <1>13, <1>14,
     <1>15, <1>16, <1>17, <1>18, Zenon DEF X!Next, X!SubmitGoesOn, X!DecideGoesOn, X!TaskGoesOn

\* No step takes a slot or a reviewer's place beyond the limit.
LEMMA ExplanationCounts ==
  ASSUME X!CountsInv, X!Next \/ UNCHANGED explanationVars
  PROVE  X!CountsInv'
<1> USE ExplanationBounds DEF X!CountsInv, X!tasks
<1>1. CASE UNCHANGED explanationVars
  BY <1>1 DEF explanationVars
<1>2. ASSUME NEW a \in Approvals, X!SubmitExplained(a) PROVE X!CountsInv'
  BY <1>2 DEF X!SubmitExplained
<1>3. ASSUME NEW a \in Approvals, X!SubmitAuto(a) PROVE X!CountsInv'
  <2>1. X!Cardinality(autoSem) < Sems => X!IsFiniteSet(autoSem \cup {a})
          /\ X!Cardinality(autoSem \cup {a}) <= Sems
    BY ExplanationTakes
  <2> QED
    BY <1>3, <2>1 DEF X!SubmitAuto
<1>4. ASSUME NEW a \in Approvals, X!AutoReviewed(a) PROVE X!CountsInv'
  <2>1. X!IsFiniteSet(autoSem \ {a}) /\ X!Cardinality(autoSem \ {a}) <= Sems
    BY ExplanationGives
  <2> QED
    BY <1>4, <2>1 DEF X!AutoReviewed
<1>5. ASSUME NEW a \in Approvals, X!StartExplanation(a) PROVE X!CountsInv'
  <2>1. X!Cardinality(explanationSlots) < Slots
          => X!IsFiniteSet(explanationSlots \cup {<<a, 0>>})
            /\ X!Cardinality(explanationSlots \cup {<<a, 0>>}) <= Slots
    BY ExplanationTakes
  <2> QED
    BY <1>5, <2>1 DEF X!StartExplanation
<1>6. ASSUME NEW a \in Approvals, X!Decide(a) PROVE X!CountsInv'
  BY <1>6 DEF X!Decide
<1>7. ASSUME NEW a \in Approvals, X!CancelExplanation(a) PROVE X!CountsInv'
  BY <1>7 DEF X!CancelExplanation
<1>8. ASSUME NEW a \in Approvals, X!EraseReview(a) PROVE X!CountsInv'
  BY <1>8 DEF X!EraseReview
<1>9. ASSUME NEW t \in X!Tasks, X!RetryBegins(t) PROVE X!CountsInv'
  BY <1>9 DEF X!RetryBegins
<1>10. ASSUME NEW t \in X!Tasks, X!TakeReviewer(t) PROVE X!CountsInv'
  <2>1. X!Cardinality(sem) < Sems => X!IsFiniteSet(sem \cup {t})
          /\ X!Cardinality(sem \cup {t}) <= Sems
    BY ExplanationTakes
  <2> QED
    BY <1>10, <2>1 DEF X!TakeReviewer
<1>11. ASSUME NEW t \in X!Tasks, X!Disconnect(t) PROVE X!CountsInv'
  BY <1>11 DEF X!Disconnect
<1>12. ASSUME NEW t \in X!Tasks, X!RetryRegisters(t) PROVE X!CountsInv'
  BY <1>12 DEF X!RetryRegisters
<1>13. ASSUME NEW t \in X!Tasks, X!RetryRechecks(t) PROVE X!CountsInv'
  BY <1>13 DEF X!RetryRechecks
<1>14. ASSUME NEW t \in X!Tasks, X!RetryErases(t) PROVE X!CountsInv'
  BY <1>14 DEF X!RetryErases
<1>15. ASSUME NEW t \in X!Tasks, X!StopWaiting(t) PROVE X!CountsInv'
  BY <1>15 DEF X!StopWaiting
<1>16. ASSUME NEW t \in X!Tasks, X!Reviewed(t) PROVE X!CountsInv'
  BY <1>16 DEF X!Reviewed
<1>17. ASSUME NEW t \in X!Tasks, X!Persist(t) PROVE X!CountsInv'
  BY <1>17 DEF X!Persist
<1>18. ASSUME NEW t \in X!Tasks, X!EndTask(t) PROVE X!CountsInv'
  <2>1. X!IsFiniteSet(explanationSlots \ {t}) /\ X!Cardinality(explanationSlots \ {t}) <= Slots
        /\ X!IsFiniteSet(sem \ {t}) /\ X!Cardinality(sem \ {t}) <= Sems
    BY ExplanationGives
  <2> QED
    BY <1>18, <2>1 DEF X!EndTask
<1> QED
  BY <1>1, <1>2, <1>3, <1>4, <1>5, <1>6, <1>7, <1>8, <1>9, <1>10, <1>11, <1>12, <1>13, <1>14,
     <1>15, <1>16, <1>17, <1>18, Zenon DEF X!Next, X!SubmitGoesOn, X!DecideGoesOn, X!TaskGoesOn

\* A task that works stays registered, so that a decision or a shutdown can cancel it:
\* what another task registers or clears does not hide it.
LEMMA ExplanationActive ==
  ASSUME X!TypeOK, X!WorkCanBeCancelled, X!Next \/ UNCHANGED explanationVars
  PROVE  X!WorkCanBeCancelled'
<1> USE DEF X!TypeOK, X!tasks, X!Goto, X!Register, X!Clear, X!WritePending, X!Registered,
    X!Working, X!Of, X!NoTask, X!First, X!WorkCanBeCancelled, X!Tasks
<1>1. CASE UNCHANGED explanationVars
  BY <1>1 DEF explanationVars
<1>2. ASSUME NEW a \in Approvals, X!SubmitExplained(a) PROVE X!WorkCanBeCancelled'
  BY <1>2 DEF X!SubmitExplained
<1>3. ASSUME NEW a \in Approvals, X!SubmitAuto(a) PROVE X!WorkCanBeCancelled'
  BY <1>3 DEF X!SubmitAuto
<1>4. ASSUME NEW a \in Approvals, X!AutoReviewed(a) PROVE X!WorkCanBeCancelled'
  BY <1>4 DEF X!AutoReviewed
<1>5. ASSUME NEW a \in Approvals, X!StartExplanation(a) PROVE X!WorkCanBeCancelled'
  <2>1. \/ UNCHANGED <<active, task, tasksCancelled>>
        \/ /\ active' = [active EXCEPT ![a] = <<a, 0>>]
                /\ task' = [task EXCEPT ![<<a, 0>>] = "waiting"]
           /\ tasksCancelled' = tasksCancelled \cup ({active[a]} \ {<<>>})
    BY <1>5 DEF X!StartExplanation
  <2> QED
    BY <2>1
<1>6. ASSUME NEW a \in Approvals, X!Decide(a) PROVE X!WorkCanBeCancelled'
  BY <1>6 DEF X!Decide
<1>7. ASSUME NEW a \in Approvals, X!CancelExplanation(a) PROVE X!WorkCanBeCancelled'
  BY <1>7 DEF X!CancelExplanation
<1>8. ASSUME NEW a \in Approvals, X!EraseReview(a) PROVE X!WorkCanBeCancelled'
  BY <1>8 DEF X!EraseReview
<1>9. ASSUME NEW t \in X!Tasks, X!RetryBegins(t) PROVE X!WorkCanBeCancelled'
  BY <1>9 DEF X!RetryBegins
<1>10. ASSUME NEW t \in X!Tasks, X!TakeReviewer(t) PROVE X!WorkCanBeCancelled'
  BY <1>10 DEF X!TakeReviewer
<1>11. ASSUME NEW t \in X!Tasks, X!Disconnect(t) PROVE X!WorkCanBeCancelled'
  BY <1>11 DEF X!Disconnect
<1>12. ASSUME NEW t \in X!Tasks, X!RetryRegisters(t) PROVE X!WorkCanBeCancelled'
  BY <1>12 DEF X!RetryRegisters
<1>13. ASSUME NEW t \in X!Tasks, X!RetryRechecks(t) PROVE X!WorkCanBeCancelled'
  BY <1>13 DEF X!RetryRechecks
<1>14. ASSUME NEW t \in X!Tasks, X!RetryErases(t) PROVE X!WorkCanBeCancelled'
  BY <1>14 DEF X!RetryErases
<1>15. ASSUME NEW t \in X!Tasks, X!StopWaiting(t) PROVE X!WorkCanBeCancelled'
  BY <1>15 DEF X!StopWaiting
<1>16. ASSUME NEW t \in X!Tasks, X!Reviewed(t) PROVE X!WorkCanBeCancelled'
  BY <1>16 DEF X!Reviewed
<1>17. ASSUME NEW t \in X!Tasks, X!Persist(t) PROVE X!WorkCanBeCancelled'
  BY <1>17 DEF X!Persist
<1>18. ASSUME NEW t \in X!Tasks, X!EndTask(t) PROVE X!WorkCanBeCancelled'
  BY <1>18 DEF X!EndTask
<1> QED
  BY <1>1, <1>2, <1>3, <1>4, <1>5, <1>6, <1>7, <1>8, <1>9, <1>10, <1>11, <1>12, <1>13, <1>14,
     <1>15, <1>16, <1>17, <1>18, Zenon DEF X!Next, X!SubmitGoesOn, X!DecideGoesOn, X!TaskGoesOn

\* What was decided stays decided, whatever a late reviewer or a retry does.
LEMMA ExplanationFinal ==
  ASSUME X!TypeOK, X!DecisionsAreFinal, X!Next \/ UNCHANGED explanationVars
  PROVE  X!DecisionsAreFinal'
<1> USE DEF X!TypeOK, X!tasks, X!Goto, X!Register, X!Clear, X!WritePending, X!Registered,
    X!Working, X!Of, X!NoTask, X!First, X!DecisionsAreFinal, X!Route, X!None
<1>1. CASE UNCHANGED explanationVars
  BY <1>1 DEF explanationVars
<1>2. ASSUME NEW a \in Approvals, X!SubmitExplained(a) PROVE X!DecisionsAreFinal'
  BY <1>2 DEF X!SubmitExplained
<1>3. ASSUME NEW a \in Approvals, X!SubmitAuto(a) PROVE X!DecisionsAreFinal'
  BY <1>3 DEF X!SubmitAuto
<1>4. ASSUME NEW a \in Approvals, X!AutoReviewed(a) PROVE X!DecisionsAreFinal'
  BY <1>4 DEF X!AutoReviewed
<1>5. ASSUME NEW a \in Approvals, X!StartExplanation(a) PROVE X!DecisionsAreFinal'
  BY <1>5 DEF X!StartExplanation
<1>6. ASSUME NEW a \in Approvals, X!Decide(a) PROVE X!DecisionsAreFinal'
  BY <1>6 DEF X!Decide
<1>7. ASSUME NEW a \in Approvals, X!CancelExplanation(a) PROVE X!DecisionsAreFinal'
  BY <1>7 DEF X!CancelExplanation
<1>8. ASSUME NEW a \in Approvals, X!EraseReview(a) PROVE X!DecisionsAreFinal'
  BY <1>8 DEF X!EraseReview
<1>9. ASSUME NEW t \in X!Tasks, X!RetryBegins(t) PROVE X!DecisionsAreFinal'
  BY <1>9 DEF X!RetryBegins
<1>10. ASSUME NEW t \in X!Tasks, X!TakeReviewer(t) PROVE X!DecisionsAreFinal'
  BY <1>10 DEF X!TakeReviewer
<1>11. ASSUME NEW t \in X!Tasks, X!Disconnect(t) PROVE X!DecisionsAreFinal'
  BY <1>11 DEF X!Disconnect
<1>12. ASSUME NEW t \in X!Tasks, X!RetryRegisters(t) PROVE X!DecisionsAreFinal'
  BY <1>12 DEF X!RetryRegisters
<1>13. ASSUME NEW t \in X!Tasks, X!RetryRechecks(t) PROVE X!DecisionsAreFinal'
  BY <1>13 DEF X!RetryRechecks
<1>14. ASSUME NEW t \in X!Tasks, X!RetryErases(t) PROVE X!DecisionsAreFinal'
  BY <1>14 DEF X!RetryErases
<1>15. ASSUME NEW t \in X!Tasks, X!StopWaiting(t) PROVE X!DecisionsAreFinal'
  BY <1>15 DEF X!StopWaiting
<1>16. ASSUME NEW t \in X!Tasks, X!Reviewed(t) PROVE X!DecisionsAreFinal'
  BY <1>16 DEF X!Reviewed
<1>17. ASSUME NEW t \in X!Tasks, X!Persist(t) PROVE X!DecisionsAreFinal'
  BY <1>17 DEF X!Persist
<1>18. ASSUME NEW t \in X!Tasks, X!EndTask(t) PROVE X!DecisionsAreFinal'
  BY <1>18 DEF X!EndTask
<1> QED
  BY <1>1, <1>2, <1>3, <1>4, <1>5, <1>6, <1>7, <1>8, <1>9, <1>10, <1>11, <1>12, <1>13, <1>14,
     <1>15, <1>16, <1>17, <1>18, Zenon DEF X!Next, X!SubmitGoesOn, X!DecideGoesOn, X!TaskGoesOn

\* A retry that was begun for a decided approval ends without registering.
LEMMA ExplanationStops ==
  ASSUME X!TypeOK, X!DecisionsAreFinal, X!WorkCanBeCancelled, X!RetriesStop,
         X!Next \/ UNCHANGED explanationVars
  PROVE  X!RetriesStop'
<1> USE DEF X!TypeOK, X!tasks, X!Goto, X!Register, X!Clear, X!WritePending, X!Registered,
    X!Working, X!Of, X!NoTask, X!First, X!RetriesStop, X!DecisionsAreFinal,
    X!WorkCanBeCancelled, X!StillOpen, X!Tasks, X!None
<1>1. CASE UNCHANGED explanationVars
  BY <1>1 DEF explanationVars
<1>2. ASSUME NEW a \in Approvals, X!SubmitExplained(a) PROVE X!RetriesStop'
  BY <1>2 DEF X!SubmitExplained
<1>3. ASSUME NEW a \in Approvals, X!SubmitAuto(a) PROVE X!RetriesStop'
  BY <1>3 DEF X!SubmitAuto
<1>4. ASSUME NEW a \in Approvals, X!AutoReviewed(a) PROVE X!RetriesStop'
  BY <1>4 DEF X!AutoReviewed
<1>5. ASSUME NEW a \in Approvals, X!StartExplanation(a) PROVE X!RetriesStop'
  BY <1>5 DEF X!StartExplanation
<1>6. ASSUME NEW a \in Approvals, X!Decide(a) PROVE X!RetriesStop'
  BY <1>6 DEF X!Decide
<1>7. ASSUME NEW a \in Approvals, X!CancelExplanation(a) PROVE X!RetriesStop'
  BY <1>7 DEF X!CancelExplanation
<1>8. ASSUME NEW a \in Approvals, X!EraseReview(a) PROVE X!RetriesStop'
  BY <1>8 DEF X!EraseReview
<1>9. ASSUME NEW t \in X!Tasks, X!RetryBegins(t) PROVE X!RetriesStop'
  BY <1>9 DEF X!RetryBegins
<1>10. ASSUME NEW t \in X!Tasks, X!TakeReviewer(t) PROVE X!RetriesStop'
  BY <1>10 DEF X!TakeReviewer
<1>11. ASSUME NEW t \in X!Tasks, X!Disconnect(t) PROVE X!RetriesStop'
  BY <1>11 DEF X!Disconnect
<1>12. ASSUME NEW t \in X!Tasks, X!RetryRegisters(t) PROVE X!RetriesStop'
  BY <1>12 DEF X!RetryRegisters
<1>13. ASSUME NEW t \in X!Tasks, X!RetryRechecks(t) PROVE X!RetriesStop'
  BY <1>13 DEF X!RetryRechecks
<1>14. ASSUME NEW t \in X!Tasks, X!RetryErases(t) PROVE X!RetriesStop'
  BY <1>14 DEF X!RetryErases
<1>15. ASSUME NEW t \in X!Tasks, X!StopWaiting(t) PROVE X!RetriesStop'
  BY <1>15 DEF X!StopWaiting
<1>16. ASSUME NEW t \in X!Tasks, X!Reviewed(t) PROVE X!RetriesStop'
  BY <1>16 DEF X!Reviewed
<1>17. ASSUME NEW t \in X!Tasks, X!Persist(t) PROVE X!RetriesStop'
  BY <1>17 DEF X!Persist
<1>18. ASSUME NEW t \in X!Tasks, X!EndTask(t) PROVE X!RetriesStop'
  BY <1>18 DEF X!EndTask
<1> QED
  BY <1>1, <1>2, <1>3, <1>4, <1>5, <1>6, <1>7, <1>8, <1>9, <1>10, <1>11, <1>12, <1>13, <1>14,
     <1>15, <1>16, <1>17, <1>18, Zenon DEF X!Next, X!SubmitGoesOn, X!DecideGoesOn, X!TaskGoesOn

\* The explanations start so.
LEMMA ExplanationStarts == X!Init => X!IInv
<1> SUFFICES ASSUME X!Init PROVE X!IInv
  OBVIOUS
<1> USE ExplanationBounds DEF X!Init
<1>1. X!TypeOK
  BY DEF X!TypeOK, X!None, X!Reviews, X!Registered
<1>2. X!CountsInv
  <2>1. X!IsFiniteSet({}) /\ X!Cardinality({}) = 0
    BY FS_EmptySet, ExplanationCount
  <2> QED
    BY <2>1 DEF X!CountsInv
<1>3. X!HoldersInv /\ X!WorkCanBeCancelled
  BY DEF X!HoldersInv, X!WorkCanBeCancelled, X!Registered, X!Working
<1>4. X!RetriesStop /\ X!DecisionsAreFinal
  BY DEF X!RetriesStop, X!DecisionsAreFinal, X!Working, X!None, X!Of, X!Tasks
<1> QED
  BY <1>1, <1>2, <1>3, <1>4 DEF X!IInv

\* Every step of a submission, a decision and an explanation keeps it.
LEMMA ExplanationStep == ASSUME X!IInv, X!Next \/ UNCHANGED explanationVars PROVE X!IInv'
<1> USE DEF X!IInv
<1>1. X!TypeOK' /\ X!CountsInv' /\ X!HoldersInv'
  BY ExplanationTyping, ExplanationCounts, ExplanationHolders
<1>2. X!WorkCanBeCancelled' /\ X!RetriesStop' /\ X!DecisionsAreFinal'
  BY ExplanationActive, ExplanationStops, ExplanationFinal
<1> QED
  BY <1>1, <1>2

\* Tasks are told from the other entries of a review.
LEMMA ExplanationKinds ==
  /\ X!NoReview \notin X!Tasks /\ X!NoReview # X!Skipped
  /\ <<"pending">> \notin X!Tasks /\ <<"pending">> # X!Skipped
<1>1. \A t \in X!Tasks : Len(t) = 2
  BY DEF X!Tasks
<1>2. Len(X!NoReview) = 0 /\ Len(<<"pending">>) = 1 /\ Len(X!Skipped) = 1
  BY DEF X!NoReview, X!Skipped
<1>3. <<"pending">>[1] # X!Skipped[1]
  BY DEF X!Skipped
<1> QED
  BY <1>1, <1>2, <1>3

\* A step that writes a review finds its approval pending.
LEMMA ExplanationWrites ==
  ASSUME X!TypeOK, X!DecisionsAreFinal, X!Next \/ UNCHANGED explanationVars
  PROVE  X!WrittenWhilePending
<1> USE ExplanationBounds DEF X!TypeOK, X!DecisionsAreFinal, X!WrittenWhilePending,
    X!WritePending, X!None, X!tasks
<1>1. CASE UNCHANGED explanationVars
  BY <1>1 DEF explanationVars
<1>2. ASSUME NEW a \in Approvals, X!SubmitExplained(a) PROVE X!WrittenWhilePending
  <2>1. \A b \in Approvals : review'[b] \in {review[b], X!NoReview, <<"pending">>}
    BY <1>2 DEF X!SubmitExplained
  <2> QED
    BY <2>1, ExplanationKinds
<1>3. ASSUME NEW a \in Approvals, X!SubmitAuto(a) PROVE X!WrittenWhilePending
  BY <1>3 DEF X!SubmitAuto
<1>4. ASSUME NEW a \in Approvals, X!AutoReviewed(a) PROVE X!WrittenWhilePending
  <2>1. \A b \in Approvals : review'[b] = review[b] \/ \E o : review'[b] = <<"auto", o>>
    BY <1>4 DEF X!AutoReviewed
  <2>2. \A o : <<"auto", o>> \notin X!Tasks /\ <<"auto", o>> # X!Skipped
    BY DEF X!Tasks, X!Skipped
  <2> HIDE DEF X!TypeOK, X!DecisionsAreFinal
  <2> QED
    BY <2>1, <2>2
<1>5. ASSUME NEW a \in Approvals, X!StartExplanation(a) PROVE X!WrittenWhilePending
  BY <1>5 DEF X!StartExplanation, X!Register
<1>6. ASSUME NEW a \in Approvals, X!Decide(a) PROVE X!WrittenWhilePending
  BY <1>6 DEF X!Decide
<1>7. ASSUME NEW a \in Approvals, X!CancelExplanation(a) PROVE X!WrittenWhilePending
  BY <1>7 DEF X!CancelExplanation
<1>8. ASSUME NEW a \in Approvals, X!EraseReview(a) PROVE X!WrittenWhilePending
  <2>1. \A b \in Approvals : review'[b] \in {review[b], X!NoReview, <<"pending">>}
    BY <1>8 DEF X!EraseReview
  <2> QED
    BY <2>1, ExplanationKinds
<1>9. ASSUME NEW t \in X!Tasks, X!RetryBegins(t) PROVE X!WrittenWhilePending
  BY <1>9 DEF X!RetryBegins
<1>10. ASSUME NEW t \in X!Tasks, X!TakeReviewer(t) PROVE X!WrittenWhilePending
  BY <1>10 DEF X!TakeReviewer
<1>11. ASSUME NEW t \in X!Tasks, X!Disconnect(t) PROVE X!WrittenWhilePending
  BY <1>11 DEF X!Disconnect
<1>12. ASSUME NEW t \in X!Tasks, X!RetryRegisters(t) PROVE X!WrittenWhilePending
  BY <1>12 DEF X!RetryRegisters
<1>13. ASSUME NEW t \in X!Tasks, X!RetryRechecks(t) PROVE X!WrittenWhilePending
  BY <1>13 DEF X!RetryRechecks
<1>14. ASSUME NEW t \in X!Tasks, X!RetryErases(t) PROVE X!WrittenWhilePending
  <2>1. \A b \in Approvals : review'[b] \in {review[b], X!NoReview, <<"pending">>}
    BY <1>14 DEF X!RetryErases
  <2> QED
    BY <2>1, ExplanationKinds
<1>15. ASSUME NEW t \in X!Tasks, X!StopWaiting(t) PROVE X!WrittenWhilePending
  BY <1>15 DEF X!StopWaiting
<1>16. ASSUME NEW t \in X!Tasks, X!Reviewed(t) PROVE X!WrittenWhilePending
  BY <1>16 DEF X!Reviewed
<1>17. ASSUME NEW t \in X!Tasks, X!Persist(t) PROVE X!WrittenWhilePending
  BY <1>17 DEF X!Persist
<1>18. ASSUME NEW t \in X!Tasks, X!EndTask(t) PROVE X!WrittenWhilePending
  BY <1>18 DEF X!EndTask
<1> QED
  BY <1>1, <1>2, <1>3, <1>4, <1>5, <1>6, <1>7, <1>8, <1>9, <1>10, <1>11, <1>12, <1>13, <1>14,
     <1>15, <1>16, <1>17, <1>18, Zenon DEF X!Next, X!SubmitGoesOn, X!DecideGoesOn, X!TaskGoesOn

\* What the component states follows.
LEMMA ExplanationsHold ==
  ASSUME X!IInv
  PROVE  X!TypeOK /\ X!LimitsHold /\ X!WorkCanBeCancelled /\ X!NoRetryOutlivesDecision
<1>1. X!LimitsHold
  BY DEF X!IInv, X!LimitsHold, X!CountsInv, X!HoldersInv
<1>2. X!NoRetryOutlivesDecision
  BY DEF X!IInv, X!NoRetryOutlivesDecision, X!RetriesStop
<1> QED
  BY <1>1, <1>2 DEF X!IInv

-----------------------------------------------------------------------------
(* Web searches *)

\* A save, a caller or a flight leaves the variables well typed.
LEMMA SearchTyping ==
  ASSUME W!TypeOK, W!CountsInv, W!Next \/ UNCHANGED searchVars
  PROVE  W!TypeOK'
<1> USE SearchBounds DEF W!TypeOK, W!Goto, W!Join, W!InAir, W!Landed, W!Home, W!Settings,
    W!Keys, W!Flight, W!Caller, W!NoKey, W!CountsInv
<1>1. CASE UNCHANGED searchVars
  BY <1>1 DEF searchVars
<1>2. ASSUME W!SaveReads PROVE W!TypeOK'
  BY <1>2 DEF W!SaveReads
<1>3. ASSUME W!SaveWrites PROVE W!TypeOK'
  BY <1>3 DEF W!SaveWrites
<1>4. ASSUME NEW c \in Callers, W!Resolve(c) PROVE W!TypeOK'
  BY <1>4 DEF W!Resolve
<1>5. ASSUME NEW c \in Callers, W!Request(c) PROVE W!TypeOK'
  <2>1. caller[c].pc = "resolved" /\ caller[c].key \in W!Keys
    BY <1>5 DEF W!Request
  <2>2. \E i \in W!Ids :
          caller' = [caller EXCEPT ![c] =
                       [pc |-> "waiting", key |-> caller[c].key, flight |-> i]]
    BY <1>5 DEF W!Request, W!Shared
  <2>3. \/ flight' = flight
        \/ \E i \in W!Ids :
             flight' = [flight EXCEPT ![i] =
                          [pc |-> "queued", key |-> caller[c].key, attempt |-> 0]]
    BY <1>5 DEF W!Request
  <2>4. caller' \in [Callers -> {W!Home} \cup W!Caller]
    BY <2>1, <2>2
  <2>5. flight' \in [W!Ids -> {W!Landed} \cup W!Flight]
    BY <2>1, <2>3
  <2>6. UNCHANGED <<settings, saver, saves, webSlots>>
    BY <1>5 DEF W!Request
  <2> QED
    BY <2>4, <2>5, <2>6
<1>6. ASSUME NEW c \in Callers, W!Leave(c) PROVE W!TypeOK'
  BY <1>6 DEF W!Leave
<1>7. ASSUME NEW c \in Callers, W!Return(c) PROVE W!TypeOK'
  BY <1>7 DEF W!Return
<1>8. ASSUME NEW i \in W!Ids, W!TakeSlot(i) PROVE W!TypeOK'
  BY <1>8 DEF W!TakeSlot
<1>9. ASSUME NEW i \in W!Ids, W!Answered(i) PROVE W!TypeOK'
  BY <1>9 DEF W!Answered
<1>10. ASSUME NEW i \in W!Ids, W!Retry(i) PROVE W!TypeOK'
  BY <1>10 DEF W!Retry
<1>11. ASSUME NEW i \in W!Ids, W!Deadline(i) PROVE W!TypeOK'
  BY <1>11 DEF W!Deadline
<1>12. ASSUME NEW i \in W!Ids, W!Land(i) PROVE W!TypeOK'
  BY <1>12 DEF W!Land
<1> QED
  BY <1>1, <1>2, <1>3, <1>4, <1>5, <1>6, <1>7, <1>8, <1>9, <1>10, <1>11, <1>12, Zenon DEF W!Next

\* A flight is retried once, and a save is one of those the bound allows.
LEMMA SearchCounts ==
  ASSUME W!TypeOK, W!CountsInv, W!Next \/ UNCHANGED searchVars
  PROVE  W!CountsInv'
<1> USE SearchBounds DEF W!TypeOK, W!Goto, W!Join, W!InAir, W!Landed, W!Home, W!Settings,
    W!Keys, W!Flight, W!Caller, W!NoKey, W!CountsInv
<1>1. CASE UNCHANGED searchVars
  BY <1>1 DEF searchVars
<1>2. ASSUME W!SaveReads PROVE W!CountsInv'
  BY <1>2 DEF W!SaveReads
<1>3. ASSUME W!SaveWrites PROVE W!CountsInv'
  BY <1>3 DEF W!SaveWrites
<1>4. ASSUME NEW c \in Callers, W!Resolve(c) PROVE W!CountsInv'
  BY <1>4 DEF W!Resolve
<1>5. ASSUME NEW c \in Callers, W!Request(c) PROVE W!CountsInv'
  BY <1>5 DEF W!Request
<1>6. ASSUME NEW c \in Callers, W!Leave(c) PROVE W!CountsInv'
  BY <1>6 DEF W!Leave
<1>7. ASSUME NEW c \in Callers, W!Return(c) PROVE W!CountsInv'
  BY <1>7 DEF W!Return
<1>8. ASSUME NEW i \in W!Ids, W!TakeSlot(i) PROVE W!CountsInv'
  BY <1>8 DEF W!TakeSlot
<1>9. ASSUME NEW i \in W!Ids, W!Answered(i) PROVE W!CountsInv'
  BY <1>9 DEF W!Answered
<1>10. ASSUME NEW i \in W!Ids, W!Retry(i) PROVE W!CountsInv'
  BY <1>10 DEF W!Retry
<1>11. ASSUME NEW i \in W!Ids, W!Deadline(i) PROVE W!CountsInv'
  BY <1>11 DEF W!Deadline
<1>12. ASSUME NEW i \in W!Ids, W!Land(i) PROVE W!CountsInv'
  BY <1>12 DEF W!Land
<1> QED
  BY <1>1, <1>2, <1>3, <1>4, <1>5, <1>6, <1>7, <1>8, <1>9, <1>10, <1>11, <1>12, Zenon DEF W!Next

\* A flight is started only when none in the air asks the same.
LEMMA SearchFlights ==
  ASSUME W!TypeOK, W!OneFlightPerRequest, W!Next \/ UNCHANGED searchVars
  PROVE  W!OneFlightPerRequest'
<1> USE DEF W!TypeOK, W!Goto, W!Join, W!InAir, W!Landed, W!Home, W!Settings, W!Keys, W!Flight,
    W!Caller, W!NoKey, W!OneFlightPerRequest, W!Shared, W!RequestKey
<1>1. CASE UNCHANGED searchVars
  BY <1>1 DEF searchVars
<1>2. ASSUME W!SaveReads PROVE W!OneFlightPerRequest'
  BY <1>2 DEF W!SaveReads
<1>3. ASSUME W!SaveWrites PROVE W!OneFlightPerRequest'
  BY <1>3 DEF W!SaveWrites
<1>4. ASSUME NEW c \in Callers, W!Resolve(c) PROVE W!OneFlightPerRequest'
  BY <1>4 DEF W!Resolve
<1>5. ASSUME NEW c \in Callers, W!Request(c) PROVE W!OneFlightPerRequest'
  BY <1>5 DEF W!Request
<1>6. ASSUME NEW c \in Callers, W!Leave(c) PROVE W!OneFlightPerRequest'
  BY <1>6 DEF W!Leave
<1>7. ASSUME NEW c \in Callers, W!Return(c) PROVE W!OneFlightPerRequest'
  BY <1>7 DEF W!Return
<1>8. ASSUME NEW i \in W!Ids, W!TakeSlot(i) PROVE W!OneFlightPerRequest'
  BY <1>8 DEF W!TakeSlot
<1>9. ASSUME NEW i \in W!Ids, W!Answered(i) PROVE W!OneFlightPerRequest'
  BY <1>9 DEF W!Answered
<1>10. ASSUME NEW i \in W!Ids, W!Retry(i) PROVE W!OneFlightPerRequest'
  BY <1>10 DEF W!Retry
<1>11. ASSUME NEW i \in W!Ids, W!Deadline(i) PROVE W!OneFlightPerRequest'
  BY <1>11 DEF W!Deadline
<1>12. ASSUME NEW i \in W!Ids, W!Land(i) PROVE W!OneFlightPerRequest'
  BY <1>12 DEF W!Land
<1> QED
  BY <1>1, <1>2, <1>3, <1>4, <1>5, <1>6, <1>7, <1>8, <1>9, <1>10, <1>11, <1>12, Zenon DEF W!Next

\* Whoever waits joined a flight of its own key, and flights keep their keys until they land.
LEMMA SearchWaiters ==
  ASSUME W!TypeOK, W!WaitersInv, W!Next \/ UNCHANGED searchVars
  PROVE  W!WaitersInv'
<1> USE DEF W!TypeOK, W!Goto, W!Join, W!InAir, W!Landed, W!Home, W!Settings, W!Keys, W!Flight,
    W!Caller, W!NoKey, W!WaitersInv, W!Shared, W!RequestKey
<1>1. CASE UNCHANGED searchVars
  BY <1>1 DEF searchVars
<1>2. ASSUME W!SaveReads PROVE W!WaitersInv'
  BY <1>2 DEF W!SaveReads
<1>3. ASSUME W!SaveWrites PROVE W!WaitersInv'
  BY <1>3 DEF W!SaveWrites
<1>4. ASSUME NEW c \in Callers, W!Resolve(c) PROVE W!WaitersInv'
  BY <1>4 DEF W!Resolve
<1>5. ASSUME NEW c \in Callers, W!Request(c) PROVE W!WaitersInv'
  BY <1>5 DEF W!Request
<1>6. ASSUME NEW c \in Callers, W!Leave(c) PROVE W!WaitersInv'
  BY <1>6 DEF W!Leave
<1>7. ASSUME NEW c \in Callers, W!Return(c) PROVE W!WaitersInv'
  BY <1>7 DEF W!Return
<1>8. ASSUME NEW i \in W!Ids, W!TakeSlot(i) PROVE W!WaitersInv'
  BY <1>8 DEF W!TakeSlot
<1>9. ASSUME NEW i \in W!Ids, W!Answered(i) PROVE W!WaitersInv'
  BY <1>9 DEF W!Answered
<1>10. ASSUME NEW i \in W!Ids, W!Retry(i) PROVE W!WaitersInv'
  BY <1>10 DEF W!Retry
<1>11. ASSUME NEW i \in W!Ids, W!Deadline(i) PROVE W!WaitersInv'
  BY <1>11 DEF W!Deadline
<1>12. ASSUME NEW i \in W!Ids, W!Land(i) PROVE W!WaitersInv'
  BY <1>12 DEF W!Land
<1> QED
  BY <1>1, <1>2, <1>3, <1>4, <1>5, <1>6, <1>7, <1>8, <1>9, <1>10, <1>11, <1>12, Zenon DEF W!Next

\* A flight that lands answers those who wait for it with what they asked.
LEMMA SearchAnswers ==
  ASSUME W!TypeOK, W!WaitersInv, W!AnswersAreOwn, W!Next \/ UNCHANGED searchVars
  PROVE  W!AnswersAreOwn'
<1> USE DEF W!TypeOK, W!Goto, W!Join, W!InAir, W!Landed, W!Home, W!Settings, W!Keys, W!Flight,
    W!Caller, W!NoKey, W!WaitersInv, W!AnswersAreOwn
<1>1. CASE UNCHANGED searchVars
  BY <1>1 DEF searchVars
<1>2. ASSUME W!SaveReads PROVE W!AnswersAreOwn'
  BY <1>2 DEF W!SaveReads
<1>3. ASSUME W!SaveWrites PROVE W!AnswersAreOwn'
  BY <1>3 DEF W!SaveWrites
<1>4. ASSUME NEW c \in Callers, W!Resolve(c) PROVE W!AnswersAreOwn'
  BY <1>4 DEF W!Resolve
<1>5. ASSUME NEW c \in Callers, W!Request(c) PROVE W!AnswersAreOwn'
  BY <1>5 DEF W!Request
<1>6. ASSUME NEW c \in Callers, W!Leave(c) PROVE W!AnswersAreOwn'
  BY <1>6 DEF W!Leave
<1>7. ASSUME NEW c \in Callers, W!Return(c) PROVE W!AnswersAreOwn'
  BY <1>7 DEF W!Return
<1>8. ASSUME NEW i \in W!Ids, W!TakeSlot(i) PROVE W!AnswersAreOwn'
  BY <1>8 DEF W!TakeSlot
<1>9. ASSUME NEW i \in W!Ids, W!Answered(i) PROVE W!AnswersAreOwn'
  BY <1>9 DEF W!Answered
<1>10. ASSUME NEW i \in W!Ids, W!Retry(i) PROVE W!AnswersAreOwn'
  BY <1>10 DEF W!Retry
<1>11. ASSUME NEW i \in W!Ids, W!Deadline(i) PROVE W!AnswersAreOwn'
  BY <1>11 DEF W!Deadline
<1>12. ASSUME NEW i \in W!Ids, W!Land(i) PROVE W!AnswersAreOwn'
  BY <1>12 DEF W!Land
<1> QED
  BY <1>1, <1>2, <1>3, <1>4, <1>5, <1>6, <1>7, <1>8, <1>9, <1>10, <1>11, <1>12, Zenon DEF W!Next

\* No save enables the search without a key.
LEMMA SearchKey ==
  ASSUME W!TypeOK, W!EnabledHasKey, W!Next \/ UNCHANGED searchVars
  PROVE  W!EnabledHasKey'
<1> USE DEF W!TypeOK, W!Goto, W!Join, W!InAir, W!Landed, W!Home, W!Settings, W!Keys, W!Flight,
    W!Caller, W!NoKey, W!EnabledHasKey, W!Accepted
<1>1. CASE UNCHANGED searchVars
  BY <1>1 DEF searchVars
<1>2. ASSUME W!SaveReads PROVE W!EnabledHasKey'
  BY <1>2 DEF W!SaveReads
<1>3. ASSUME W!SaveWrites PROVE W!EnabledHasKey'
  BY <1>3 DEF W!SaveWrites
<1>4. ASSUME NEW c \in Callers, W!Resolve(c) PROVE W!EnabledHasKey'
  BY <1>4 DEF W!Resolve
<1>5. ASSUME NEW c \in Callers, W!Request(c) PROVE W!EnabledHasKey'
  BY <1>5 DEF W!Request
<1>6. ASSUME NEW c \in Callers, W!Leave(c) PROVE W!EnabledHasKey'
  BY <1>6 DEF W!Leave
<1>7. ASSUME NEW c \in Callers, W!Return(c) PROVE W!EnabledHasKey'
  BY <1>7 DEF W!Return
<1>8. ASSUME NEW i \in W!Ids, W!TakeSlot(i) PROVE W!EnabledHasKey'
  BY <1>8 DEF W!TakeSlot
<1>9. ASSUME NEW i \in W!Ids, W!Answered(i) PROVE W!EnabledHasKey'
  BY <1>9 DEF W!Answered
<1>10. ASSUME NEW i \in W!Ids, W!Retry(i) PROVE W!EnabledHasKey'
  BY <1>10 DEF W!Retry
<1>11. ASSUME NEW i \in W!Ids, W!Deadline(i) PROVE W!EnabledHasKey'
  BY <1>11 DEF W!Deadline
<1>12. ASSUME NEW i \in W!Ids, W!Land(i) PROVE W!EnabledHasKey'
  BY <1>12 DEF W!Land
<1> QED
  BY <1>1, <1>2, <1>3, <1>4, <1>5, <1>6, <1>7, <1>8, <1>9, <1>10, <1>11, <1>12, Zenon DEF W!Next

\* A slot is taken on the way to the provider and held until the flight lands.
LEMMA SearchHolders ==
  ASSUME W!TypeOK, W!HoldersInv, W!Next \/ UNCHANGED searchVars
  PROVE  W!HoldersInv'
<1> USE DEF W!TypeOK, W!Goto, W!Join, W!InAir, W!Landed, W!Home, W!Settings, W!Keys, W!Flight,
    W!Caller, W!NoKey, W!HoldersInv
<1>1. CASE UNCHANGED searchVars
  BY <1>1 DEF searchVars
<1>2. ASSUME W!SaveReads PROVE W!HoldersInv'
  BY <1>2 DEF W!SaveReads
<1>3. ASSUME W!SaveWrites PROVE W!HoldersInv'
  BY <1>3 DEF W!SaveWrites
<1>4. ASSUME NEW c \in Callers, W!Resolve(c) PROVE W!HoldersInv'
  BY <1>4 DEF W!Resolve
<1>5. ASSUME NEW c \in Callers, W!Request(c) PROVE W!HoldersInv'
  BY <1>5 DEF W!Request
<1>6. ASSUME NEW c \in Callers, W!Leave(c) PROVE W!HoldersInv'
  BY <1>6 DEF W!Leave
<1>7. ASSUME NEW c \in Callers, W!Return(c) PROVE W!HoldersInv'
  BY <1>7 DEF W!Return
<1>8. ASSUME NEW i \in W!Ids, W!TakeSlot(i) PROVE W!HoldersInv'
  BY <1>8 DEF W!TakeSlot
<1>9. ASSUME NEW i \in W!Ids, W!Answered(i) PROVE W!HoldersInv'
  BY <1>9 DEF W!Answered
<1>10. ASSUME NEW i \in W!Ids, W!Retry(i) PROVE W!HoldersInv'
  BY <1>10 DEF W!Retry
<1>11. ASSUME NEW i \in W!Ids, W!Deadline(i) PROVE W!HoldersInv'
  BY <1>11 DEF W!Deadline
<1>12. ASSUME NEW i \in W!Ids, W!Land(i) PROVE W!HoldersInv'
  BY <1>12 DEF W!Land
<1> QED
  BY <1>1, <1>2, <1>3, <1>4, <1>5, <1>6, <1>7, <1>8, <1>9, <1>10, <1>11, <1>12, Zenon DEF W!Next

\* Finiteness and cardinality as the component has them.
LEMMA SearchCount ==
  ASSUME NEW S PROVE W!Cardinality(S) = Cardinality(S) /\ (W!IsFiniteSet(S) <=> IsFiniteSet(S))
  BY DEF W!Cardinality, Cardinality, W!IsFiniteSet, IsFiniteSet

\* No more slots are taken than there are.
LEMMA SearchSlots ==
  ASSUME W!IsFiniteSet(webSlots), W!Cardinality(webSlots) <= WebSlots,
         W!Next \/ UNCHANGED searchVars
  PROVE  W!IsFiniteSet(webSlots') /\ W!Cardinality(webSlots') <= WebSlots
<1>1. \/ webSlots' = webSlots
      \/ W!Cardinality(webSlots) < WebSlots /\ \E i : webSlots' = webSlots \cup {i}
      \/ \E i : webSlots' = webSlots \ {i}
  BY DEF W!Next, searchVars, W!SaveReads, W!SaveWrites, W!Resolve, W!Request, W!Leave, W!Return,
     W!TakeSlot, W!Answered, W!Retry, W!Deadline, W!Land
<1> DEFINE n == Cardinality(webSlots)
           m == Cardinality(webSlots')
<1>2. IsFiniteSet(webSlots) /\ n <= WebSlots
  BY SearchCount
<1>3. n \in Nat
  BY <1>2, FS_CardinalityType
<1>4. CASE webSlots' = webSlots
  BY <1>4
<1>5. ASSUME NEW i, W!Cardinality(webSlots) < WebSlots, webSlots' = webSlots \cup {i}
      PROVE  IsFiniteSet(webSlots') /\ m <= WebSlots
  <2>1. IsFiniteSet(webSlots') /\ m \in {n, n + 1}
    BY <1>2, <1>5, FS_AddElement
  <2>2. n < WebSlots
    BY <1>5, SearchCount
  <2> HIDE DEF n, m
  <2> QED
    BY <1>3, <2>1, <2>2, SearchBounds
<1>6. ASSUME NEW i, webSlots' = webSlots \ {i} PROVE IsFiniteSet(webSlots') /\ m <= WebSlots
  <2>1. IsFiniteSet(webSlots') /\ m \in {n, n - 1}
    BY <1>2, <1>6, FS_RemoveElement
  <2> HIDE DEF n, m
  <2> QED
    BY <1>2, <1>3, <2>1, SearchBounds
<1> QED
  BY <1>1, <1>4, <1>5, <1>6, SearchCount

\* The web search starts so.
LEMMA SearchStarts == W!Init => W!IInv
<1> SUFFICES ASSUME W!Init PROVE W!IInv
  OBVIOUS
<1> USE SearchBounds DEF W!Init, W!Landed, W!Home
<1>1. W!TypeOK /\ W!EnabledHasKey
  BY DEF W!TypeOK, W!EnabledHasKey, W!Settings, W!NoKey
<1>2. W!OneFlightPerRequest /\ W!WaitersInv /\ W!AnswersAreOwn /\ W!CountsInv
  BY DEF W!OneFlightPerRequest, W!WaitersInv, W!AnswersAreOwn, W!CountsInv, W!InAir
<1>3. W!IsFiniteSet(webSlots) /\ W!SlotsComeBack
  BY FS_EmptySet, SearchCount DEF W!SlotsComeBack, W!HoldersInv
<1> QED
  BY <1>1, <1>2, <1>3 DEF W!IInv

\* Every step of a save, a caller and a flight keeps it.
LEMMA SearchStep == ASSUME W!IInv, W!Next \/ UNCHANGED searchVars PROVE W!IInv'
<1> USE DEF W!IInv, W!SlotsComeBack
<1>1. W!TypeOK' /\ W!CountsInv' /\ W!EnabledHasKey'
  BY SearchTyping, SearchCounts, SearchKey
<1>2. W!OneFlightPerRequest' /\ W!WaitersInv' /\ W!AnswersAreOwn'
  BY SearchFlights, SearchWaiters, SearchAnswers
<1>3. W!IsFiniteSet(webSlots)' /\ W!SlotsComeBack'
  BY SearchSlots, SearchHolders
<1> QED
  BY <1>1, <1>2, <1>3

-----------------------------------------------------------------------------
(* MCP clients *)

\* A request to an MCP server leaves the variables well typed.
LEMMA ClientTyping ==
  ASSUME M!TypeOK, M!Next \/ UNCHANGED clientVars
  PROVE  M!TypeOK'
<1> USE ClientBounds DEF M!TypeOK, M!Goto, M!store, M!flows, M!SetRuntime, M!State, M!Gone,
    M!CancelFlow, M!Locked, M!ReadSecrets, M!UpdateSecrets, M!Unlock, M!NoRow, M!None,
    M!Server, M!Pcs, M!Flows, M!Requests
<1>1. CASE UNCHANGED clientVars
  BY <1>1 DEF clientVars
<1>2. ASSUME NEW w \in Workers, M!CancelBefore(w) PROVE M!TypeOK'
  BY <1>2 DEF M!CancelBefore
<1>3. ASSUME NEW w \in Workers, M!SetEnabled(w) PROVE M!TypeOK'
  <2>1. UNCHANGED <<read, runtime, sessions, op, byServer, states, flowsCancelled, callback,
     secretsMu,
                    headersSaved, refreshes>>
    BY <1>3 DEF M!SetEnabled
  <2>2. request' \in [Workers -> M!Pcs]
    BY <1>3 DEF M!SetEnabled
  <2>3. server' = server \/ server' = [server EXCEPT !.enabled = TRUE]
                        \/ server' = [server EXCEPT !.enabled = FALSE]
    <3>1. CASE op[w] = "enable"
      BY <1>3, <3>1, Zenon DEF M!SetEnabled
    <3>2. CASE op[w] # "enable"
      BY <1>3, <3>2, Zenon DEF M!SetEnabled
    <3> QED
      BY <3>1, <3>2
  <2>4. server' \in M!Server
    BY <2>3
  <2> QED
    BY <2>1, <2>2, <2>4
<1>4. ASSUME NEW w \in Workers, M!DeleteBegins(w) PROVE M!TypeOK'
  BY <1>4 DEF M!DeleteBegins
<1>5. ASSUME NEW w \in Workers, M!Lock(w) PROVE M!TypeOK'
  BY <1>5 DEF M!Lock
<1>6. ASSUME NEW w \in Workers, M!SaveWrites(w) PROVE M!TypeOK'
  BY <1>6 DEF M!SaveWrites
<1>7. ASSUME NEW w \in Workers, M!ClearWrites(w) PROVE M!TypeOK'
  BY <1>7 DEF M!ClearWrites
<1>8. ASSUME NEW w \in Workers, M!ClearCancels(w) PROVE M!TypeOK'
  BY <1>8 DEF M!ClearCancels
<1>9. ASSUME NEW w \in Workers, M!TokenWrites(w) PROVE M!TypeOK'
  BY <1>9 DEF M!TokenWrites
<1>10. ASSUME NEW w \in Workers, M!ReadRow(w) PROVE M!TypeOK'
  BY <1>10 DEF M!ReadRow
<1>11. ASSUME NEW w \in Workers, M!Swap(w) PROVE M!TypeOK'
  BY <1>11 DEF M!Swap
<1>12. ASSUME NEW w \in Workers, M!Connected(w) PROVE M!TypeOK'
  BY <1>12 DEF M!Connected
<1>13. ASSUME NEW w \in Workers, M!ConnectFails(w) PROVE M!TypeOK'
  BY <1>13 DEF M!ConnectFails
<1>14. ASSUME NEW w \in Workers, M!Install(w) PROVE M!TypeOK'
  BY <1>14 DEF M!Install
<1>15. ASSUME NEW w \in Workers, M!TestCloses(w) PROVE M!TypeOK'
  BY <1>15 DEF M!TestCloses
<1>16. ASSUME NEW w \in Workers, M!Disconnect(w) PROVE M!TypeOK'
  BY <1>16 DEF M!Disconnect
<1>17. ASSUME NEW w \in Workers, M!DeleteRow(w) PROVE M!TypeOK'
  BY <1>17 DEF M!DeleteRow
<1>18. ASSUME NEW w \in Workers, M!DeleteState(w) PROVE M!TypeOK'
  BY <1>18 DEF M!DeleteState
<1>19. ASSUME NEW w \in Workers, M!BeginMCPOAuth(w) PROVE M!TypeOK'
  BY <1>19 DEF M!BeginMCPOAuth
<1>20. ASSUME NEW w \in Workers, M!FlowStarts(w) PROVE M!TypeOK'
  BY <1>20 DEF M!FlowStarts
<1>21. ASSUME NEW w \in Workers, M!PublishURL(w) PROVE M!TypeOK'
  BY <1>21 DEF M!PublishURL
<1>22. ASSUME NEW w \in Workers, M!TokenReceived(w) PROVE M!TypeOK'
  BY <1>22 DEF M!TokenReceived
<1>23. ASSUME NEW w \in Workers, M!FlowFails(w) PROVE M!TypeOK'
  BY <1>23 DEF M!FlowFails
<1>24. ASSUME NEW w \in Workers, M!FlowError(w) PROVE M!TypeOK'
  BY <1>24 DEF M!FlowError
<1>25. ASSUME NEW w \in Workers, M!FlowConnected(w) PROVE M!TypeOK'
  BY <1>25 DEF M!FlowConnected
<1>26. ASSUME NEW w \in Workers, M!FlowChecks(w) PROVE M!TypeOK'
  BY <1>26 DEF M!FlowChecks
<1>27. ASSUME NEW w \in Workers, M!FlowInstalls(w) PROVE M!TypeOK'
  BY <1>27 DEF M!FlowInstalls
<1>28. ASSUME NEW w \in Workers, M!RemoveFlow(w) PROVE M!TypeOK'
  BY <1>28 DEF M!RemoveFlow
<1>29. ASSUME NEW w \in Workers, M!CallBack(w) PROVE M!TypeOK'
  BY <1>29 DEF M!CallBack
<1>30. ASSUME NEW w \in Workers, M!Refresh(w) PROVE M!TypeOK'
  BY <1>30 DEF M!Refresh
<1>31. ASSUME NEW w \in Workers, NEW asked \in M!Requests, M!Begin(w, asked) PROVE M!TypeOK'
  BY <1>31 DEF M!Begin
<1> HIDE DEF M!TypeOK
<1> QED
  BY <1>1, <1>2, <1>3, <1>4, <1>5, <1>6, <1>7, <1>8, <1>9, <1>10, <1>11, <1>12, <1>13, <1>14,
     <1>15, <1>16, <1>17, <1>18, <1>19, <1>20, <1>21, <1>22, <1>23, <1>24, <1>25, <1>26, <1>27,
     <1>28, <1>29, <1>30, <1>31, Zenon DEF M!Next, M!Step

\* A request is where its kind can be, and one that is past its lock holds the lock.
LEMMA ClientRequests ==
  ASSUME M!TypeOK, M!RequestInv, M!Next \/ UNCHANGED clientVars
  PROVE  M!RequestInv'
<1> USE DEF M!TypeOK, M!RequestInv, M!Goto, M!Locked, M!Flows
<1>1. CASE UNCHANGED clientVars
  BY <1>1 DEF clientVars
<1>2. ASSUME NEW w \in Workers, M!CancelBefore(w) PROVE M!RequestInv'
  BY <1>2 DEF M!CancelBefore
<1>3. ASSUME NEW w \in Workers, M!SetEnabled(w) PROVE M!RequestInv'
  BY <1>3 DEF M!SetEnabled
<1>4. ASSUME NEW w \in Workers, M!DeleteBegins(w) PROVE M!RequestInv'
  BY <1>4 DEF M!DeleteBegins
<1>5. ASSUME NEW w \in Workers, M!Lock(w) PROVE M!RequestInv'
  BY <1>5 DEF M!Lock
<1>6. ASSUME NEW w \in Workers, M!SaveWrites(w) PROVE M!RequestInv'
  BY <1>6 DEF M!SaveWrites
<1>7. ASSUME NEW w \in Workers, M!ClearWrites(w) PROVE M!RequestInv'
  BY <1>7 DEF M!ClearWrites
<1>8. ASSUME NEW w \in Workers, M!ClearCancels(w) PROVE M!RequestInv'
  BY <1>8 DEF M!ClearCancels
<1>9. ASSUME NEW w \in Workers, M!TokenWrites(w) PROVE M!RequestInv'
  BY <1>9 DEF M!TokenWrites
<1>10. ASSUME NEW w \in Workers, M!ReadRow(w) PROVE M!RequestInv'
  BY <1>10 DEF M!ReadRow
<1>11. ASSUME NEW w \in Workers, M!Swap(w) PROVE M!RequestInv'
  BY <1>11 DEF M!Swap
<1>12. ASSUME NEW w \in Workers, M!Connected(w) PROVE M!RequestInv'
  BY <1>12 DEF M!Connected
<1>13. ASSUME NEW w \in Workers, M!ConnectFails(w) PROVE M!RequestInv'
  BY <1>13 DEF M!ConnectFails
<1>14. ASSUME NEW w \in Workers, M!Install(w) PROVE M!RequestInv'
  BY <1>14 DEF M!Install
<1>15. ASSUME NEW w \in Workers, M!TestCloses(w) PROVE M!RequestInv'
  BY <1>15 DEF M!TestCloses
<1>16. ASSUME NEW w \in Workers, M!Disconnect(w) PROVE M!RequestInv'
  BY <1>16 DEF M!Disconnect
<1>17. ASSUME NEW w \in Workers, M!DeleteRow(w) PROVE M!RequestInv'
  BY <1>17 DEF M!DeleteRow
<1>18. ASSUME NEW w \in Workers, M!DeleteState(w) PROVE M!RequestInv'
  BY <1>18 DEF M!DeleteState
<1>19. ASSUME NEW w \in Workers, M!BeginMCPOAuth(w) PROVE M!RequestInv'
  BY <1>19 DEF M!BeginMCPOAuth
<1>20. ASSUME NEW w \in Workers, M!FlowStarts(w) PROVE M!RequestInv'
  BY <1>20 DEF M!FlowStarts
<1>21. ASSUME NEW w \in Workers, M!PublishURL(w) PROVE M!RequestInv'
  BY <1>21 DEF M!PublishURL
<1>22. ASSUME NEW w \in Workers, M!TokenReceived(w) PROVE M!RequestInv'
  BY <1>22 DEF M!TokenReceived
<1>23. ASSUME NEW w \in Workers, M!FlowFails(w) PROVE M!RequestInv'
  BY <1>23 DEF M!FlowFails
<1>24. ASSUME NEW w \in Workers, M!FlowError(w) PROVE M!RequestInv'
  BY <1>24 DEF M!FlowError
<1>25. ASSUME NEW w \in Workers, M!FlowConnected(w) PROVE M!RequestInv'
  BY <1>25 DEF M!FlowConnected
<1>26. ASSUME NEW w \in Workers, M!FlowChecks(w) PROVE M!RequestInv'
  BY <1>26 DEF M!FlowChecks
<1>27. ASSUME NEW w \in Workers, M!FlowInstalls(w) PROVE M!RequestInv'
  BY <1>27 DEF M!FlowInstalls
<1>28. ASSUME NEW w \in Workers, M!RemoveFlow(w) PROVE M!RequestInv'
  BY <1>28 DEF M!RemoveFlow
<1>29. ASSUME NEW w \in Workers, M!CallBack(w) PROVE M!RequestInv'
  BY <1>29 DEF M!CallBack
<1>30. ASSUME NEW w \in Workers, M!Refresh(w) PROVE M!RequestInv'
  BY <1>30 DEF M!Refresh
<1>31. ASSUME NEW w \in Workers, NEW asked \in M!Requests, M!Begin(w, asked) PROVE M!RequestInv'
  BY <1>31 DEF M!Begin
<1> QED
  BY <1>1, <1>2, <1>3, <1>4, <1>5, <1>6, <1>7, <1>8, <1>9, <1>10, <1>11, <1>12, <1>13, <1>14,
     <1>15, <1>16, <1>17, <1>18, <1>19, <1>20, <1>21, <1>22, <1>23, <1>24, <1>25, <1>26, <1>27,
     <1>28, <1>29, <1>30, <1>31, Zenon DEF M!Next, M!Step

\* A request that is about to write the secrets read those saved last: it holds the lock
\* since, and nobody saves without the lock.
LEMMA ClientWriters ==
  ASSUME M!TypeOK, M!WriterInv, M!SavedSecretsStay, M!Next \/ UNCHANGED clientVars
  PROVE  M!WriterInv'
<1> USE ClientBounds DEF M!TypeOK, M!Goto, M!store, M!flows, M!SetRuntime, M!State, M!Gone,
    M!CancelFlow, M!Locked, M!ReadSecrets, M!UpdateSecrets, M!Unlock, M!NoRow, M!None,
    M!WriterInv, M!SavedSecretsStay
<1>1. CASE UNCHANGED clientVars
  BY <1>1 DEF clientVars
<1>2. ASSUME NEW w \in Workers, M!CancelBefore(w) PROVE M!WriterInv'
  BY <1>2 DEF M!CancelBefore
<1>3. ASSUME NEW w \in Workers, M!SetEnabled(w) PROVE M!WriterInv'
  BY <1>3 DEF M!SetEnabled
<1>4. ASSUME NEW w \in Workers, M!DeleteBegins(w) PROVE M!WriterInv'
  BY <1>4 DEF M!DeleteBegins
<1>5. ASSUME NEW w \in Workers, M!Lock(w) PROVE M!WriterInv'
  BY <1>5 DEF M!Lock
<1>6. ASSUME NEW w \in Workers, M!SaveWrites(w) PROVE M!WriterInv'
  BY <1>6 DEF M!SaveWrites
<1>7. ASSUME NEW w \in Workers, M!ClearWrites(w) PROVE M!WriterInv'
  BY <1>7 DEF M!ClearWrites
<1>8. ASSUME NEW w \in Workers, M!ClearCancels(w) PROVE M!WriterInv'
  BY <1>8 DEF M!ClearCancels
<1>9. ASSUME NEW w \in Workers, M!TokenWrites(w) PROVE M!WriterInv'
  BY <1>9 DEF M!TokenWrites
<1>10. ASSUME NEW w \in Workers, M!ReadRow(w) PROVE M!WriterInv'
  BY <1>10 DEF M!ReadRow
<1>11. ASSUME NEW w \in Workers, M!Swap(w) PROVE M!WriterInv'
  BY <1>11 DEF M!Swap
<1>12. ASSUME NEW w \in Workers, M!Connected(w) PROVE M!WriterInv'
  BY <1>12 DEF M!Connected
<1>13. ASSUME NEW w \in Workers, M!ConnectFails(w) PROVE M!WriterInv'
  BY <1>13 DEF M!ConnectFails
<1>14. ASSUME NEW w \in Workers, M!Install(w) PROVE M!WriterInv'
  BY <1>14 DEF M!Install
<1>15. ASSUME NEW w \in Workers, M!TestCloses(w) PROVE M!WriterInv'
  BY <1>15 DEF M!TestCloses
<1>16. ASSUME NEW w \in Workers, M!Disconnect(w) PROVE M!WriterInv'
  BY <1>16 DEF M!Disconnect
<1>17. ASSUME NEW w \in Workers, M!DeleteRow(w) PROVE M!WriterInv'
  BY <1>17 DEF M!DeleteRow
<1>18. ASSUME NEW w \in Workers, M!DeleteState(w) PROVE M!WriterInv'
  BY <1>18 DEF M!DeleteState
<1>19. ASSUME NEW w \in Workers, M!BeginMCPOAuth(w) PROVE M!WriterInv'
  BY <1>19 DEF M!BeginMCPOAuth
<1>20. ASSUME NEW w \in Workers, M!FlowStarts(w) PROVE M!WriterInv'
  BY <1>20 DEF M!FlowStarts
<1>21. ASSUME NEW w \in Workers, M!PublishURL(w) PROVE M!WriterInv'
  BY <1>21 DEF M!PublishURL
<1>22. ASSUME NEW w \in Workers, M!TokenReceived(w) PROVE M!WriterInv'
  BY <1>22 DEF M!TokenReceived
<1>23. ASSUME NEW w \in Workers, M!FlowFails(w) PROVE M!WriterInv'
  BY <1>23 DEF M!FlowFails
<1>24. ASSUME NEW w \in Workers, M!FlowError(w) PROVE M!WriterInv'
  BY <1>24 DEF M!FlowError
<1>25. ASSUME NEW w \in Workers, M!FlowConnected(w) PROVE M!WriterInv'
  BY <1>25 DEF M!FlowConnected
<1>26. ASSUME NEW w \in Workers, M!FlowChecks(w) PROVE M!WriterInv'
  BY <1>26 DEF M!FlowChecks
<1>27. ASSUME NEW w \in Workers, M!FlowInstalls(w) PROVE M!WriterInv'
  BY <1>27 DEF M!FlowInstalls
<1>28. ASSUME NEW w \in Workers, M!RemoveFlow(w) PROVE M!WriterInv'
  BY <1>28 DEF M!RemoveFlow
<1>29. ASSUME NEW w \in Workers, M!CallBack(w) PROVE M!WriterInv'
  BY <1>29 DEF M!CallBack
<1>30. ASSUME NEW w \in Workers, M!Refresh(w) PROVE M!WriterInv'
  BY <1>30 DEF M!Refresh
<1>31. ASSUME NEW w \in Workers, NEW asked \in M!Requests, M!Begin(w, asked) PROVE M!WriterInv'
  BY <1>31 DEF M!Begin
<1> QED
  BY <1>1, <1>2, <1>3, <1>4, <1>5, <1>6, <1>7, <1>8, <1>9, <1>10, <1>11, <1>12, <1>13, <1>14,
     <1>15, <1>16, <1>17, <1>18, <1>19, <1>20, <1>21, <1>22, <1>23, <1>24, <1>25, <1>26, <1>27,
     <1>28, <1>29, <1>30, <1>31, Zenon DEF M!Next, M!Step

\* No request writes older headers over those saved last.
LEMMA ClientSecrets ==
  ASSUME M!TypeOK, M!WriterInv, M!SavedSecretsStay, M!Next \/ UNCHANGED clientVars
  PROVE  M!SavedSecretsStay'
<1> USE ClientBounds DEF M!TypeOK, M!Goto, M!store, M!flows, M!SetRuntime, M!State, M!Gone,
    M!CancelFlow, M!Locked, M!ReadSecrets, M!UpdateSecrets, M!Unlock, M!NoRow, M!None,
    M!Server, M!WriterInv, M!SavedSecretsStay
<1>1. CASE UNCHANGED clientVars
  BY <1>1 DEF clientVars
<1>2. ASSUME NEW w \in Workers, M!CancelBefore(w) PROVE M!SavedSecretsStay'
  BY <1>2 DEF M!CancelBefore
<1>3. ASSUME NEW w \in Workers, M!SetEnabled(w) PROVE M!SavedSecretsStay'
  BY <1>3 DEF M!SetEnabled
<1>4. ASSUME NEW w \in Workers, M!DeleteBegins(w) PROVE M!SavedSecretsStay'
  BY <1>4 DEF M!DeleteBegins
<1>5. ASSUME NEW w \in Workers, M!Lock(w) PROVE M!SavedSecretsStay'
  BY <1>5 DEF M!Lock
<1>6. ASSUME NEW w \in Workers, M!SaveWrites(w) PROVE M!SavedSecretsStay'
  BY <1>6 DEF M!SaveWrites
<1>7. ASSUME NEW w \in Workers, M!ClearWrites(w) PROVE M!SavedSecretsStay'
  BY <1>7 DEF M!ClearWrites
<1>8. ASSUME NEW w \in Workers, M!ClearCancels(w) PROVE M!SavedSecretsStay'
  BY <1>8 DEF M!ClearCancels
<1>9. ASSUME NEW w \in Workers, M!TokenWrites(w) PROVE M!SavedSecretsStay'
  BY <1>9 DEF M!TokenWrites
<1>10. ASSUME NEW w \in Workers, M!ReadRow(w) PROVE M!SavedSecretsStay'
  BY <1>10 DEF M!ReadRow
<1>11. ASSUME NEW w \in Workers, M!Swap(w) PROVE M!SavedSecretsStay'
  BY <1>11 DEF M!Swap
<1>12. ASSUME NEW w \in Workers, M!Connected(w) PROVE M!SavedSecretsStay'
  BY <1>12 DEF M!Connected
<1>13. ASSUME NEW w \in Workers, M!ConnectFails(w) PROVE M!SavedSecretsStay'
  BY <1>13 DEF M!ConnectFails
<1>14. ASSUME NEW w \in Workers, M!Install(w) PROVE M!SavedSecretsStay'
  BY <1>14 DEF M!Install
<1>15. ASSUME NEW w \in Workers, M!TestCloses(w) PROVE M!SavedSecretsStay'
  BY <1>15 DEF M!TestCloses
<1>16. ASSUME NEW w \in Workers, M!Disconnect(w) PROVE M!SavedSecretsStay'
  BY <1>16 DEF M!Disconnect
<1>17. ASSUME NEW w \in Workers, M!DeleteRow(w) PROVE M!SavedSecretsStay'
  BY <1>17 DEF M!DeleteRow
<1>18. ASSUME NEW w \in Workers, M!DeleteState(w) PROVE M!SavedSecretsStay'
  BY <1>18 DEF M!DeleteState
<1>19. ASSUME NEW w \in Workers, M!BeginMCPOAuth(w) PROVE M!SavedSecretsStay'
  BY <1>19 DEF M!BeginMCPOAuth
<1>20. ASSUME NEW w \in Workers, M!FlowStarts(w) PROVE M!SavedSecretsStay'
  BY <1>20 DEF M!FlowStarts
<1>21. ASSUME NEW w \in Workers, M!PublishURL(w) PROVE M!SavedSecretsStay'
  BY <1>21 DEF M!PublishURL
<1>22. ASSUME NEW w \in Workers, M!TokenReceived(w) PROVE M!SavedSecretsStay'
  BY <1>22 DEF M!TokenReceived
<1>23. ASSUME NEW w \in Workers, M!FlowFails(w) PROVE M!SavedSecretsStay'
  BY <1>23 DEF M!FlowFails
<1>24. ASSUME NEW w \in Workers, M!FlowError(w) PROVE M!SavedSecretsStay'
  BY <1>24 DEF M!FlowError
<1>25. ASSUME NEW w \in Workers, M!FlowConnected(w) PROVE M!SavedSecretsStay'
  BY <1>25 DEF M!FlowConnected
<1>26. ASSUME NEW w \in Workers, M!FlowChecks(w) PROVE M!SavedSecretsStay'
  BY <1>26 DEF M!FlowChecks
<1>27. ASSUME NEW w \in Workers, M!FlowInstalls(w) PROVE M!SavedSecretsStay'
  BY <1>27 DEF M!FlowInstalls
<1>28. ASSUME NEW w \in Workers, M!RemoveFlow(w) PROVE M!SavedSecretsStay'
  BY <1>28 DEF M!RemoveFlow
<1>29. ASSUME NEW w \in Workers, M!CallBack(w) PROVE M!SavedSecretsStay'
  BY <1>29 DEF M!CallBack
<1>30. ASSUME NEW w \in Workers, M!Refresh(w) PROVE M!SavedSecretsStay'
  BY <1>30 DEF M!Refresh
<1>31. ASSUME NEW w \in Workers, NEW asked \in M!Requests,
              M!Begin(w, asked) PROVE M!SavedSecretsStay'
  BY <1>31 DEF M!Begin
<1> QED
  BY <1>1, <1>2, <1>3, <1>4, <1>5, <1>6, <1>7, <1>8, <1>9, <1>10, <1>11, <1>12, <1>13, <1>14,
     <1>15, <1>16, <1>17, <1>18, <1>19, <1>20, <1>21, <1>22, <1>23, <1>24, <1>25, <1>26, <1>27,
     <1>28, <1>29, <1>30, <1>31, Zenon DEF M!Next, M!Step

\* A session that is replaced, refused or closed is not left open.
LEMMA ClientSessions ==
  ASSUME M!TypeOK, M!RequestInv, M!NoSessionForgotten, M!Next \/ UNCHANGED clientVars
  PROVE  M!NoSessionForgotten'
<1> USE ClientBounds DEF M!TypeOK, M!Goto, M!store, M!flows, M!SetRuntime, M!State, M!Gone,
    M!CancelFlow, M!Locked, M!ReadSecrets, M!UpdateSecrets, M!Unlock, M!NoRow, M!None,
    M!RequestInv, M!NoSessionForgotten, M!Flows
<1>1. CASE UNCHANGED clientVars
  BY <1>1 DEF clientVars
<1>2. ASSUME NEW w \in Workers, M!CancelBefore(w) PROVE M!NoSessionForgotten'
  BY <1>2 DEF M!CancelBefore
<1>3. ASSUME NEW w \in Workers, M!SetEnabled(w) PROVE M!NoSessionForgotten'
  BY <1>3 DEF M!SetEnabled
<1>4. ASSUME NEW w \in Workers, M!DeleteBegins(w) PROVE M!NoSessionForgotten'
  BY <1>4 DEF M!DeleteBegins
<1>5. ASSUME NEW w \in Workers, M!Lock(w) PROVE M!NoSessionForgotten'
  BY <1>5 DEF M!Lock
<1>6. ASSUME NEW w \in Workers, M!SaveWrites(w) PROVE M!NoSessionForgotten'
  BY <1>6 DEF M!SaveWrites
<1>7. ASSUME NEW w \in Workers, M!ClearWrites(w) PROVE M!NoSessionForgotten'
  BY <1>7 DEF M!ClearWrites
<1>8. ASSUME NEW w \in Workers, M!ClearCancels(w) PROVE M!NoSessionForgotten'
  BY <1>8 DEF M!ClearCancels
<1>9. ASSUME NEW w \in Workers, M!TokenWrites(w) PROVE M!NoSessionForgotten'
  BY <1>9 DEF M!TokenWrites
<1>10. ASSUME NEW w \in Workers, M!ReadRow(w) PROVE M!NoSessionForgotten'
  BY <1>10 DEF M!ReadRow
<1>11. ASSUME NEW w \in Workers, M!Swap(w) PROVE M!NoSessionForgotten'
  BY <1>11 DEF M!Swap
<1>12. ASSUME NEW w \in Workers, M!Connected(w) PROVE M!NoSessionForgotten'
  BY <1>12 DEF M!Connected
<1>13. ASSUME NEW w \in Workers, M!ConnectFails(w) PROVE M!NoSessionForgotten'
  BY <1>13 DEF M!ConnectFails
<1>14. ASSUME NEW w \in Workers, M!Install(w) PROVE M!NoSessionForgotten'
  BY <1>14 DEF M!Install
<1>15. ASSUME NEW w \in Workers, M!TestCloses(w) PROVE M!NoSessionForgotten'
  BY <1>15 DEF M!TestCloses
<1>16. ASSUME NEW w \in Workers, M!Disconnect(w) PROVE M!NoSessionForgotten'
  BY <1>16 DEF M!Disconnect
<1>17. ASSUME NEW w \in Workers, M!DeleteRow(w) PROVE M!NoSessionForgotten'
  BY <1>17 DEF M!DeleteRow
<1>18. ASSUME NEW w \in Workers, M!DeleteState(w) PROVE M!NoSessionForgotten'
  BY <1>18 DEF M!DeleteState
<1>19. ASSUME NEW w \in Workers, M!BeginMCPOAuth(w) PROVE M!NoSessionForgotten'
  BY <1>19 DEF M!BeginMCPOAuth
<1>20. ASSUME NEW w \in Workers, M!FlowStarts(w) PROVE M!NoSessionForgotten'
  BY <1>20 DEF M!FlowStarts
<1>21. ASSUME NEW w \in Workers, M!PublishURL(w) PROVE M!NoSessionForgotten'
  BY <1>21 DEF M!PublishURL
<1>22. ASSUME NEW w \in Workers, M!TokenReceived(w) PROVE M!NoSessionForgotten'
  BY <1>22 DEF M!TokenReceived
<1>23. ASSUME NEW w \in Workers, M!FlowFails(w) PROVE M!NoSessionForgotten'
  BY <1>23 DEF M!FlowFails
<1>24. ASSUME NEW w \in Workers, M!FlowError(w) PROVE M!NoSessionForgotten'
  BY <1>24 DEF M!FlowError
<1>25. ASSUME NEW w \in Workers, M!FlowConnected(w) PROVE M!NoSessionForgotten'
  BY <1>25 DEF M!FlowConnected
<1>26. ASSUME NEW w \in Workers, M!FlowChecks(w) PROVE M!NoSessionForgotten'
  BY <1>26 DEF M!FlowChecks
<1>27. ASSUME NEW w \in Workers, M!FlowInstalls(w) PROVE M!NoSessionForgotten'
  BY <1>27 DEF M!FlowInstalls
<1>28. ASSUME NEW w \in Workers, M!RemoveFlow(w) PROVE M!NoSessionForgotten'
  BY <1>28 DEF M!RemoveFlow
<1>29. ASSUME NEW w \in Workers, M!CallBack(w) PROVE M!NoSessionForgotten'
  BY <1>29 DEF M!CallBack
<1>30. ASSUME NEW w \in Workers, M!Refresh(w) PROVE M!NoSessionForgotten'
  BY <1>30 DEF M!Refresh
<1>31. ASSUME NEW w \in Workers, NEW asked \in M!Requests,
              M!Begin(w, asked) PROVE M!NoSessionForgotten'
  BY <1>31 DEF M!Begin
<1> QED
  BY <1>1, <1>2, <1>3, <1>4, <1>5, <1>6, <1>7, <1>8, <1>9, <1>10, <1>11, <1>12, <1>13, <1>14,
     <1>15, <1>16, <1>17, <1>18, <1>19, <1>20, <1>21, <1>22, <1>23, <1>24, <1>25, <1>26, <1>27,
     <1>28, <1>29, <1>30, <1>31, Zenon DEF M!Next, M!Step

\* A state that can be called back has its flow, and a newer flow has cancelled it
\* unless it is the server's own.
LEMMA ClientFlows ==
  ASSUME M!TypeOK, M!RequestInv, M!FlowInv, M!Next \/ UNCHANGED clientVars
  PROVE  M!FlowInv'
<1> USE ClientBounds DEF M!TypeOK, M!Goto, M!store, M!flows, M!SetRuntime, M!State, M!Gone,
    M!CancelFlow, M!Locked, M!ReadSecrets, M!UpdateSecrets, M!Unlock, M!NoRow, M!None,
    M!RequestInv, M!FlowInv, M!Flows
<1>1. CASE UNCHANGED clientVars
  BY <1>1 DEF clientVars
<1>2. ASSUME NEW w \in Workers, M!CancelBefore(w) PROVE M!FlowInv'
  BY <1>2 DEF M!CancelBefore
<1>3. ASSUME NEW w \in Workers, M!SetEnabled(w) PROVE M!FlowInv'
  BY <1>3 DEF M!SetEnabled
<1>4. ASSUME NEW w \in Workers, M!DeleteBegins(w) PROVE M!FlowInv'
  BY <1>4 DEF M!DeleteBegins
<1>5. ASSUME NEW w \in Workers, M!Lock(w) PROVE M!FlowInv'
  BY <1>5 DEF M!Lock
<1>6. ASSUME NEW w \in Workers, M!SaveWrites(w) PROVE M!FlowInv'
  BY <1>6 DEF M!SaveWrites
<1>7. ASSUME NEW w \in Workers, M!ClearWrites(w) PROVE M!FlowInv'
  BY <1>7 DEF M!ClearWrites
<1>8. ASSUME NEW w \in Workers, M!ClearCancels(w) PROVE M!FlowInv'
  BY <1>8 DEF M!ClearCancels
<1>9. ASSUME NEW w \in Workers, M!TokenWrites(w) PROVE M!FlowInv'
  BY <1>9 DEF M!TokenWrites
<1>10. ASSUME NEW w \in Workers, M!ReadRow(w) PROVE M!FlowInv'
  BY <1>10 DEF M!ReadRow
<1>11. ASSUME NEW w \in Workers, M!Swap(w) PROVE M!FlowInv'
  BY <1>11 DEF M!Swap
<1>12. ASSUME NEW w \in Workers, M!Connected(w) PROVE M!FlowInv'
  BY <1>12 DEF M!Connected
<1>13. ASSUME NEW w \in Workers, M!ConnectFails(w) PROVE M!FlowInv'
  BY <1>13 DEF M!ConnectFails
<1>14. ASSUME NEW w \in Workers, M!Install(w) PROVE M!FlowInv'
  BY <1>14 DEF M!Install
<1>15. ASSUME NEW w \in Workers, M!TestCloses(w) PROVE M!FlowInv'
  BY <1>15 DEF M!TestCloses
<1>16. ASSUME NEW w \in Workers, M!Disconnect(w) PROVE M!FlowInv'
  BY <1>16 DEF M!Disconnect
<1>17. ASSUME NEW w \in Workers, M!DeleteRow(w) PROVE M!FlowInv'
  BY <1>17 DEF M!DeleteRow
<1>18. ASSUME NEW w \in Workers, M!DeleteState(w) PROVE M!FlowInv'
  BY <1>18 DEF M!DeleteState
<1>19. ASSUME NEW w \in Workers, M!BeginMCPOAuth(w) PROVE M!FlowInv'
  BY <1>19 DEF M!BeginMCPOAuth
<1>20. ASSUME NEW w \in Workers, M!FlowStarts(w) PROVE M!FlowInv'
  BY <1>20 DEF M!FlowStarts
<1>21. ASSUME NEW w \in Workers, M!PublishURL(w) PROVE M!FlowInv'
  BY <1>21 DEF M!PublishURL
<1>22. ASSUME NEW w \in Workers, M!TokenReceived(w) PROVE M!FlowInv'
  BY <1>22 DEF M!TokenReceived
<1>23. ASSUME NEW w \in Workers, M!FlowFails(w) PROVE M!FlowInv'
  BY <1>23 DEF M!FlowFails
<1>24. ASSUME NEW w \in Workers, M!FlowError(w) PROVE M!FlowInv'
  BY <1>24 DEF M!FlowError
<1>25. ASSUME NEW w \in Workers, M!FlowConnected(w) PROVE M!FlowInv'
  BY <1>25 DEF M!FlowConnected
<1>26. ASSUME NEW w \in Workers, M!FlowChecks(w) PROVE M!FlowInv'
  BY <1>26 DEF M!FlowChecks
<1>27. ASSUME NEW w \in Workers, M!FlowInstalls(w) PROVE M!FlowInv'
  BY <1>27 DEF M!FlowInstalls
<1>28. ASSUME NEW w \in Workers, M!RemoveFlow(w) PROVE M!FlowInv'
  BY <1>28 DEF M!RemoveFlow
<1>29. ASSUME NEW w \in Workers, M!CallBack(w) PROVE M!FlowInv'
  BY <1>29 DEF M!CallBack
<1>30. ASSUME NEW w \in Workers, M!Refresh(w) PROVE M!FlowInv'
  BY <1>30 DEF M!Refresh
<1>31. ASSUME NEW w \in Workers, NEW asked \in M!Requests, M!Begin(w, asked) PROVE M!FlowInv'
  BY <1>31 DEF M!Begin
<1> QED
  BY <1>1, <1>2, <1>3, <1>4, <1>5, <1>6, <1>7, <1>8, <1>9, <1>10, <1>11, <1>12, <1>13, <1>14,
     <1>15, <1>16, <1>17, <1>18, <1>19, <1>20, <1>21, <1>22, <1>23, <1>24, <1>25, <1>26, <1>27,
     <1>28, <1>29, <1>30, <1>31, Zenon DEF M!Next, M!Step

\* The requests to the server start so.
LEMMA ClientStarts == M!Init => M!IInv
<1> SUFFICES ASSUME M!Init PROVE M!IInv
  OBVIOUS
<1> USE ClientBounds DEF M!Init, M!None, M!NoRow, M!State
<1>1. M!TypeOK
  <2>1. server \in M!Server
    BY DEF M!Server
  <2>2. read \in [Workers -> M!Server]
    BY DEF M!Server
  <2> QED
    BY <2>1, <2>2 DEF M!TypeOK, M!Requests, M!Pcs
<1>2. M!RequestInv /\ M!WriterInv /\ M!SavedSecretsStay
  BY DEF M!RequestInv, M!WriterInv, M!SavedSecretsStay
<1>3. M!NoSessionForgotten /\ M!FlowInv
  BY DEF M!NoSessionForgotten, M!FlowInv
<1> QED
  BY <1>1, <1>2, <1>3 DEF M!IInv

\* Every step of a request, a flow, a refresh and a callback keeps it.
LEMMA ClientStep == ASSUME M!IInv, M!Next \/ UNCHANGED clientVars PROVE M!IInv'
<1> USE DEF M!IInv
<1>1. M!TypeOK' /\ M!RequestInv' /\ M!WriterInv'
  BY ClientTyping, ClientRequests, ClientWriters
<1>2. M!SavedSecretsStay' /\ M!NoSessionForgotten' /\ M!FlowInv'
  BY ClientSecrets, ClientSessions, ClientFlows
<1> QED
  BY <1>1, <1>2

\* What the component states of its sessions and callbacks follows.
LEMMA ClientsHold ==
  ASSUME M!IInv
  PROVE  M!TypeOK /\ M!SavedSecretsStay /\ M!NoSessionForgotten /\ M!CallbacksReachFlows
BY DEF M!IInv, M!CallbacksReachFlows, M!FlowInv, M!Flows

-----------------------------------------------------------------------------
(* What the run states *)

\* A step of the run is one of a component or leaves that component alone.
LEMMA AgentMoves ==
  ASSUME [Next]_vars
  PROVE  /\ X!Next \/ UNCHANGED explanationVars
         /\ W!Next \/ UNCHANGED searchVars
         /\ M!Next \/ UNCHANGED clientVars
BY Zenon DEF Next, MoveTools, MoveClients, MoveExplanations, MoveSearches, MoveChat,
   MoveActivity, MoveTurn, vars

\* In every state the slots are held by the explanations that are under way, and whatever
\* works can be cancelled (service.go).
THEOREM ExplanationInvariance == Spec => []X!IInv
<1>1. Init => X!IInv
  BY ExplanationStarts DEF Init
<1>2. ASSUME X!IInv, [Next]_vars PROVE X!IInv'
  BY <1>2, AgentMoves, ExplanationStep
<1> QED
  BY <1>1, <1>2, PTL DEF Spec

\* Explanations keep to their limits and can be cancelled as long as they work, no retry
\* works on uncancelled once a decision has returned, and no review is written once the
\* approval is decided (service.go).
THEOREM ExplanationsStaySafe == Spec => ExplanationsSafe
<1>1. X!IInv => X!TypeOK /\ X!LimitsHold /\ X!WorkCanBeCancelled /\ X!NoRetryOutlivesDecision
  BY ExplanationsHold
<1>2. ASSUME X!IInv, [Next]_vars PROVE [X!WrittenWhilePending]_X!vars
  <2>1. X!WrittenWhilePending
    BY <1>2, AgentMoves, ExplanationWrites DEF X!IInv
  <2> QED
    BY <2>1
<1> QED
  BY <1>1, <1>2, ExplanationInvariance, PTL DEF Spec, ExplanationsSafe, X!LateReviewsAreDropped

\* In every state whoever waits for a web search waits for a flight that asks the same, and
\* the slots are held by the flights at the provider (websearch.go).
THEOREM SearchInvariance == Spec => []W!IInv
<1>1. Init => W!IInv
  BY SearchStarts DEF Init
<1>2. ASSUME W!IInv, [Next]_vars PROVE W!IInv'
  BY <1>2, AgentMoves, SearchStep
<1> QED
  BY <1>1, <1>2, PTL DEF Spec

\* In every state the locks of an MCP server are held by the requests that need them, and
\* its pending authorizations have their flows (mcp.go, mcp_oauth.go).
THEOREM ClientInvariance == Spec => []M!IInv
<1>1. Init => M!IInv
  BY ClientStarts DEF Init
<1>2. ASSUME M!IInv, [Next]_vars PROVE M!IInv'
  BY <1>2, AgentMoves, ClientStep
<1> QED
  BY <1>1, <1>2, PTL DEF Spec

\* No flow, refresh or clear writes older headers over saved ones, no session is forgotten
\* open except by a delete, a state can be called back only while its flow is there to take
\* it, callers who share a web search are not mixed up, and its slots come back (mcp.go,
\* mcp_oauth.go, websearch.go).
THEOREM OutsideCallsStaySafe == Spec => []OutsideCallsSafe
<1>1. M!IInv /\ W!IInv => OutsideCallsSafe
  BY ClientsHold DEF OutsideCallsSafe, W!IInv
<1> QED
  BY <1>1, ClientInvariance, SearchInvariance, PTL
=============================================================================
