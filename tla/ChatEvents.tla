----------------------------- MODULE ChatEvents -----------------------------
(***************************************************************************)
(* The event streams of one conversation: chatEventHub, which keeps the    *)
(* events of the run in progress for clients that reconnect, the driver of *)
(* Server.chat that publishes to it, the readers of chatEventsStream, and  *)
(* deleteChatSession, which takes the conversation and its stream away.    *)
(*                                                                         *)
(* Events carry the numbers 1, 2, ... of their stream; a stream that ended *)
(* is replaced by a fresh one at the next event.  What an event says is    *)
(* left out, but for whether it is terminal.                               *)
(***************************************************************************)
EXTENDS Naturals, Sequences

CONSTANTS
    Readers,      \* clients of GET /chat/{id}/events
    MaxRuns,      \* bound: drivers
    MaxEvents,    \* bound: events of one stream
    Buffer        \* chatEventSubscriberBuffer

VARIABLES
    row,                   \* chat_sessions has the conversation
    driver, runs,          \* Server.chat and chatQueue.sessions
    announcing,            \* a queued message whose event is not published yet
    exists, gen, count, ended,    \* hub.sessions[id]; gen tells streams apart
    channel, open,         \* a subscriber's channel; open while it is subscribed
    reader, replay, done, on,     \* chatEventsStream; on is the stream it reads
    cursor, cursorOf, seen,       \* its client: cursorOf is the stream the cursor and
                                  \* the numbers seen are of, 0 if of several
    deleter                       \* deleteChatSession

hub     == <<exists, gen, count, ended, channel, open>>
clients == <<reader, replay, done, on, cursor, cursorOf, seen>>
vars    == <<row, driver, runs, announcing, hub, clients, deleter>>

Init ==
    /\ row = TRUE /\ driver = "idle" /\ runs = 0 /\ announcing = FALSE
    /\ exists = FALSE /\ gen = 0 /\ count = 0 /\ ended = FALSE
    /\ channel = [r \in Readers |-> <<>>] /\ open = [r \in Readers |-> FALSE]
    /\ reader = [r \in Readers |-> "away"]
    /\ replay = [r \in Readers |-> <<>>] /\ done = [r \in Readers |-> FALSE]
    /\ on = [r \in Readers |-> 0]
    /\ cursor = [r \in Readers |-> 0] /\ cursorOf = [r \in Readers |-> 0]
    /\ seen = [r \in Readers |-> {}]
    /\ deleter = "idle"

-----------------------------------------------------------------------------
(* chatEventHub *)

Fresh == ~exists \/ ended
Full(r) == Len(channel[r]) >= Buffer

\* Mutant: an event that does not fit is dropped and the subscriber stays.
DeliverOrDrop(n, terminal) ==
    /\ channel' = [r \in Readers |->
                     IF open[r] /\ ~Full(r) THEN Append(channel[r], n) ELSE channel[r]]
    /\ open' = [r \in Readers |-> open[r] /\ ~terminal]

\* Mutant: a terminal event leaves the channels open.
DeliverOnly(n, terminal) ==
    /\ channel' = [r \in Readers |->
                     IF open[r] /\ ~Full(r) THEN Append(channel[r], n) ELSE channel[r]]
    /\ open' = [r \in Readers |-> open[r] /\ ~Full(r)]

\* A subscriber whose channel is full is cut off; it may come back for the rest.
Deliver(n, terminal) ==
    /\ channel' = [r \in Readers |->
                     IF open[r] /\ ~Full(r) THEN Append(channel[r], n) ELSE channel[r]]
    /\ open' = [r \in Readers |-> open[r] /\ ~Full(r) /\ ~terminal]

Publish(terminal) ==
    /\ Fresh \/ count < MaxEvents
    /\ exists' = TRUE
    /\ gen' = IF Fresh THEN gen + 1 ELSE gen
    /\ count' = IF Fresh THEN 1 ELSE count + 1
    /\ ended' = terminal
    /\ Deliver(count', terminal)

\* Mutant: the cursor itself is sent again.
MissedFrom(after) == after

\* The events of the stream behind the cursor.
Missed(after) == after + 1

Subscribe(r, after) ==
    LET current == IF exists THEN gen ELSE gen + 1
        events  == IF exists THEN count ELSE 0 IN
    /\ reader[r] = "away"
    /\ exists' = TRUE /\ gen' = current /\ count' = events
    /\ ended' = (exists /\ ended)
    /\ replay' = [replay EXCEPT ![r] = [i \in 1 .. (IF Missed(after) > events THEN 0
                                          ELSE events - Missed(after) + 1) |-> Missed(after) + i - 1]]
    /\ done' = [done EXCEPT ![r] = exists /\ ended]
    /\ open' = [open EXCEPT ![r] = ~(exists /\ ended)]
    /\ channel' = [channel EXCEPT ![r] = <<>>]
    /\ reader' = [reader EXCEPT ![r] = "replay"]
    /\ on' = [on EXCEPT ![r] = current]
    /\ cursor' = [cursor EXCEPT ![r] = after]
    /\ cursorOf' = [cursorOf EXCEPT ![r] = IF after = 0 THEN current ELSE @]
    /\ seen' = [seen EXCEPT ![r] = IF after = 0 THEN {} ELSE @]
    /\ UNCHANGED <<row, driver, runs, announcing, deleter>>

\* The client remembers the greatest number it was given, until its page is
\* reloaded or it sends a message of its own, when it starts at 0.
Reconnect(r) == \E after \in {0, cursor[r]} : Subscribe(r, after)

Got(r, n) ==
    /\ cursor' = [cursor EXCEPT ![r] = IF n > @ THEN n ELSE @]
    /\ cursorOf' = [cursorOf EXCEPT ![r] = IF on[r] = @ THEN @ ELSE 0]
    /\ seen' = [seen EXCEPT ![r] = @ \cup {n}]

ReplayNext(r) ==
    /\ reader[r] = "replay" /\ replay[r] # <<>>
    /\ Got(r, Head(replay[r]))
    /\ replay' = [replay EXCEPT ![r] = Tail(@)]
    /\ UNCHANGED <<row, driver, runs, announcing, hub, reader, done, on, deleter>>

Leave(r) ==
    /\ reader' = [reader EXCEPT ![r] = "away"]
    /\ open' = [open EXCEPT ![r] = FALSE]
    /\ channel' = [channel EXCEPT ![r] = <<>>]
    /\ replay' = [replay EXCEPT ![r] = <<>>]

\* After the replay a stream that ended, or of a conversation that is not
\* active, is not waited for.
Replayed(r) ==
    /\ reader[r] = "replay" /\ replay[r] = <<>>
    /\ IF done[r] \/ driver \in {"idle", "prepared"}
         THEN Leave(r)
         ELSE reader' = [reader EXCEPT ![r] = "live"] /\ UNCHANGED <<open, channel, replay>>
    /\ UNCHANGED <<row, driver, runs, announcing, exists, gen, count, ended, done, on,
                   cursor, cursorOf, seen, deleter>>

Receive(r) ==
    /\ reader[r] = "live" /\ channel[r] # <<>>
    /\ Got(r, Head(channel[r]))
    /\ channel' = [channel EXCEPT ![r] = Tail(@)]
    /\ UNCHANGED <<row, driver, runs, announcing, exists, gen, count, ended, open, reader,
                   replay, done, on, deleter>>

ChannelClosed(r) ==
    /\ reader[r] = "live" /\ channel[r] = <<>> /\ ~open[r]
    /\ Leave(r)
    /\ UNCHANGED <<row, driver, runs, announcing, exists, gen, count, ended, done, on,
                   cursor, cursorOf, seen, deleter>>

\* The browser or the network goes away.
Disconnect(r) ==
    /\ reader[r] # "away"
    /\ Leave(r)
    /\ UNCHANGED <<row, driver, runs, announcing, exists, gen, count, ended, done, on,
                   cursor, cursorOf, seen, deleter>>

-----------------------------------------------------------------------------
(* Server.chat, queueChatMessage and deleteChatSession *)

PrepareChatSession ==
    /\ driver = "idle" /\ runs < MaxRuns
    /\ driver' = "prepared" /\ runs' = runs + 1 /\ row' = TRUE
    /\ UNCHANGED <<announcing, hub, clients, deleter>>

Begin ==
    /\ driver = "prepared" /\ driver' = "begun"
    /\ UNCHANGED <<row, runs, announcing, hub, clients, deleter>>

Emit ==
    /\ driver \in {"begun", "started"} /\ driver' = "started"
    /\ Publish(FALSE)
    /\ UNCHANGED <<row, runs, announcing, clients, deleter>>

\* done, model_error or interrupted.
EmitTerminal ==
    /\ driver = "started" /\ driver' = "ended"
    /\ Publish(TRUE)
    /\ UNCHANGED <<row, runs, announcing, clients, deleter>>

\* A run that fails before its first event tells only its own requester.
FailsUnstarted ==
    /\ driver = "begun" /\ driver' = "ended"
    /\ UNCHANGED <<row, runs, announcing, hub, clients, deleter>>

Finish ==
    /\ driver = "ended" /\ driver' = "idle"
    /\ UNCHANGED <<row, runs, announcing, hub, clients, deleter>>

Enqueue ==
    /\ driver \in {"begun", "started"} /\ ~announcing
    /\ announcing' = TRUE
    /\ UNCHANGED <<row, driver, runs, hub, clients, deleter>>

\* The event of a queued message may come when its run is already over.
Announce ==
    /\ announcing /\ announcing' = FALSE
    /\ Publish(FALSE)
    /\ UNCHANGED <<row, driver, runs, clients, deleter>>

DeleteBegins ==
    /\ deleter = "idle" /\ driver \in {"idle", "prepared"} /\ row
    /\ deleter' = "checked"
    /\ UNCHANGED <<row, driver, runs, announcing, hub, clients>>

DeleteRow ==
    /\ deleter = "checked" /\ row
    /\ row' = FALSE /\ deleter' = "deleted"
    /\ UNCHANGED <<driver, runs, announcing, hub, clients>>

\* Mutant: the stream is forgotten and its subscribers are not told.
ForgetStream ==
    /\ exists' = FALSE /\ count' = 0 /\ ended' = FALSE
    /\ UNCHANGED <<gen, channel, open>>

DeleteStream ==
    /\ exists' = FALSE /\ count' = 0 /\ ended' = FALSE
    /\ open' = [r \in Readers |-> FALSE]
    /\ UNCHANGED <<gen, channel>>

DeleteEvents ==
    /\ deleter = "deleted" /\ deleter' = "idle"
    /\ DeleteStream
    /\ UNCHANGED <<row, driver, runs, announcing, clients>>

Next ==
    \/ PrepareChatSession \/ Begin \/ Emit \/ EmitTerminal \/ FailsUnstarted \/ Finish
    \/ Enqueue \/ Announce
    \/ DeleteBegins \/ DeleteRow \/ DeleteEvents
    \/ \E r \in Readers : \/ Reconnect(r) \/ ReplayNext(r) \/ Replayed(r)
                          \/ Receive(r) \/ ChannelClosed(r) \/ Disconnect(r)

\* The handler goroutines run; clients, runs and deletions owe nothing.
Fair ==
    \A r \in Readers : /\ WF_vars(ReplayNext(r)) /\ WF_vars(Replayed(r))
                       /\ WF_vars(Receive(r)) /\ WF_vars(ChannelClosed(r))

Spec     == Init /\ [][Next]_vars
FairSpec == Spec /\ Fair

-----------------------------------------------------------------------------
Number == 1 .. MaxEvents     \* of an event

TypeOK ==
    /\ row \in BOOLEAN /\ announcing \in BOOLEAN /\ exists \in BOOLEAN /\ ended \in BOOLEAN
    /\ driver \in {"idle", "prepared", "begun", "started", "ended"}
    /\ gen \in Nat /\ count \in 0 .. MaxEvents /\ runs \in 0 .. MaxRuns
    /\ channel \in [Readers -> Seq(Number)] /\ open \in [Readers -> BOOLEAN]
    /\ reader \in [Readers -> {"away", "replay", "live"}]
    /\ replay \in [Readers -> Seq(Number)] /\ done \in [Readers -> BOOLEAN]
    /\ on \in [Readers -> Nat] /\ cursorOf \in [Readers -> Nat]
    /\ cursor \in [Readers -> 0 .. MaxEvents] /\ seen \in [Readers -> SUBSET Number]
    /\ deleter \in {"idle", "checked", "deleted"}

(* A client that joins at the beginning, or comes back with a cursor of    *)
(* the stream it is given, has been told of every event up to its cursor   *)
(* and of none beyond, whether it came by replay or live, was cut off for  *)
(* being slow, or reconnected in between.                                  *)
SubscribersMissNothing ==
    \A r \in Readers : on[r] = cursorOf[r] => seen[r] = 1 .. cursor[r]

(* What is still to be sent to a client continues where its cursor stands: *)
(* no event twice and none left out between the replay and the channel.    *)
HandOffIsSeamless ==
    \A r \in Readers : reader[r] # "away" /\ on[r] = cursorOf[r] =>
        LET rest == replay[r] \o channel[r] IN
        /\ \A i \in 1 .. Len(rest) : rest[i] = cursor[r] + i
        /\ open[r] => cursor[r] + Len(rest) = count

(* A client does not wait on a stream that has ended, that was replaced or *)
(* whose conversation was deleted: its connection is closed.               *)
EndedStreamsLetGo ==
    \A r \in Readers :
        []<>(reader[r] = "live" => on[r] = gen /\ ~ended /\ exists)

(* An active conversation is not deleted.  It can be: the driver may begin *)
(* between the check and the deletion.                                     *)
ActiveIsNotDeleted == driver \in {"begun", "started"} => row

(* A client waits only while the conversation is active.                   *)
NobodyWaitsForNothing ==
    \A r \in Readers : (reader[r] = "live" /\ driver = "idle") ~> (reader[r] # "live" \/ driver # "idle")

-----------------------------------------------------------------------------
(* The inductive invariant *)

\* Who is subscribed reads the stream that is there, and streams only get newer.
StreamInv ==
    /\ exists => gen > 0
    /\ \A r \in Readers :
        /\ on[r] <= gen /\ cursorOf[r] <= on[r]
        /\ reader[r] = "away" => ~open[r] /\ replay[r] = <<>> /\ channel[r] = <<>>
        /\ reader[r] # "away" => on[r] > 0
        /\ reader[r] = "live" => replay[r] = <<>>
        /\ open[r] => exists /\ ~ended /\ on[r] = gen

\* The sequence continues after number n.
Follows(events, n) == \A i \in 1 .. Len(events) : events[i] = n + i

\* What is still to be sent follows the cursor without a gap, and up to the last
\* event as long as the channel is open; no cursor is ahead of its stream.
CursorInv ==
    \A r \in Readers : on[r] = cursorOf[r] =>
        LET sent == cursor[r] + Len(replay[r]) + Len(channel[r]) IN
        /\ Follows(replay[r], cursor[r])
        /\ Follows(channel[r], cursor[r] + Len(replay[r]))
        /\ exists /\ on[r] = gen => sent <= count
        /\ open[r] => sent = count

IInv == TypeOK /\ SubscribersMissNothing /\ StreamInv /\ CursorInv
=============================================================================
