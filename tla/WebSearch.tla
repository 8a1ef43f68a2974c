----------------------------- MODULE WebSearch -----------------------------
(***************************************************************************)
(* Requests to the web search provider.  Equal requests under equal settings *)
(* share one flight (singleflight.DoChan), a flight waits for one of a few    *)
(* slots, asks at most twice, and lives on its own deadline: a caller that    *)
(* leaves does not end it.                                                   *)
(***************************************************************************)
EXTENDS Integers, FiniteSets

CONSTANTS Callers, Queries, Slots, MaxFlights, MaxSaves   \* Slots is webSem's; the last two are bounds

NoKey == "none"
Ids == 1 .. MaxFlights
Settings == [address : {"a", "b"}, apiKey : {NoKey, "old", "new"}, enabled : BOOLEAN]

VARIABLES
    settings,       \* the stored row
    saver, saves,   \* the cipher a save read; bound on saves
    flight,         \* the flights in the air: their key, where they are, their attempt
    slots,          \* the flights that hold a slot
    caller          \* per caller: where it is, what it asked, its flight, its answer

vars == <<settings, saver, saves, flight, slots, caller>>

Landed == [pc |-> "landed"]
Home == [pc |-> "home"]

Init ==
    /\ settings = [address |-> "a", apiKey |-> "old", enabled |-> TRUE]
    /\ saver = [pc |-> "idle"] /\ saves = 0
    /\ flight = [i \in Ids |-> Landed] /\ slots = {}
    /\ caller = [c \in Callers |-> Home]

\* SaveWebSearchSettings: the key comes from the row read before, unless the
\* input clears or replaces it; enabling needs one.
SaveReads ==
    /\ saver.pc = "idle" /\ saves < MaxSaves
    /\ saver' = [pc |-> "read", apiKey |-> settings.apiKey]
    /\ UNCHANGED <<settings, saves, flight, slots, caller>>

AcceptedOf(row) == row.enabled => settings.apiKey # NoKey
Accepted(row) == row.enabled => row.apiKey # NoKey

SaveWrites ==
    /\ saver.pc = "read" /\ saver' = [pc |-> "idle"] /\ saves' = saves + 1
    /\ \E row \in Settings :
          /\ row.apiKey \in {saver.apiKey, NoKey, "new"}
          /\ settings' = IF Accepted(row) THEN row ELSE settings
    /\ UNCHANGED <<flight, slots, caller>>

\* SearchWeb and ExtractWeb: resolveWebSearchSettings refuses when disabled;
\* the settings read here are the ones the request is sent under.
Resolve(c) == \E query \in Queries :
    /\ caller[c].pc = "home" /\ settings.enabled /\ settings.apiKey # NoKey
    /\ caller' = [caller EXCEPT ![c] =
           [pc |-> "resolved", key |-> <<settings.address, settings.apiKey, query>>]]
    /\ UNCHANGED <<settings, saver, saves, flight, slots>>

\* The digest requestTavily groups by.
KeyOfQuery(key) == key[3]
RequestKey(key) == key

InAir(i) == flight[i].pc # "landed"
Shared(c) == {i \in Ids : InAir(i) /\ RequestKey(flight[i].key) = RequestKey(caller[c].key)}

\* requestTavily: join the flight of this key or start one.
Join(c, i) == caller' = [caller EXCEPT ![c] = [pc |-> "waiting", key |-> @.key, flight |-> i]]
Request(c) ==
    /\ caller[c].pc = "resolved"
    /\ \/ \E i \in Shared(c) : Join(c, i) /\ UNCHANGED flight
       \/ /\ Shared(c) = {}
          /\ \E i \in Ids :
                /\ ~InAir(i) /\ \A j \in Ids : ~InAir(j) => i <= j
                /\ flight' = [flight EXCEPT ![i] = [pc |-> "queued", key |-> caller[c].key, attempt |-> 0]]
                /\ Join(c, i)
    /\ UNCHANGED <<settings, saver, saves, slots>>

\* A caller's context ends; its flight goes on.
Leave(c) ==
    /\ caller[c].pc = "waiting" /\ caller' = [caller EXCEPT ![c] = Home]
    /\ UNCHANGED <<settings, saver, saves, flight, slots>>

Goto(i, from, to) == flight[i].pc = from /\ flight' = [flight EXCEPT ![i].pc = to]

TakeSlot(i) ==
    /\ Cardinality(slots) < Slots /\ slots' = slots \cup {i}
    /\ Goto(i, "queued", "asking")
    /\ UNCHANGED <<settings, saver, saves, caller>>

\* What a request meets, and what classifyTavilyStatus and requestTavilyRaw
\* take for worth another try: a long Retry-After is not.
Outcomes == {"ok", "refused", "4xx", "quota", "429", "429 later", "408", "5xx", "5xx later", "unreadable"}
Retryable(outcome) == outcome \in {"refused", "429", "408", "5xx"}

Answered(i) == \E outcome \in Outcomes :
    /\ flight[i].pc = "asking"
    /\ Goto(i, "asking", IF outcome = "ok" THEN "ok"
                         ELSE IF Retryable(outcome) /\ flight[i].attempt = 0 THEN "delay" ELSE "failed")
    /\ UNCHANGED <<settings, saver, saves, slots, caller>>

Retry(i) ==
    /\ flight[i].pc = "delay"
    /\ flight' = [flight EXCEPT ![i].pc = "asking", ![i].attempt = @ + 1]
    /\ UNCHANGED <<settings, saver, saves, slots, caller>>

\* The flight's own deadline: while queued, while asking, in the delay.
DeadlineOfRequest(i) ==
    /\ flight[i].pc \in {"asking", "delay"}
    /\ flight' = [flight EXCEPT ![i].pc = "failed"]
    /\ UNCHANGED <<settings, saver, saves, slots, caller>>
Deadline(i) ==
    /\ flight[i].pc \in {"queued", "asking", "delay"}
    /\ flight' = [flight EXCEPT ![i].pc = "failed"]
    /\ UNCHANGED <<settings, saver, saves, slots, caller>>

\* The flight returns: its slot is released, its key forgotten, and its
\* outcome sent to everyone who joined and still waits.
Land(i) ==
    /\ flight[i].pc \in {"ok", "failed"}
    /\ flight' = [flight EXCEPT ![i] = Landed] /\ slots' = slots \ {i}
    /\ caller' = [c \in Callers |->
           IF caller[c].pc = "waiting" /\ caller[c].flight = i
           THEN [pc |-> "answered", key |-> caller[c].key, of |-> flight[i].key, ok |-> flight[i].pc = "ok"]
           ELSE caller[c]]
    /\ UNCHANGED <<settings, saver, saves>>

Return(c) ==
    /\ caller[c].pc = "answered" /\ caller' = [caller EXCEPT ![c] = Home]
    /\ UNCHANGED <<settings, saver, saves, flight, slots>>

Next ==
    \/ SaveReads \/ SaveWrites
    \/ \E c \in Callers : Resolve(c) \/ Request(c) \/ Leave(c) \/ Return(c)
    \/ \E i \in Ids : TakeSlot(i) \/ Answered(i) \/ Retry(i) \/ Deadline(i) \/ Land(i)

\* A flight's timers fire and its goroutine returns; nothing grants a slot.
Fair ==
    \A i \in Ids : WF_vars(Deadline(i)) /\ WF_vars(Land(i))

Spec == Init /\ [][Next]_vars
FairSpec == Spec /\ Fair

-----------------------------------------------------------------------------
Keys == {"a", "b"} \X {"old", "new"} \X Queries
Flight == [pc : {"queued", "asking", "delay", "ok", "failed"}, key : Keys, attempt : 0 .. 1]
Caller ==
    [pc : {"resolved"}, key : Keys] \cup [pc : {"waiting"}, key : Keys, flight : Ids]
        \cup [pc : {"answered"}, key : Keys, of : Keys, ok : BOOLEAN]

\* The values of every variable.
TypeOK ==
    /\ settings \in Settings /\ saves \in 0 .. MaxSaves /\ slots \subseteq Ids
    /\ saver \in [pc : {"idle"}] \cup [pc : {"read"}, apiKey : {NoKey, "old", "new"}]
    /\ flight \in [Ids -> {Landed} \cup Flight]
    /\ caller \in [Callers -> {Home} \cup Caller]

\* Nothing is asked twice at the same time: flights in the air differ in
\* their request or in the settings it is sent under.
OneFlightPerRequest ==
    \A i, j \in Ids : InAir(i) /\ InAir(j) /\ i # j => flight[i].key # flight[j].key

\* Whoever waits waits for a flight in the air that asks what it asked.
WaitersInv ==
    \A c \in Callers : caller[c].pc = "waiting" =>
        InAir(caller[c].flight) /\ flight[caller[c].flight].key = caller[c].key

\* Whoever is answered is answered with what it asked, under the address and
\* the key it read: a save in between does not redirect it.
AnswersAreOwn == \A c \in Callers : caller[c].pc = "answered" => caller[c].of = caller[c].key

\* Only flights at the provider hold a slot, and no more than there are.
HoldersInv ==
    \A i \in Ids : /\ flight[i].pc \in {"asking", "delay"} => i \in slots
                  /\ i \in slots => flight[i].pc \in {"asking", "delay", "ok", "failed"}
SlotsComeBack == Cardinality(slots) <= Slots /\ HoldersInv

\* The tool is never enabled without a key, whatever save came in between.
EnabledHasKey == settings.enabled => settings.apiKey # NoKey

\* What bounds the saves and the attempts.
CountsInv ==
    /\ saver.pc = "read" => saves < MaxSaves
    /\ \A i \in Ids : flight[i].pc = "delay" => flight[i].attempt = 0

\* The inductive invariant.
IInv ==
    /\ TypeOK /\ OneFlightPerRequest /\ WaitersInv /\ AnswersAreOwn /\ CountsInv
    /\ IsFiniteSet(slots) /\ SlotsComeBack /\ EnabledHasKey

\* Every caller that waits gets an answer or left by itself, however long
\* the slots are taken.
CallersAreAnswered == \A c \in Callers : []<>(caller[c].pc # "waiting")
=============================================================================
