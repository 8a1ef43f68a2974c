------------------------------ MODULE LogFeed ------------------------------
(***************************************************************************)
(* The recent log entries a page shows: the ring observability.Buffer, the *)
(* newest entries that pass a filter (Recent), and applicationLogUpdate,   *)
(* which sends only what is newer than the last list's first entry, or the *)
(* whole list when that entry is gone.                                     *)
(***************************************************************************)
EXTENDS Naturals, Sequences, SequencesExt, FiniteSetsExt

CONSTANTS
    Size,          \* recent_limit: entries of the ring
    Limit,         \* limit of the page's request
    ClientLimit,   \* entries the page keeps
    MaxEntries,    \* bound: entries logged
    MaxFilters     \* bound: subscriptions

NoList == <<0>>      \* no list sent yet

VARIABLES
    entries, start, logged,    \* the ring; logged: the class of every entry so far
    filter,                    \* the class a subscription asks for; "all": any
    previous, payload,         \* previousLogs and the topic's last full payload
    shown, filters             \* what the page shows

vars == <<entries, start, logged, filter, previous, payload, shown, filters>>

Init ==
    /\ entries = <<>> /\ start = 0 /\ logged = <<>>
    /\ filter = "all" /\ previous = NoList /\ payload = NoList
    /\ shown = <<>> /\ filters = 0

-----------------------------------------------------------------------------
\* Mutant: an entry that replaces another leaves the start of the ring.
StartStays == start

\* Buffer.add: in a full ring the oldest entry is replaced.
StartAfter == (start + 1) % Size

Log(class) ==
    /\ Len(logged) < MaxEntries
    /\ logged' = Append(logged, class)
    /\ IF Len(entries) = Size
         THEN entries' = [entries EXCEPT ![start + 1] = Len(logged')] /\ start' = StartAfter
         ELSE entries' = Append(entries, Len(logged')) /\ UNCHANGED start
    /\ UNCHANGED <<filter, previous, payload, shown, filters>>

\* Buffer.recent: from the newest backwards, those that pass, at most Limit.
Newest(i) == entries[((start + Len(entries) - i) % Len(entries)) + 1]

Recent ==
    LET backwards == [i \in 1..Len(entries) |-> Newest(i)]
        passing   == SelectSeq(backwards, LAMBDA e : filter \in {"all", logged[e]})
    IN  SubSeq(passing, 1, Min({Limit, Len(passing)}))

\* applicationLogUpdate: the entries that are new since the previous list's
\* first, or the whole list when that is not found.
Position == SelectInSeq(Recent, LAMBDA e : previous # <<>> /\ e = previous[1])

Subscribe(f) ==
    /\ filters < MaxFilters /\ filters' = filters + 1
    /\ filter' = f /\ previous' = NoList /\ payload' = NoList
    /\ UNCHANGED <<entries, start, logged, shown>>

Kept(s) == SubSeq(s, 1, Min({ClientLimit, Len(s)}))

\* Mutant: a list whose first entry is gone is sent as news.
NewsIfAny == IF Position = 0 THEN Recent ELSE SubSeq(Recent, 1, Position - 1)

News == IF Position = 0 THEN <<>> ELSE SubSeq(Recent, 1, Position - 1)

\* A tick of the connection, and the page that takes the update over.
Tick ==
    /\ previous' = Recent /\ payload' = Recent
    /\ shown' = IF previous # NoList /\ previous # <<>> /\ News # <<>>
                  THEN Kept(News \o shown)
                  ELSE IF Recent # payload THEN Recent ELSE shown
    /\ UNCHANGED <<entries, start, logged, filter, filters>>

Next == (\E class \in {"info", "error"} : Log(class)) \/ (\E f \in {"all", "error"} : Subscribe(f)) \/ Tick

Spec == Init /\ [][Next]_vars

-----------------------------------------------------------------------------
TypeOK ==
    /\ entries \in Seq(1..MaxEntries) /\ Len(entries) <= Size /\ start \in 0..Size - 1
    /\ filter \in {"all", "error"}

(* After a tick the page shows the newest entries that pass its filter,    *)
(* newest first: what it keeps begins with the server's list, with entries *)
(* after it that have left the ring since, and nothing missing in between. *)
(* (The list is the reference definition: the last entries logged, of      *)
(* those still in the ring.)                                               *)
PageShowsRecent ==
    LET kept    == [i \in 1..Min({Size, Len(logged)}) |-> Len(logged) + 1 - i]
        passing == SelectSeq(kept, LAMBDA e : filter \in {"all", logged[e]})
        recent  == SubSeq(passing, 1, Min({Limit, Len(passing)}))
    IN  /\ Recent = recent
        /\ previous = recent =>
              /\ IsPrefix(Kept(recent), Kept(shown))
              /\ \A i \in 1..Len(shown) - 1 :
                    /\ shown[i] > shown[i + 1]
                    /\ \A e \in shown[i + 1] + 1..shown[i] - 1 : filter \notin {"all", logged[e]}
=============================================================================
