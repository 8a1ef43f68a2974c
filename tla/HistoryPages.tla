--------------------------- MODULE HistoryPages ---------------------------
(***************************************************************************)
(* The tables that are read page by page with a cursor: runs, by literal   *)
(* text and by regular expression, audit events and chat messages          *)
(* (internal/store/store.go; ReadHistoryTool in internal/agent/tools.go).  *)
(* Rows are added and deleted between two pages.                           *)
(*                                                                         *)
(* Instants are kept as RFC3339Nano text, which drops trailing zeros, and  *)
(* are compared as text.  An instant is a number of quarters of a second:  *)
(* its fraction has two binary digits.                                     *)
(***************************************************************************)
EXTENDS Naturals, FiniteSets, Sequences, SequencesExt

CONSTANTS
    Ids,            \* ids of rows; ids are random, so they tell nothing of time
    MaxTime,        \* bound on the clock, in quarters of a second
    PageLimit,      \* the caller's limit
    ScanLimit       \* historyRegexScanLimit

VARIABLES
    rows,           \* the table
    now,            \* the clock
    reader,         \* a caller that follows the cursor page by page
    base,           \* history: the rows the reader's filter selects at its start
    seen            \* history: the rows of the pages so far

vars == <<rows, now, reader, base, seen>>

Times == 0..MaxTime
NoTime == MaxTime + 1

Row == [id : Ids, at : Times, hit : BOOLEAN]
NoCursor == [at |-> NoTime, id |-> NoTime]
Kinds == {"literal", "regex", "audit", "chat"}

---------------------------------------------------------------------------
(* Time as text.                                                           *)

\* The characters of a time stamp, in their order: "." < digits < "Z".
Dot == 0
Digit(d) == 1 + d
Zulu == 9

\* formatTime: time.RFC3339Nano, the digits of the fraction without its
\* trailing zeros, and no fraction at all when it is zero.
Stored(t) ==
    LET high == (t % 4) \div 2
        low == t % 2
    IN <<Digit(t \div 4)>> \o
       (CASE low = 1 -> <<Dot, Digit(high), Digit(low)>>
          [] low = 0 /\ high = 1 -> <<Dot, Digit(high)>>
          [] OTHER -> <<>>) \o <<Zulu>>

\* Comparison of TEXT columns, character by character.
TextLess(a, b) ==
    \E k \in 1..Len(a) :
        /\ k <= Len(b)
        /\ a[k] < b[k]
        /\ \A j \in 1..(k - 1) : a[j] = b[j]

BeforeTimeOnly(r, c) == TextLess(Stored(r.at), Stored(c.at))

\* The cursor condition: created_at<? OR (created_at=? AND id<?).
Before(r, c) ==
    \/ TextLess(Stored(r.at), Stored(c.at))
    \/ r.at = c.at /\ r.id < c.id

\* ORDER BY started_at DESC,id DESC.
NewestFirst(S) == SetToSortSeq(S, LAMBDA a, b : Before(b, a))

\* runSearchWhere: filters and cursor; the regular expression is no part of it.
Matches(r, q) ==
    /\ q.after # NoTime => ~TextLess(Stored(r.at), Stored(q.after))
    /\ q.before # NoTime => ~TextLess(Stored(q.before), Stored(r.at))
    /\ q.kind = "literal" => r.hit
    /\ q.cursor # NoCursor => Before(r, q.cursor)

Selected(q) == {r \in rows : Matches(r, q) /\ (q.kind = "regex" => r.hit)}

---------------------------------------------------------------------------
(* Pages.  One more row than the limit is read to know whether more follow. *)

Key(r) == [at |-> r.at, id |-> r.id]

\* SearchRunSummariesFilteredPage, ListAuditPage and ListChatMessagesPage.
PlainPage(q) ==
    LET found == NewestFirst({r \in rows : Matches(r, q)})
        more == Len(found) > PageLimit
        page == IF more THEN SubSeq(found, 1, PageLimit) ELSE found
    IN [rows |-> page, next |-> IF more THEN Key(page[PageLimit]) ELSE NoCursor]

\* SearchRunSummariesRegexFilteredPage: at most ScanLimit candidates are
\* looked at; the cursor then stands at the last one inspected.
RegexPage(q) ==
    LET all == NewestFirst({r \in rows : Matches(r, q)})
        scanned == SubSeq(all, 1, IF Len(all) < ScanLimit THEN Len(all) ELSE ScanLimit)
        hits == SelectSeq(scanned, LAMBDA r : r.hit)
    IN CASE Len(hits) > PageLimit ->
                [rows |-> SubSeq(hits, 1, PageLimit), next |-> Key(hits[PageLimit])]
         [] Len(hits) <= PageLimit /\ Len(all) > ScanLimit ->
                [rows |-> hits, next |-> Key(Last(scanned))]
         [] OTHER -> [rows |-> hits, next |-> NoCursor]

PageOf(q) == IF q.kind = "regex" THEN RegexPage(q) ELSE PlainPage(q)

\* ListChatMessagesPage looks the cursor's message up first.
CursorGone(q) ==
    /\ q.kind = "chat"
    /\ q.cursor # NoCursor
    /\ ~\E r \in rows : Key(r) = q.cursor

---------------------------------------------------------------------------
Init ==
    /\ rows = {}
    /\ now = 0
    /\ reader = [pc |-> "idle", kind |-> "literal", after |-> NoTime, before |-> NoTime,
                 cursor |-> NoCursor]
    /\ base = {}
    /\ seen = <<>>

Tick ==
    /\ now < MaxTime
    /\ now' = now + 1
    /\ UNCHANGED <<rows, reader, base, seen>>

\* CreateRun, AppendAudit, appendChatMessageWithAttachmentsID.  The id is new:
\* it may be one that nothing remembers.
Add ==
    /\ \E i \in Ids, h \in BOOLEAN :
        /\ \A r \in rows \cup base : r.id # i
        /\ i # reader.cursor.id
        /\ \A k \in 1..Len(seen) : seen[k].id # i
        /\ rows' = rows \cup {[id |-> i, at |-> now, hit |-> h]}
    /\ UNCHANGED <<now, reader, base, seen>>

\* DeleteAuditRuns removes the finished runs of its scope with their events,
\* PruneChatTurns and DeleteChatSession remove messages: any rows may go.
Delete ==
    /\ \E gone \in SUBSET rows : gone # {} /\ rows' = rows \ gone
    /\ UNCHANGED <<now, reader, base, seen>>

\* ReadHistoryTool and the audit and chat handlers: only runs have a range.
Ask ==
    /\ reader.pc = "idle"
    /\ \E k \in Kinds, a, b \in Times \cup {NoTime} :
        /\ k \in {"audit", "chat"} => a = NoTime /\ b = NoTime
        /\ a # NoTime /\ b # NoTime => a <= b
        /\ LET q == [pc |-> "reading", kind |-> k, after |-> a, before |-> b,
                     cursor |-> NoCursor]
           IN /\ reader' = q
              /\ base' = {Key(r) : r \in Selected(q)}
    /\ UNCHANGED <<rows, now, seen>>

ReadPage ==
    /\ reader.pc = "reading"
    /\ ~CursorGone(reader)
    /\ LET page == PageOf(reader) IN
        /\ seen' = seen \o [k \in 1..Len(page.rows) |-> Key(page.rows[k])]
        /\ reader' = [reader EXCEPT !.cursor = page.next,
                                    !.pc = IF page.next = NoCursor THEN "done" ELSE "reading"]
    /\ UNCHANGED <<rows, now, base>>

CursorNotFound ==
    /\ reader.pc = "reading"
    /\ CursorGone(reader)
    /\ reader' = [reader EXCEPT !.pc = "gone"]
    /\ UNCHANGED <<rows, now, base, seen>>

Next == Tick \/ Add \/ Delete \/ Ask \/ ReadPage \/ CursorNotFound

Spec == Init /\ [][Next]_vars

---------------------------------------------------------------------------
\* Type invariant of the table, the clock and the reader.
TypeOK ==
    /\ rows \subseteq Row
    /\ now \in Times
    /\ reader.pc \in {"idle", "reading", "done", "gone"} /\ reader.kind \in Kinds
    /\ \A k \in 1..Len(seen) : seen[k].id \in Ids

\* A caller that follows the cursor never gets a row twice, whatever is
\* added or deleted between its pages.
NoRowTwice == \A i, j \in 1..Len(seen) : i # j => seen[i].id # seen[j].id

\* ... and when the last page has come, it has got every row its filter
\* selected at the start that is still there: rows of equal time, rows behind
\* the scan limit and rows around deleted ones included.
PagesAreComplete ==
    reader.pc = "done" =>
        \A k \in base : (\E r \in rows : Key(r) = k) => \E i \in 1..Len(seen) : seen[i] = k

---------------------------------------------------------------------------
\* internal/agent/tools.go:441 describes started_after as an inclusive bound:
\* a run that began at or after it is selected.  Text is not compared that
\* way: "10:00:00.5Z" comes before "10:00:00Z".
LowerBoundIsInclusive ==
    reader.pc = "reading" /\ reader.cursor = NoCursor /\ reader.kind = "literal" =>
        \A r \in rows : r.hit /\ r.at >= reader.after /\ reader.before = NoTime
                            => Matches(r, reader)
=============================================================================
