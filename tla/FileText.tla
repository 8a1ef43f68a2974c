------------------------------- MODULE FileText -------------------------------
(***************************************************************************)
(* What is computed on the bytes of a file: the edit of one block of lines, *)
(* by the program itself (Workspace) and by the script it sends to a host,  *)
(* pages and tails of a file, a search with context, and the lines of a     *)
(* process's output as they are streamed.  A byte-order mark is one byte.   *)
(***************************************************************************)
EXTENDS Integers, Sequences, FiniteSets

CONSTANTS Files,      \* byte sequences over "a", "b", "r" (CR), "n" (LF), "M" (BOM)
          OldTexts,   \* non-empty sequences of line texts: old_text, normalised
          NewTexts,   \* sequences of line texts; <<>> deletes the block
          MaxBytes, MaxLines

VARIABLES file, op, result, done
vars == <<file, op, result, done>>

Conflict == <<"conflict">>   \* the edit is refused

\* normalizeTextEditBlock: text is not one empty line, which would be "".
Edits == {e \in OldTexts \X NewTexts : e[1] # e[2] /\ e[1] # << <<>> >> /\ e[2] # << <<>> >>}
Ops ==
    [name : {"edit", "remoteEdit"}, edit : Edits]
      \cup [name : {"pages"}, max : 1 .. MaxBytes, from : -(MaxBytes + 1) .. MaxBytes]
      \cup [name : {"tail", "search"}, lines : 1 .. MaxLines]
      \cup [name : {"capture"}, cuts : SUBSET (1 .. MaxBytes)]

Init == file \in Files /\ op \in Ops /\ result = <<>> /\ done = FALSE

Part(s, from, to) == SubSeq(s, from + 1, to)          \* s[from:to]
Largest(S) == CHOOSE x \in S : \A y \in S : y <= x
Smallest(S) == CHOOSE x \in S : \A y \in S : x <= y
Concat(ss) == LET c[i \in 0 .. Len(ss)] == IF i = 0 THEN <<>> ELSE c[i - 1] \o ss[i] IN c[Len(ss)]
BOM(f) == IF f # <<>> /\ f[1] = "M" THEN 1 ELSE 0

\* The lines: where each starts, where its text ends, where its ending ends.
LineAt(f, start) ==
    LET newlines == {i \in start + 1 .. Len(f) : f[i] = "n"}
        after == IF newlines = {} THEN Len(f) ELSE Smallest(newlines)
        text == IF newlines = {} THEN after
                ELSE IF after - 1 > start /\ f[after - 1] = "r" THEN after - 2 ELSE after - 1
    IN [start |-> start, contentEnd |-> text, afterEnd |-> after,
        text |-> Part(f, start, text), eol |-> Part(f, text, after)]
editableTextLines(f) ==
    LET starts == {s \in BOM(f) .. Len(f) - 1 : s = BOM(f) \/ f[s] = "n"}
        nth[k \in 1 .. Cardinality(starts)] ==
          CHOOSE s \in starts : Cardinality({x \in starts : x < s}) = k - 1
    IN [k \in 1 .. Cardinality(starts) |-> LineAt(f, nth[k])]

Matches(lines, old) ==
    {s \in 1 .. Len(lines) - Len(old) + 1 : \A k \in 1 .. Len(old) : lines[s + k - 1].text = old[k]}

Joined(texts, eol) ==
    Concat([k \in 1 .. Len(texts) |-> (IF k > 1 THEN eol ELSE <<>>) \o texts[k]])

\* Mutant: a deleted last line leaves the line ending before it.
DeletedRangeShort(lines, s, n) ==
    LET first == lines[s]  last == lines[s + n - 1] IN <<first.start, last.afterEnd>>

\* The bytes a deletion removes: the block with its last ending, or, at the end
\* of a file that has none, with the ending of the line before.
DeletedRange(lines, s, n) ==
    LET first == lines[s]  last == lines[s + n - 1] IN
    IF last.afterEnd > last.contentEnd THEN <<first.start, last.afterEnd>>
    ELSE IF s > 1 THEN <<lines[s - 1].contentEnd, last.contentEnd>>
    ELSE <<first.start, last.contentEnd>>

EolOf(lines, s, n) ==
    LET own == {k \in s .. s + n - 1 : lines[k].eol # <<>>} IN
    IF lines[s + n - 1].eol = <<>> /\ s > 1 /\ lines[s - 1].eol # <<>> THEN lines[s - 1].eol
    ELSE IF own # {} THEN lines[Smallest(own)].eol ELSE <<"n">>

applyTextEditBytes(f, old, new) ==
    LET lines == editableTextLines(f)  found == Matches(lines, old) IN
    IF Cardinality(found) # 1 THEN Conflict
    ELSE LET s == Smallest(found)  n == Len(old)
             range == IF new = <<>> THEN DeletedRange(lines, s, n)
                      ELSE <<lines[s].start, lines[s + n - 1].contentEnd>>
         IN Part(f, 0, range[1]) \o Joined(new, EolOf(lines, s, n)) \o Part(f, range[2], Len(f))

\* awk's records of a text: an empty last one is not seen.
Records(texts) == IF texts # <<>> /\ texts[Len(texts)] = <<>> THEN SubSeq(texts, 1, Len(texts) - 1) ELSE texts

\* The script: awk locates the block, head and tail copy what is around it.
RemoteDeleted(lines, s, n) ==
    LET first == lines[s]  last == lines[s + n - 1] IN
    IF last.afterEnd > last.contentEnd THEN <<first.start, last.afterEnd>>
    ELSE IF first.start > 0 THEN <<IF s > 1 THEN lines[s - 1].contentEnd ELSE 0, last.contentEnd>>
    ELSE <<first.start, last.contentEnd>>
RemoteEol(lines, s, n) ==
    LET own == {k \in s .. s + n - 1 : lines[k].eol # <<>>}
        eol == IF own # {} THEN lines[Smallest(own)].eol ELSE IF s > 1 THEN lines[s - 1].eol ELSE <<>>
    IN IF Len(eol) = 2 THEN eol ELSE <<"n">>
remoteEdit(f, old, new) ==
    LET lines == editableTextLines(f)  found == Matches(lines, old) IN
    IF Records(old) # old \/ Cardinality(found) # 1 THEN Conflict
    ELSE LET s == Smallest(found)  n == Len(old)
             range == IF new = <<>> THEN RemoteDeleted(lines, s, n)
                      ELSE <<lines[s].start, lines[s + n - 1].contentEnd>>
         IN Part(f, 0, range[1]) \o Joined(Records(new), RemoteEol(lines, s, n)) \o Part(f, range[2], Len(f))

resolvedFileOffset(size, requested) ==
    IF requested >= 0 THEN requested
    ELSE IF size <= 0 \/ requested < -size THEN 0 ELSE size + requested

\* Mutant: the next page starts after what may be returned and one byte more.
NextOffsetPast(size, offset, max) == IF offset + max < size THEN offset + max + 1 ELSE 0

\* decorateFileReadPage: next_offset, 0 when there is no more.
NextOffset(size, offset, max) == IF offset + max < size THEN offset + max ELSE 0

\* A reader that follows next_offset: the pages it is given.
Pages(f, max, from) ==
    LET page[o \in 0 .. Len(f) + MaxBytes + 1] ==
          LET next == NextOffset(Len(f), o, max)
              content == Part(f, o, IF o + max < Len(f) THEN o + max ELSE Len(f))
          IN <<content>> \o (IF next = 0 THEN <<>> ELSE page[next])
    IN page[resolvedFileOffset(Len(f), from)]

\* Backwards over the bytes; a newline that ends the file ends its last line.
workspaceTailOffset(f, lines) ==
    LET back[i \in 0 .. Len(f), remaining \in 1 .. MaxLines, ignore \in BOOLEAN] ==
          IF i = 0 THEN 0
          ELSE IF f[i] # "n" THEN back[i - 1, remaining, FALSE]
          ELSE IF ignore THEN back[i - 1, remaining, FALSE]
          ELSE IF remaining = 1 THEN i ELSE back[i - 1, remaining - 1, FALSE]
    IN back[Len(f), lines, TRUE]

\* A scan of the lines with the last context lines at hand (pattern: "a").
Hit(line) == line.text # <<>> /\ line.text[Len(line.text)] = "a"
searchWorkspaceFile(f, context) ==
    LET lines == editableTextLines(f)
        scan[i \in 0 .. Len(lines)] ==
          IF i = 0 THEN [out |-> <<>>, last |-> 0, after |-> 0]
          ELSE LET was == scan[i - 1]
                   first == IF i - context > was.last THEN i - context ELSE was.last + 1
                   before == IF first < 1 THEN 1 ELSE first
               IN IF Hit(lines[i])
                  THEN [out |-> was.out \o [k \in 1 .. i - before + 1 |-> before + k - 1],
                        last |-> i, after |-> context]
                  ELSE IF was.after > 0
                  THEN [out |-> Append(was.out, i), last |-> i, after |-> was.after - 1]
                  ELSE was
    IN scan[Len(lines)].out

\* Mutant: what a write leaves over is emitted at once.
KeptNone(text) == Len(text)
\* Write emits up to the last line end it has; the rest waits for more.
Kept(text) ==
    LET ends == {i \in 1 .. Len(text) : text[i] \in {"r", "n"}} IN IF ends = {} THEN 0 ELSE Largest(ends)

\* The emissions of one write.
Emitted(text) ==
    LET ends == {i \in 1 .. Len(text) : text[i] = "n" \/ (text[i] = "r" /\ (i = Len(text) \/ text[i + 1] # "n"))}
                  \cup (IF Kept(text) = 0 THEN {} ELSE {Kept(text)})
        nth[k \in 0 .. Cardinality(ends)] ==
          IF k = 0 THEN 0 ELSE CHOOSE e \in ends : Cardinality({x \in ends : x < e}) = k - 1
    IN [k \in 1 .. Cardinality(ends) |-> Part(text, nth[k - 1], nth[k])]

\* workspaceCaptureBuffer: writes of the process, cut anywhere, then Flush.
Captured(f, cuts) ==
    LET write[i \in 0 .. Len(f)] ==       \* the state after the bytes up to i, when a write ends there
          IF i = 0 THEN [out |-> <<>>, pending |-> <<>>]
          ELSE LET ends == {0} \cup {c \in cuts : c < i}
                   was == write[Largest(ends)]
                   text == was.pending \o Part(f, Largest(ends), i)
               IN [out |-> was.out \o Emitted(text), pending |-> Part(text, Kept(text), Len(text))]
        last == write[Len(f)]
    IN IF last.pending = <<>> THEN last.out ELSE Append(last.out, last.pending)

Compute ==
    /\ ~done /\ done' = TRUE
    /\ result' = CASE op.name = "edit" -> applyTextEditBytes(file, op.edit[1], op.edit[2])
                   [] op.name = "remoteEdit" -> remoteEdit(file, op.edit[1], op.edit[2])
                   [] op.name = "pages" -> Pages(file, op.max, op.from)
                   [] op.name = "tail" -> workspaceTailOffset(file, op.lines)
                   [] op.name = "search" -> searchWorkspaceFile(file, op.lines)
                   [] op.name = "capture" -> Captured(file, op.cuts)
    /\ UNCHANGED <<file, op>>

Next == Compute
Spec == Init /\ [][Next]_vars

-----------------------------------------------------------------------------
(* Properties *)

Done(name) == done /\ op.name = name
Texts(lines) == [k \in 1 .. Len(lines) |-> lines[k].text]
Endings(lines) == [k \in 1 .. Len(lines) |-> lines[k].eol]

\* new_text in place of old_text, read off the file's lines alone.  A file that
\* ends in a newline has an empty text behind it.
Behind(f, lines) == IF lines = <<>> \/ lines[Len(lines)].eol # <<>> THEN << <<>> >> ELSE <<>>
IsTheEdit(f, old, new, g) ==
    LET was == editableTextLines(f)  is == editableTextLines(g)  found == Matches(was, old) IN
    IF Cardinality(found) # 1 THEN g = Conflict
    ELSE LET s == Smallest(found)
             after == SubSeq(was, s + Len(old), Len(was))
             wanted == Texts(SubSeq(was, 1, s - 1)) \o new \o Texts(after) \o Behind(f, was)
             kept == IF after = <<>> /\ new = <<>> THEN s - 2 ELSE s - 1
         IN /\ g # Conflict /\ BOM(g) = BOM(f)
            /\ Texts(is) \o Behind(g, is) = (IF wanted = <<>> THEN << <<>> >> ELSE wanted)
            /\ SubSeq(Endings(is), 1, kept) = SubSeq(Endings(was), 1, kept)
            /\ \A k \in 0 .. Len(after) - 1 : is[Len(is) - k].eol = was[Len(was) - k].eol

\* The edit that is written is the change that was approved: the one block that
\* matches is replaced, and no other line, line ending or byte-order mark is
\* touched; with no match, or two, nothing is written.
EditIsTheApprovedOne == Done("edit") => IsTheEdit(file, op.edit[1], op.edit[2], result)

\* The script writes what the program would, when no text ends in an empty line,
\* the file has no byte-order mark and its lines all end alike.
RemoteEditAgrees ==
    Done("remoteEdit") /\ Records(op.edit[1]) = op.edit[1] /\ Records(op.edit[2]) = op.edit[2] /\ BOM(file) = 0
      /\ Cardinality({editableTextLines(file)[k].eol : k \in 1 .. Len(editableTextLines(file))} \ {<<>>}) <= 1
      => result = applyTextEditBytes(file, op.edit[1], op.edit[2])

\* The comment of buildRemoteFileChangeScript (files.go:263): the approved lines
\* are spliced so that byte-order mark, line endings and final newline stay.
RemoteEditIsTheApprovedOne ==
    Done("remoteEdit") /\ result # Conflict => IsTheEdit(file, op.edit[1], op.edit[2], result)

\* The pages a reader collects by following next_offset are the file from the
\* offset it asked for, and each byte once; a tail starts with a line and has as
\* many lines as were asked for; a search shows, in order and once, the lines
\* within the context of a match.
ReadsAreExact ==
    /\ Done("pages") =>
         Concat(result) = Part(file, resolvedFileOffset(Len(file), op.from), Len(file))
    /\ Done("tail") =>
         LET lines == editableTextLines(file)
             shown == {k \in 1 .. Len(lines) : lines[k].afterEnd > result} IN
         /\ result = 0 \/ file[result] = "n"
         /\ Cardinality(shown) = (IF Len(lines) < op.lines THEN Len(lines) ELSE op.lines)
    /\ Done("search") =>
         LET lines == editableTextLines(file)
             near == {n \in 1 .. Len(lines) :
                        \E m \in 1 .. Len(lines) : Hit(lines[m]) /\ m - n \in -op.lines .. op.lines}
         IN /\ {result[k] : k \in 1 .. Len(result)} = near
            /\ \A k \in 1 .. Len(result) - 1 : result[k] < result[k + 1]

\* However the output of a process is cut into writes, what is streamed is that
\* output, and no line is split between two emissions (each is redacted alone).
OutputKeepsItsLines ==
    Done("capture") =>
        /\ Concat(result) = file
        /\ \A k \in 1 .. Len(result) - 1 : result[k] # <<>> /\ result[k][Len(result[k])] \in {"r", "n"}
        /\ \A k \in 1 .. Len(result) : \A i \in 1 .. Len(result[k]) - 1 : result[k][i] # "n"
=============================================================================
