------------------------------ MODULE LogFiles ------------------------------
(***************************************************************************)
(* The log file and its numbered backups: rotatingWriter, which renames    *)
(* them one after the other when the file is full, and WriteArchive, which *)
(* lists them and then opens them by name while the writer goes on.        *)
(* Records are numbered; a file is the sequence of its records.            *)
(***************************************************************************)
EXTENDS Naturals, Sequences, SequencesExt, FiniteSetsExt

CONSTANTS
    MaxBackups,    \* max_backups
    MaxSize,       \* max_size_mb, in records
    MaxRecords,    \* bound: records logged
    MaxFaults,     \* bound: renames that fail
    MaxArchives,   \* bound: archives written
    MaxRestarts    \* bound: restarts of the process

Numbers == 0..MaxBackups      \* 0 is the active file
Missing == <<>>               \* a file that does not exist has no records

VARIABLES
    file,                     \* [Numbers -> sequence of records]
    open, pc, shift, next,    \* the writer: its handle, rotate's progress, the next record
    accepted,                 \* the records it took
    faults, restarts,
    listed, archive, archives \* WriteArchive: the names still to open, what it wrote

writer == <<open, pc, shift, next, accepted, faults, restarts>>
reader == <<listed, archive, archives>>
vars   == <<file, writer, reader>>

Init ==
    /\ file = [n \in Numbers |-> Missing]
    /\ open = TRUE /\ pc = "write" /\ shift = <<>> /\ next = 1 /\ accepted = <<>>
    /\ faults = 0 /\ restarts = 0
    /\ listed = <<>> /\ archive = <<>> /\ archives = 0

-----------------------------------------------------------------------------
(* rotatingWriter, under its mutex *)

Full == Len(file[0]) >= MaxSize

Write ==
    /\ pc = "write" /\ open /\ ~Full /\ next <= MaxRecords
    /\ file' = [file EXCEPT ![0] = Append(@, next)]
    /\ accepted' = Append(accepted, next) /\ next' = next + 1
    /\ UNCHANGED <<open, pc, shift, faults, restarts, reader>>

\* Mutant: the youngest backup is moved first.
FromYoungest == [i \in 1..MaxBackups - 1 |-> i]

\* The backups are shifted from the oldest that stays to the youngest.
FromOldest == [i \in 1..MaxBackups - 1 |-> MaxBackups - i]

\* rotate closes the file and removes the last backup, or without backups the file.
StartRotation ==
    /\ pc = "write" /\ open /\ Full /\ next <= MaxRecords
    /\ open' = FALSE
    /\ file' = [file EXCEPT ![MaxBackups] = Missing]
    /\ pc' = (IF MaxBackups = 0 THEN "reopen" ELSE "shift")
    /\ shift' = FromOldest
    /\ UNCHANGED <<next, accepted, faults, restarts, reader>>

Shift ==
    /\ pc = "shift" /\ shift # <<>>
    /\ LET n == Head(shift) IN
       file' = IF file[n] = Missing THEN file
                 ELSE [file EXCEPT ![n + 1] = file[n], ![n] = Missing]
    /\ shift' = Tail(shift)
    /\ UNCHANGED <<open, pc, next, accepted, faults, restarts, reader>>

\* The error of a shift is not looked at.
ShiftFails ==
    /\ pc = "shift" /\ shift # <<>> /\ faults < MaxFaults
    /\ faults' = faults + 1 /\ shift' = Tail(shift)
    /\ UNCHANGED <<file, open, pc, next, accepted, restarts, reader>>

MoveActive ==
    /\ pc = "shift" /\ shift = <<>>
    /\ file' = [file EXCEPT ![1] = file[0], ![0] = Missing]
    /\ pc' = "reopen"
    /\ UNCHANGED <<open, shift, next, accepted, faults, restarts, reader>>

\* The handle stays closed: every later rotation fails at its Close.
MoveActiveFails ==
    /\ pc = "shift" /\ shift = <<>> /\ faults < MaxFaults
    /\ faults' = faults + 1 /\ pc' = "write"
    /\ UNCHANGED <<file, open, shift, next, accepted, restarts, reader>>

Reopen ==
    /\ pc = "reopen" /\ open' = TRUE /\ pc' = "write"
    /\ UNCHANGED <<file, shift, next, accepted, faults, restarts, reader>>

WriteFails ==
    /\ pc = "write" /\ ~open /\ next <= MaxRecords
    /\ next' = next + 1
    /\ UNCHANGED <<file, open, pc, shift, accepted, faults, restarts, reader>>

\* The process ends at any point, and newRotatingWriter goes on with the file.
Restart ==
    /\ restarts < MaxRestarts /\ restarts' = restarts + 1
    /\ open' = TRUE /\ pc' = "write" /\ shift' = <<>>
    /\ listed' = <<>> /\ archive' = <<>>
    /\ UNCHANGED <<file, next, accepted, faults, archives>>

-----------------------------------------------------------------------------
(* WriteArchive *)

\* Mutant: the files are listed by name, the active one first.
ByName == [i \in 1..MaxBackups + 1 |-> i - 1]

\* The oldest backup first, the active file last.
OldestFirst == [i \in 1..MaxBackups + 1 |-> MaxBackups + 1 - i]

\* existingLogFiles: the backups there are, and the active file in any case.
ExistingLogFiles ==
    /\ archives < MaxArchives /\ archives' = archives + 1
    /\ listed = <<>>
    /\ listed' = SelectSeq(OldestFirst, LAMBDA n : n = 0 \/ file[n] # Missing)
    /\ archive' = <<>>
    /\ UNCHANGED <<file, writer>>

\* A file that has gone meanwhile is passed over.
AddLogFile ==
    /\ listed # <<>>
    /\ archive' = archive \o file[Head(listed)]
    /\ listed' = Tail(listed)
    /\ UNCHANGED <<file, writer, archives>>

Next ==
    \/ Write \/ StartRotation \/ Shift \/ ShiftFails \/ MoveActive \/ MoveActiveFails \/ Reopen
    \/ WriteFails \/ Restart
    \/ ExistingLogFiles \/ AddLogFile

Spec == Init /\ [][Next]_vars

-----------------------------------------------------------------------------
TypeOK ==
    /\ file \in [Numbers -> Seq(1..MaxRecords)] /\ archive \in Seq(1..MaxRecords)
    /\ pc \in {"write", "shift", "reopen"} /\ open \in BOOLEAN

Increasing(s) == \A i \in 1..Len(s) - 1 : s[i] < s[i + 1]

Retained == FlattenSeq([i \in 1..MaxBackups + 1 |-> file[MaxBackups + 1 - i]])

(* Whatever fails in a rotation and wherever the process ends, the files   *)
(* from the oldest backup to the active one hold the records in order, and *)
(* as long as nothing failed they are the last ones accepted, with no gap, *)
(* and as many as the backups hold.                                        *)
FilesAreTheLatestRecords ==
    /\ Increasing(Retained)
    /\ faults = 0 /\ restarts = 0 =>
          IsSuffix(Retained, accepted) /\ Len(Retained) >= Min({Len(accepted), MaxBackups * MaxSize})

(* An archive has the records in order and each at most once, though the   *)
(* files are renamed while they are read.  (It may miss the records that   *)
(* were in a file when it was listed and under another name when it was    *)
(* opened.)                                                                *)
ArchiveIsInOrder == Increasing(archive)

(* An archive has no gap.  It may: see ArchiveIsInOrder.                   *)
ArchiveIsComplete ==
    listed = <<>> /\ archive # <<>> => \A r \in 1..Len(archive) - 1 : archive[r + 1] = archive[r] + 1
=============================================================================
