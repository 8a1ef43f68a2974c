--------------------------- MODULE SkillRegistry ---------------------------
(***************************************************************************)
(* skills.Registry: the skills an administrator keeps as directories.  A   *)
(* package is imported by staging it in a hidden directory and renaming    *)
(* one skill after the other into place, with the old directories moved    *)
(* aside and moved back when a rename fails.  Each file system call of a   *)
(* change is a step that may fail, the read of the result after it, too,   *)
(* and the process may end between any two.  Writers hold the registry's   *)
(* lock, and readers share it.                                             *)
(***************************************************************************)
EXTENDS Integers, Sequences

CONSTANTS
    Names,         \* skill names
    Versions,      \* contents of a SKILL.md, positive numbers
    MaxChanges,    \* bound: changes begun
    MaxFaults,     \* bound: failing calls within one change
    MaxCrashes     \* bound: ends of the process

\* A directory has no SKILL.md when main is 0, and is absent when it is -1;
\* meta is its skill.json.
Package == [main : {-1, 0} \cup Versions, meta : {"none", "on", "off"}]
Absent  == [main |-> -1, meta |-> "none"]
Nothing == [n \in Names |-> Absent]

VARIABLES
    skill,             \* the directories of the registry
    backup, staged,    \* .skill-rollback-*, .skill-upload-*
    pc, kind, names, version, at, moved, installed, faults,    \* the change under way
    before,            \* the registry when it began
    todo, listed,      \* a List under way
    changes, crashes

change == <<kind, names, version, before, changes>>
loop   == <<at, moved, installed>>
list   == <<todo, listed>>
vars   == <<skill, backup, staged, pc, change, loop, faults, list, crashes>>

\* "unread": the change is in place, but reading it back failed, and the caller has
\* that error.
AtRest  == pc \in {"idle", "done", "failed", "unread"}
Listing == todo # {}

Init ==
    /\ skill \in [Names -> {Absent, [main |-> 1, meta |-> "none"], [main |-> 1, meta |-> "off"]}]
    /\ backup = Nothing /\ staged = Nothing
    /\ pc = "idle" /\ kind = "none" /\ names = <<>> /\ version = 1
    /\ at = 0 /\ moved = {} /\ installed = {} /\ faults = 0
    /\ before = skill /\ todo = {} /\ listed = Nothing
    /\ changes = 0 /\ crashes = 0

-----------------------------------------------------------------------------
(* mu: one writer, or readers *)

Begin(k, ns, v) ==
    /\ AtRest /\ ~Listing /\ changes < MaxChanges
    /\ changes' = changes + 1 /\ kind' = k /\ names' = ns /\ version' = v
    /\ before' = skill /\ faults' = 0
    /\ at' = 1 /\ moved' = {} /\ installed' = {}
    /\ UNCHANGED <<list, crashes>>

CanFail == faults < MaxFaults /\ faults' = faults + 1

Fail == pc' = "failed" /\ staged' = Nothing /\ backup' = Nothing

(* ImportPackage: importMarkdown, or importArchive with several skills *)

\* The roots of an archive, in the order of their main files; no name twice.
Roots == {ns \in UNION {[1..k -> Names] : k \in 1..2} : \A i, j \in DOMAIN ns : ns[i] = ns[j] => i = j}

Import(ns, v) ==
    /\ Begin("import", ns, v)
    /\ staged' = [n \in Names |-> IF \E i \in DOMAIN ns : ns[i] = n
                                    THEN [main |-> v, meta |-> "none"] ELSE Absent]
    /\ pc' = "aside"
    /\ UNCHANGED <<skill, backup>>

\* An invalid package, or a staging directory that cannot be written.
ImportRefused(ns, v) ==
    /\ Begin("import", ns, v)
    /\ pc' = "failed"
    /\ UNCHANGED <<skill, backup, staged>>

(* replaceDirectories *)

Name == names[at]

MoveAside ==
    /\ pc = "aside" /\ skill[Name] # Absent
    /\ backup' = [backup EXCEPT ![Name] = skill[Name]]
    /\ skill' = [skill EXCEPT ![Name] = Absent]
    /\ moved' = moved \cup {Name} /\ pc' = "place"
    /\ UNCHANGED <<staged, change, at, installed, faults, list, crashes>>

NothingThere ==
    /\ pc = "aside" /\ skill[Name] = Absent
    /\ pc' = "place"
    /\ UNCHANGED <<skill, backup, staged, change, loop, faults, list, crashes>>

MoveAsideFails ==
    /\ pc = "aside" /\ skill[Name] # Absent /\ CanFail
    /\ pc' = "rollback" /\ at' = at - 1
    /\ UNCHANGED <<skill, backup, staged, change, moved, installed, list, crashes>>

Place ==
    /\ pc = "place"
    /\ skill' = [skill EXCEPT ![Name] = staged[Name]]
    /\ staged' = [staged EXCEPT ![Name] = Absent]
    /\ installed' = installed \cup {Name}
    /\ IF at = Len(names) THEN pc' = "clean" /\ UNCHANGED at
                          ELSE pc' = "aside" /\ at' = at + 1
    /\ UNCHANGED <<backup, change, moved, faults, list, crashes>>

\* Mutant: the skill whose rename failed is not undone.
LastBefore == at - 1

\* The skill that has only been moved aside is the first to be undone.
LastTouched == at

PlaceFails ==
    /\ pc = "place" /\ CanFail
    /\ pc' = "rollback" /\ at' = LastTouched
    /\ UNCHANGED <<skill, backup, staged, change, moved, installed, list, crashes>>

Uninstall ==
    /\ pc = "rollback" /\ at > 0 /\ Name \in installed
    /\ skill' = [skill EXCEPT ![Name] = Absent]
    /\ installed' = installed \ {Name}
    /\ UNCHANGED <<backup, staged, pc, change, at, moved, faults, list, crashes>>

MoveBack ==
    /\ pc = "rollback" /\ at > 0 /\ Name \notin installed
    /\ IF Name \in moved
         THEN skill' = [skill EXCEPT ![Name] = backup[Name]] /\ backup' = [backup EXCEPT ![Name] = Absent]
         ELSE UNCHANGED <<skill, backup>>
    /\ at' = at - 1
    /\ UNCHANGED <<staged, pc, change, moved, installed, faults, list, crashes>>

\* The rollback goes on with the skills before it.
RollbackFails ==
    /\ pc = "rollback" /\ at > 0 /\ Name \in installed \cup moved /\ CanFail
    /\ at' = at - 1
    /\ UNCHANGED <<skill, backup, staged, pc, change, moved, installed, list, crashes>>

\* The deferred RemoveAlls take what is left in the hidden directories; the skills that
\* were put in place are read back.
CleanUp ==
    /\ pc = "clean" \/ (pc = "rollback" /\ at = 0)
    /\ pc' = IF pc = "clean" THEN "read" ELSE "failed"
    /\ staged' = Nothing /\ backup' = Nothing
    /\ UNCHANGED <<skill, change, loop, faults, list, crashes>>

(* readUnlocked, for the answer of an import, a save or a switch *)

ReadBack ==
    /\ pc = "read" /\ pc' = "done"
    /\ UNCHANGED <<skill, backup, staged, change, loop, faults, list, crashes>>

ReadBackFails ==
    /\ pc = "read" /\ CanFail /\ pc' = "unread"
    /\ UNCHANGED <<skill, backup, staged, change, loop, list, crashes>>

(* Save, SetEnabled, Delete *)

Save(n, v) ==
    /\ Begin("save", <<n>>, v)
    /\ skill' = IF skill[n] = Absent THEN [skill EXCEPT ![n] = [main |-> 0, meta |-> "none"]] ELSE skill
    /\ pc' = "write"
    /\ UNCHANGED <<backup, staged>>

SetEnabled(n, enabled) ==
    /\ skill[n].main > 0
    /\ Begin(IF enabled THEN "enable" ELSE "disable", <<n>>, version)
    /\ pc' = "write"
    /\ UNCHANGED <<skill, backup, staged>>

\* atomicWrite
Write ==
    /\ pc = "write" /\ pc' = "read"
    /\ skill' = [skill EXCEPT ![Name] =
          CASE kind = "save"    -> [@ EXCEPT !.main = version]
            [] kind = "enable"  -> [@ EXCEPT !.meta = "on"]
            [] kind = "disable" -> [@ EXCEPT !.meta = "off"]]
    /\ UNCHANGED <<backup, staged, change, loop, faults, list, crashes>>

WriteFails ==
    /\ pc = "write" /\ CanFail /\ Fail
    /\ UNCHANGED <<skill, change, loop, list, crashes>>

Delete(n) ==
    /\ skill[n].main > 0
    /\ Begin("delete", <<n>>, version)
    /\ pc' = "remove"
    /\ UNCHANGED <<skill, backup, staged>>

\* RemoveAll takes the files in the order of the directory, then the directory.
RemoveFile ==
    /\ pc = "remove"
    /\ skill' \in {[skill EXCEPT ![Name] = p] :
          p \in IF skill[Name].main > 0 \/ skill[Name].meta # "none"
                  THEN {[skill[Name] EXCEPT !.main = 0], [skill[Name] EXCEPT !.meta = "none"]} \ {skill[Name]}
                  ELSE {Absent}}
    /\ pc' = IF skill'[Name] = Absent THEN "done" ELSE "remove"
    /\ UNCHANGED <<backup, staged, change, loop, faults, list, crashes>>

RemoveFails ==
    /\ pc = "remove" /\ CanFail /\ Fail
    /\ UNCHANGED <<skill, change, loop, list, crashes>>

\* Nothing restores what a hidden directory holds when the process starts again.
Crash ==
    /\ crashes < MaxCrashes /\ crashes' = crashes + 1
    /\ pc' = "idle" /\ kind' = "none" /\ names' = <<>> /\ at' = 0
    /\ moved' = {} /\ installed' = {} /\ faults' = 0
    /\ staged' = Nothing /\ backup' = Nothing /\ before' = skill
    /\ todo' = {} /\ listed' = Nothing
    /\ UNCHANGED <<skill, version, changes>>

(* List, which reads one directory after the other *)

\* Mutant: a reader does not wait for the writer.
AnyTime == TRUE

ReadersMayEnter == AtRest

List ==
    /\ ~Listing /\ ReadersMayEnter
    /\ todo' = Names /\ listed' = Nothing
    /\ UNCHANGED <<skill, backup, staged, pc, change, loop, faults, crashes>>

\* A directory without a SKILL.md is left out.
ReadUnlocked(n) ==
    /\ n \in todo /\ todo' = todo \ {n}
    /\ listed' = [listed EXCEPT ![n] = IF skill[n].main > 0 THEN skill[n] ELSE Absent]
    /\ UNCHANGED <<skill, backup, staged, pc, change, loop, faults, crashes>>

Next ==
    \/ \E v \in Versions : \/ \E ns \in Roots : Import(ns, v) \/ ImportRefused(ns, v)
                           \/ \E n \in Names : Save(n, v)
    \/ \E n \in Names : SetEnabled(n, TRUE) \/ SetEnabled(n, FALSE) \/ Delete(n) \/ ReadUnlocked(n)
    \/ MoveAside \/ NothingThere \/ MoveAsideFails \/ Place \/ PlaceFails
    \/ Uninstall \/ MoveBack \/ RollbackFails \/ CleanUp
    \/ ReadBack \/ ReadBackFails \/ Write \/ WriteFails \/ RemoveFile \/ RemoveFails
    \/ Crash \/ List

Spec == Init /\ [][Next]_vars

-----------------------------------------------------------------------------
TypeOK ==
    /\ {skill, backup, staged, before, listed} \subseteq [Names -> Package]
    /\ pc \in {"idle", "aside", "place", "rollback", "clean", "read", "write", "remove",
              "done", "failed", "unread"}
    /\ kind \in {"none", "import", "save", "enable", "disable", "delete"}
    /\ names \in Seq(Names) /\ Len(names) \in 0..2 /\ version \in Versions
    /\ moved \cup installed \cup todo \subseteq Names
    /\ at \in 0..2 /\ faults \in 0..MaxFaults

Visible(registry) == [n \in Names |-> IF registry[n].main > 0 THEN registry[n] ELSE Absent]

Imported == {names[i] : i \in DOMAIN names}

\* What an import, a save or a switch makes of a directory.
Changed(p) ==
    CASE kind = "import"  -> [main |-> version, meta |-> "none"]
      [] kind = "save"    -> [main |-> version, meta |-> p.meta]
      [] kind = "enable"  -> [p EXCEPT !.meta = "on"]
      [] kind = "disable" -> [p EXCEPT !.meta = "off"]

(* An import, a save or a switch that is answered, or of which only the    *)
(* reading back failed, is in place for every skill it names, and touches  *)
(* no other.  One that fails before is undone, in every skill, when no     *)
(* other call fails; a second failure, in the rollback, can cost a skill,  *)
(* as its backup is removed with the rest.                                 *)
ImportsAreWhole ==
    /\ pc \in {"done", "unread"} /\ kind # "delete" =>
          \A n \in Names : skill[n] = IF n \in Imported THEN Changed(before[n]) ELSE before[n]
    /\ pc = "failed" /\ kind # "delete" /\ faults <= 1 => Visible(skill) = Visible(before)

(* While an import runs and at most one call has failed, every skill that  *)
(* existed is on the disk: in its place, or in the directory it was moved  *)
(* to.  This is what a process that ends there leaves behind, and nothing  *)
(* moves a skill back from there later.                                    *)
NoSkillIsLost ==
    kind = "import" /\ faults <= 1 =>
        \A n \in Names : before[n] # Absent => skill[n] # Absent \/ backup[n] = before[n]

(* What a List has read so far is what the registry holds: it never sees   *)
(* half an import.                                                         *)
ListsAreConsistent == Listing => \A n \in Names \ todo : listed[n] = Visible(skill)[n]
(* The inductive invariant. *)

\* Which steps a change goes through.
ChangeInv ==
    /\ kind = "none" => pc = "idle"
    /\ kind = "import" => pc \in {"aside", "place", "clean", "rollback", "read", "done",
                                  "failed", "unread"}
    /\ kind \in {"save", "enable", "disable"} => pc \in {"write", "read", "done", "failed", "unread"}
    /\ kind = "delete" => pc \in {"remove", "done", "failed"}
    /\ pc \in {"aside", "place"} => at \in 1..Len(names)
    /\ pc \in {"write", "remove"} => at = 1 /\ Len(names) = 1
    /\ pc = "rollback" => at \in 0..Len(names) /\ faults > 0
    /\ pc \in {"aside", "place", "clean", "write", "remove", "read"} => faults = 0
    /\ pc \in {"done", "unread"} => faults <= 1
    /\ kind \in {"save", "enable", "disable"} => Len(names) = 1
    /\ kind = "import" => \A i, j \in 1..Len(names) : names[i] = names[j] => i = j

New == [main |-> version, meta |-> "none"]

\* Where an import has left one skill: as it was, moved aside, or replaced.
Kept(n)   == skill[n] = before[n] /\ n \notin installed
Aside(n)  == /\ skill[n] = Absent /\ backup[n] = before[n]
             /\ n \notin installed /\ (n \in moved <=> before[n] # Absent)
Placed(n) == /\ skill[n] = New /\ backup[n] = before[n]
             /\ n \in installed /\ (n \in moved <=> before[n] # Absent)

\* An import, and its rollback as long as nothing else fails, works the skills of
\* the package off one after the other.
ImportInv ==
    kind = "import" /\ faults <= 1 =>
        /\ \A n \in Names : (\A i \in 1..Len(names) : names[i] # n) => Kept(n)
        /\ pc \in {"clean", "read", "done", "unread"} => \A i \in 1..Len(names) : skill[names[i]] = New
        /\ pc = "failed" => \A i \in 1..Len(names) : skill[names[i]] = before[names[i]]
        /\ pc \in {"aside", "place", "rollback"} =>
              \A i \in 1..Len(names) : (i < at => Placed(names[i])) /\ (i > at => Kept(names[i]))
        /\ pc = "aside" => Kept(names[at])
        /\ pc = "place" => Aside(names[at])
        /\ pc = "rollback" /\ at > 0 => Placed(names[at]) \/ Aside(names[at])

\* Nothing lies in the directory for what is replaced before an import moves it
\* there; what is not yet in place waits in the staging directory.
StagedInv ==
    /\ pc \in {"idle", "read", "write", "remove", "done", "failed", "unread"} =>
          \A n \in Names : backup[n] = Absent
    /\ pc \in {"aside", "place"} => \A i \in 1..Len(names) :
          /\ i >= at => staged[names[i]] = New
          /\ i > at \/ (i = at /\ pc = "aside") => names[i] \notin moved /\ backup[names[i]] = Absent

\* Until its write, a save or a switch shows what was there before, but for the empty
\* directory a save may make; after it, what it writes.
WriteInv ==
    kind \in {"save", "enable", "disable"} =>
        /\ \A n \in Names : n # names[1] => skill[n] = before[n]
        /\ pc \in {"write", "failed"} =>
              \/ skill[names[1]] = before[names[1]]
              \/ kind = "save" /\ before[names[1]] = Absent
                               /\ skill[names[1]] = [main |-> 0, meta |-> "none"]
        /\ pc \in {"read", "done", "unread"} => skill[names[1]] = Changed(before[names[1]])

\* Readers and writers exclude each other.
LockInv == Listing => AtRest

IInv ==
    /\ TypeOK /\ ChangeInv /\ ImportInv /\ StagedInv /\ WriteInv
    /\ LockInv /\ ListsAreConsistent
=============================================================================
