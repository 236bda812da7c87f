---------------------------- MODULE FileTransaction ----------------------------
(***************************************************************************)
(* The file side of one apply: create_backup, commit_managed_transition,   *)
(* the save of state.json and, after an exception, restore_backup with the *)
(* journal of the run (transaction.py, engine.py).                         *)
(*                                                                         *)
(* The run does not own the file system.  Another writer (an operator, a   *)
(* package hook, another daemon) may edit any path between any two system  *)
(* calls of the run.  What the code knows of a path is a receipt: kind,    *)
(* bytes or link target, mode, owner, and the inode and device.  Here a    *)
(* path is in a state [val, id]: val stands for all of it but the inode,   *)
(* id for the inode.                                                       *)
(***************************************************************************)
EXTENDS Naturals, FiniteSets

CONSTANTS
    Files,        \* paths the run treats as files or symlinks
    Dirs,         \* directories above them, "/" excepted
    Above,        \* [Files \cup Dirs -> SUBSET Dirs], the directories above a path
    Generated,    \* the rendered files (generated)
    Removals,     \* the files of disabled components (removal_targets)
    DirTargets,   \* the managed directories (directory_targets)
    StateFile,    \* STATE_PATH
    Vals,         \* what an existing path can hold, its mode included
    Links,        \* the values that are symlinks
    Odd,          \* a value of the wrong kind: a directory for a file, a link for a directory
    Digest,       \* [Vals -> digests]: managed_target_digest, blind to mode and owner
    New,          \* [path -> Vals]: what the run writes there
    Installed,    \* [Removals -> digests]: installed_hashes of the previous run
    DirMode,      \* the value of a directory just made by path.mkdir()
    Starts,       \* the file systems a run may start from
    MaxEdits,     \* bound on the edits of the other writer
    Rank,         \* [Files -> Nat]: the order in which the loops meet the files
    Absent, None

Nodes == Files \cup Dirs

Ids == {"none", "base", "own", "other"}

Missing == [val |-> Absent, id |-> "none"]

States == [val : Vals, id : Ids \ {"none"}] \cup {Missing}

NoReceipt == [val |-> None, id |-> "none"]

ASSUME ConstantsAssumption ==
    /\ Files \cap Dirs = {}
    /\ Above \in [Nodes -> SUBSET Dirs]
    /\ \A n \in Nodes : n \notin Above[n] /\ \A d \in Above[n] : Above[d] \subseteq Above[n]
    /\ Generated \subseteq Files /\ Removals \subseteq Files /\ DirTargets \subseteq Dirs
    /\ StateFile \in Files /\ StateFile \notin Generated \cup Removals
    /\ Generated \cap Removals = {}
    /\ Odd \in Vals /\ DirMode \in Vals /\ Links \subseteq Vals
    /\ Absent \notin Vals /\ None \notin Vals /\ None # Absent /\ None \notin Nodes
    /\ Odd # DirMode /\ Odd \notin Links
    /\ New \in [Generated \cup DirTargets \cup {StateFile} -> Vals \ {Odd}]
    /\ Rank \in [Files -> Nat]
    /\ MaxEdits \in Nat
    /\ Starts \subseteq [Nodes -> States]
    /\ \A s \in Starts, n \in Nodes :
           /\ s[n].id \in {"none", "base"}
           /\ s[n] # Missing => \A d \in Above[n] : s[d] # Missing

VARIABLES
    fs,          \* [Nodes -> States]
    litter,      \* directories that hold a file nobody here knows
    entry,       \* backup.json: the value recorded for a path, None when there is no entry
    payload,     \* the copy kept in the backup directory
    seal,        \* state_entry_seal
    journal,     \* mutation_journal: the receipt of the run's own write
    hashes,      \* installed_hashes collected by commit_files
    stage, step, cur, todo,   \* where the run is
    conflicts,   \* what restore_backup returns
    protected,   \* history: edits the code is able to notice before it writes there
    touched,     \* history: paths the other writer edited
    late,        \* history: paths edited after restore_backup had looked at them
    edits

disk == <<fs, litter>>
record == <<entry, payload, seal>>
ledger == <<journal, hashes, conflicts>>
control == <<stage, step, cur, todo>>
history == <<protected, touched, late, edits>>
vars == <<disk, record, ledger, control, history>>

Present(n) == fs[n] # Missing

Entries == {n \in Nodes : entry[n] # None}

\* Every file create_backup is given: the rendered ones, STATE_PATH, the removals.
BackupFiles == Generated \cup Removals \cup {StateFile}

\* The managed directories and the parents that do not exist yet.
BackupDirs ==
    DirTargets \cup {d \in UNION {Above[n] : n \in BackupFiles \cup DirTargets} : ~Present(d)}

(***************************************************************************)
(* Control.  A stage works through todo; a path is picked (and checked),   *)
(* then acted on.                                                          *)
(***************************************************************************)
After == [backup |-> "precheck", precheck |-> "prevalidate", prevalidate |-> "dirs",
          dirs |-> "files", files |-> "revalidate", revalidate |-> "remove",
          remove |-> "state", state |-> "report",
          restore |-> "restoredirs", restoredirs |-> "rolledback"]

ForwardStages == {"backup", "precheck", "prevalidate", "dirs", "files", "revalidate",
                  "remove", "state", "report"}
RestoreStages == {"restore", "restoredirs"}
FinalStages == {"done", "rolledback", "rollbackfailed"}

Work(s) ==
    CASE s = "precheck"                             -> Generated \cup Removals \cup DirTargets
      [] s \in {"prevalidate", "revalidate", "remove"} -> Removals
      [] s = "dirs"                                 -> DirTargets
      [] s = "files"                                -> Generated
      [] s = "state"                                -> {StateFile}
      [] s = "restoredirs"                          -> {d \in Dirs \cap Entries :
                                                          journal[d] # NoReceipt /\ d \notin conflicts}
      [] OTHER                                      -> {}

Goto(sg, st, c, td) == stage' = sg /\ step' = st /\ cur' = c /\ todo' = td

At(sg, st, n) == stage = sg /\ step = st /\ cur = n

Pick(sg, n) ==
    /\ stage = sg /\ step = "pick" /\ n \in todo
    /\ n \in Files => \A m \in todo \cap Files : Rank[n] <= Rank[m]

Take(n) == Goto(stage, "checked", n, todo)

Drop(n) == Goto(stage, "pick", None, todo \ {n})

\* An exception leaves apply's try block for the handler, which restores with the journal.
Raise == Goto("restore", "pick", None, Entries)

Init ==
    /\ fs \in Starts
    /\ litter \in SUBSET {d \in Dirs : Present(d)}
    /\ entry = [n \in Nodes |-> None]
    /\ payload = [n \in Nodes |-> None]
    /\ seal = fs[StateFile]
    /\ journal = [n \in Nodes |-> NoReceipt]
    /\ hashes = [n \in Generated |-> None]
    /\ conflicts = {}
    /\ stage = "backup" /\ step = "pick" /\ cur = None
    /\ todo = BackupFiles \cup BackupDirs
    /\ protected = {} /\ touched = {} /\ late = {} /\ edits = 0

\* The loop of a stage is exhausted.
NextStage ==
    /\ stage \in DOMAIN After /\ step = "pick" /\ todo = {}
    /\ Goto(After[stage], "pick", None, Work(After[stage]))
    /\ UNCHANGED <<disk, record, ledger, history>>

-------------------------------------------------------------------------------
(* create_backup: copy the file, then record digest and mode as they are by then *)

BackupCopy(f) ==
    /\ Pick("backup", f) /\ f \in Files
    /\ IF fs[f].val = Odd
       THEN Raise /\ UNCHANGED payload
       ELSE Take(f) /\ payload' = [payload EXCEPT ![f] = fs[f].val]
    /\ UNCHANGED <<disk, entry, seal, ledger, history>>

\* The kind was decided before the copy: a link that appeared since is not recorded as one.
BackupRecord(f) ==
    /\ At("backup", "checked", f)
    /\ LET settled == payload[f] = Absent \/ payload[f] \in Links IN
       IF ~settled /\ fs[f].val \in {Absent, Odd}
       THEN Raise /\ UNCHANGED entry
       ELSE /\ Drop(f)
            /\ entry' = [entry EXCEPT ![f] = IF settled \/ fs[f].val \in Links
                                             THEN payload[f] ELSE fs[f].val]
    /\ UNCHANGED <<disk, payload, seal, ledger, history>>

BackupDir(d) ==
    /\ Pick("backup", d) /\ d \in Dirs /\ todo \cap Files = {}
    /\ IF fs[d].val = Odd
       THEN Raise /\ UNCHANGED entry
       ELSE Drop(d) /\ entry' = [entry EXCEPT ![d] = fs[d].val]
    /\ UNCHANGED <<disk, payload, seal, ledger, history>>

-------------------------------------------------------------------------------
(* commit_managed_transition *)

\* _check_backup_target: kind, mode, owner and bytes, but not the inode.
Unchanged(n) == fs[n].val = entry[n]

\* validated_removal_targets: present, of the right kind, with the digest of the last run.
StillInstalled(r) == fs[r].val \notin {Absent, Odd} /\ Digest[fs[r].val] = Installed[r]

\* One check of the loop: go on with the loop, or raise.
CheckOnly(n, ok) ==
    /\ IF ok THEN Drop(n) ELSE Raise
    /\ UNCHANGED <<disk, record, ledger, history>>

CheckThenAct(n, ok) ==
    /\ IF ok THEN Take(n) ELSE Raise
    /\ UNCHANGED <<disk, record, ledger, history>>

Precheck(n) == Pick("precheck", n) /\ CheckOnly(n, Unchanged(n))

ValidateRemoval(r) ==
    (Pick("prevalidate", r) \/ Pick("revalidate", r)) /\ CheckOnly(r, StillInstalled(r))

\* ensure_managed_directories goes from the root down.
DirCheck(d) ==
    /\ Pick("dirs", d) /\ todo \cap Above[d] = {}
    /\ CheckThenAct(d, fs[d].val # Odd /\ (journal[d] # NoReceipt \/ Unchanged(d)))

\* _mkdir_tracked: a missing parent (or the managed directory itself) is made and journaled.
MakeDir(n, d) ==
    /\ stage \in {"dirs", "files"} /\ step = "checked" /\ cur = n
    /\ d \in Above[n] \cup ({n} \cap Dirs)
    /\ ~Present(d) /\ \A a \in Above[d] : Present(a)
    /\ fs' = [fs EXCEPT ![d] = [val |-> DirMode, id |-> "own"]]
    /\ journal' = [journal EXCEPT ![d] = fs'[d]]
    /\ UNCHANGED <<litter, record, hashes, conflicts, control, history>>

DirNote(d) ==
    /\ At("dirs", "checked", d) /\ Present(d)
    /\ journal' = [journal EXCEPT ![d] = fs[d]]
    /\ Goto(stage, "noted", d, todo)
    /\ UNCHANGED <<disk, record, hashes, conflicts, history>>

\* Faulty variant: mkdir was enough, the mode is never set.
DirChmodMissing(d) ==
    /\ At("dirs", "noted", d)
    /\ Goto(stage, "written", d, todo)
    /\ UNCHANGED <<disk, record, ledger, history>>

DirChmod(d) ==
    /\ At("dirs", "noted", d)
    /\ IF fs[d].val = Odd
       THEN Raise /\ UNCHANGED <<fs, journal>>
       ELSE /\ fs' = [fs EXCEPT ![d].val = New[d]]
            /\ journal' = [journal EXCEPT ![d].val = New[d]]
            /\ Goto(stage, "written", d, todo)
    /\ UNCHANGED <<litter, record, hashes, conflicts, history>>

\* Faulty variant: only the check of all targets at the start, none before each write.
FileCheckMissing(f) == Pick("files", f) /\ CheckThenAct(f, TRUE)

FileCheck(f) == Pick("files", f) /\ CheckThenAct(f, Unchanged(f))

\* atomic_write or _atomic_symlink: a complete temporary file takes the name by os.replace,
\* and its receipt goes to the journal.
Write(f) ==
    /\ IF fs[f].val = Odd
       THEN Raise /\ UNCHANGED <<fs, journal>>
       ELSE /\ fs' = [fs EXCEPT ![f] = [val |-> New[f], id |-> "own"]]
            /\ journal' = [journal EXCEPT ![f] = fs'[f]]
            /\ Goto(stage, "written", f, todo)
    /\ UNCHANGED <<litter, record, hashes, conflicts, history>>

FileWrite(f) == At("files", "checked", f) /\ (\A d \in Above[f] : Present(d)) /\ Write(f)

\* What was written is read back and compared with the receipt.
ReadBack(n) ==
    /\ stage \in {"dirs", "files", "state"} /\ step = "written" /\ cur = n
    /\ IF fs[n] # journal[n] THEN Raise
       ELSE IF stage = "files" THEN Goto(stage, "verified", n, todo)
       ELSE Drop(n)
    /\ UNCHANGED <<disk, record, ledger, history>>

\* installed_hashes takes the digest of the path as it is now, not the one of the receipt.
FileHash(f) ==
    /\ At("files", "verified", f)
    /\ IF fs[f].val \in {Absent, Odd}
       THEN Raise /\ UNCHANGED hashes
       ELSE Drop(f) /\ hashes' = [hashes EXCEPT ![f] = Digest[fs[f].val]]
    /\ UNCHANGED <<disk, record, journal, conflicts, history>>

RemoveCheck(r) == Pick("remove", r) /\ CheckThenAct(r, StillInstalled(r))

\* Faulty variant: the removal does not reach the journal.
RemoveUnjournaled(r) ==
    /\ At("remove", "checked", r) /\ fs[r].val \notin {Absent, Odd}
    /\ fs' = [fs EXCEPT ![r] = Missing]
    /\ Drop(r)
    /\ UNCHANGED <<litter, record, ledger, history>>

\* Faulty variant: the receipt of a removal looks like the one of a file.
RemoveMisjournaled(r) ==
    /\ At("remove", "checked", r) /\ fs[r].val \notin {Absent, Odd}
    /\ fs' = [fs EXCEPT ![r] = Missing]
    /\ journal' = [journal EXCEPT ![r].id = "own"]
    /\ Drop(r)
    /\ UNCHANGED <<litter, record, hashes, conflicts, history>>

Remove(r) ==
    /\ At("remove", "checked", r)
    /\ IF fs[r].val \in {Absent, Odd}
       THEN Raise /\ UNCHANGED <<fs, journal>>
       ELSE /\ fs' = [fs EXCEPT ![r] = Missing]
            /\ journal' = [journal EXCEPT ![r] = Missing]
            /\ Drop(r)
    /\ UNCHANGED <<litter, record, hashes, conflicts, history>>

-------------------------------------------------------------------------------
(* complete(): state.json is replaced only if it is still the one the run read *)

StateCheck == Pick("state", StateFile) /\ CheckThenAct(StateFile, fs[StateFile] = seal)

StateWrite == At("state", "checked", StateFile) /\ Write(StateFile)

\* The report is written, failed.json cleared: the run is over.
Finish ==
    /\ stage = "report" /\ step = "pick"
    /\ Goto("done", "pick", None, {})
    /\ UNCHANGED <<disk, record, ledger, history>>

\* Any other exception on the way: a validator, a service, a health check, the disk.
Fail ==
    /\ stage \in ForwardStages
    /\ Raise
    /\ UNCHANGED <<disk, record, ledger, history>>

-------------------------------------------------------------------------------
(* restore_backup(backup, expected_current=mutation_journal) *)

RestoreAborted == Goto("rollbackfailed", "pick", None, {})

RestoreCheck(n) ==
    /\ Pick("restore", n) /\ (n \in Dirs => todo \cap Files = {})
    /\ LET own == journal[n] # NoReceipt
           intact == fs[n] = journal[n] IN
       /\ IF own /\ intact /\ n \in Files THEN Take(n) ELSE Drop(n)
       /\ conflicts' = IF own /\ ~intact THEN conflicts \cup {n} ELSE conflicts
    /\ UNCHANGED <<disk, record, journal, hashes, history>>

RestoreFile(f) ==
    /\ At("restore", "checked", f)
    /\ IF fs[f].val = Odd
       THEN RestoreAborted /\ UNCHANGED fs
       ELSE IF entry[f] \in Links
       THEN Goto(stage, "unlinked", f, todo) /\ fs' = [fs EXCEPT ![f] = Missing]
       ELSE /\ Drop(f)
            /\ fs' = [fs EXCEPT ![f] = IF entry[f] = Absent THEN Missing
                                       ELSE [val |-> payload[f], id |-> "own"]]
    /\ UNCHANGED <<litter, record, ledger, history>>

RestoreLink(f) ==
    /\ At("restore", "unlinked", f)
    /\ IF Present(f)
       THEN RestoreAborted /\ UNCHANGED fs
       ELSE Drop(f) /\ fs' = [fs EXCEPT ![f] = [val |-> entry[f], id |-> "own"]]
    /\ UNCHANGED <<litter, record, ledger, history>>

Empty(d) == d \notin litter /\ \A n \in Nodes : d \in Above[n] => ~Present(n)

\* Faulty variant: a directory that cannot be removed is tried again.
RestoreDirRetry(d) ==
    /\ Pick("restoredirs", d) /\ \A e \in todo : d \notin Above[e]
    /\ entry[d] = Absent /\ Empty(d)
    /\ Drop(d)
    /\ fs' = [fs EXCEPT ![d] = Missing]
    /\ UNCHANGED <<litter, record, ledger, history>>

\* The directories last, from the leaves up; rmdir refuses one that is not empty.
RestoreDir(d) ==
    /\ Pick("restoredirs", d) /\ \A e \in todo : d \notin Above[e]
    /\ IF fs[d].val = Odd
       THEN RestoreAborted /\ UNCHANGED <<fs, conflicts>>
       ELSE /\ Drop(d)
            /\ fs' = [fs EXCEPT ![d] =
                 CASE entry[d] # Absent -> [val |-> entry[d],
                                            id |-> IF Present(d) THEN @.id ELSE "own"]
                   [] entry[d] = Absent /\ Empty(d) -> Missing
                   [] OTHER -> @]
            /\ conflicts' = IF entry[d] = Absent /\ Present(d) /\ ~Empty(d)
                            THEN conflicts \cup {d} ELSE conflicts
    /\ UNCHANGED <<litter, record, journal, hashes, history>>

RestoreFail ==
    /\ stage \in RestoreStages
    /\ RestoreAborted
    /\ UNCHANGED <<disk, record, ledger, history>>

-------------------------------------------------------------------------------
(* The other writer *)

\* Would the run find something else than it expects at n, had it been left in state s,
\* before it writes there?  This is what the checks above promise, control point by control point.
Noticed(n, s) ==
    IF journal[n] # NoReceipt
    THEN /\ s # journal[n]
         /\ ~(stage = "restore" /\ cur = n)
         /\ ~(stage = "dirs" /\ cur = n /\ step \in {"checked", "noted"})
         /\ n \in Dirs => ~(stage = "restore" /\ n \notin todo) /\ stage # "restoredirs"
    ELSE /\ cur # n
         /\ IF n = StateFile THEN s # seal
            ELSE IF n \in Removals /\ stage # "backup" /\ ~(stage = "precheck" /\ n \in todo)
            THEN s.val \in {Absent, Odd} \/ Digest[s.val] # Installed[n]
            ELSE entry[n] # None /\ s.val # entry[n]

\* In place it keeps the inode, otherwise it makes a new one.  It does not remove or
\* replace a directory.
CanEdit(n, s) ==
    /\ s # fs[n] /\ s.id \in {fs[n].id, "other", "none"}
    /\ (Present(n) /\ n \in Dirs) => s.val \notin {Absent, Odd} /\ s.id = fs[n].id
    /\ s # Missing => \A d \in Above[n] : Present(d)

\* restore_backup has already looked at n.
LookedAt(n) ==
    \/ stage = "restoredirs"
    \/ stage = "restore" /\ (n \notin todo \/ cur = n)

Edit(n, s) ==
    /\ edits < MaxEdits /\ stage \notin FinalStages
    /\ CanEdit(n, s)
    /\ fs' = [fs EXCEPT ![n] = s]
    /\ protected' = IF Noticed(n, s) THEN protected \cup {n} ELSE protected \ {n}
    /\ touched' = touched \cup {n} \cup Above[n]
    /\ late' = IF LookedAt(n) THEN late \cup {n} ELSE late
    /\ edits' = edits + 1
    /\ UNCHANGED <<litter, record, ledger, control>>

\* It leaves a file of its own in one of the directories.
Populate(d) ==
    /\ edits < MaxEdits /\ stage \notin FinalStages
    /\ Present(d) /\ d \notin litter
    /\ litter' = litter \cup {d}
    /\ touched' = touched \cup {d} \cup Above[d]
    /\ edits' = edits + 1
    /\ UNCHANGED <<fs, record, ledger, control, protected, late>>

-------------------------------------------------------------------------------
BackupStep == \E n \in Nodes : BackupCopy(n) \/ BackupRecord(n) \/ BackupDir(n)

CommitStep ==
    \E n \in Nodes :
        \/ Precheck(n) \/ ValidateRemoval(n)
        \/ DirCheck(n) \/ DirNote(n) \/ DirChmod(n) \/ \E d \in Dirs : MakeDir(n, d)
        \/ FileCheck(n) \/ FileWrite(n) \/ ReadBack(n) \/ FileHash(n)
        \/ RemoveCheck(n) \/ Remove(n)

StateStep == StateCheck \/ StateWrite \/ Finish

RestoreStep ==
    \E n \in Nodes : RestoreCheck(n) \/ RestoreFile(n) \/ RestoreLink(n) \/ RestoreDir(n)

Proceed == NextStage \/ BackupStep \/ CommitStep \/ StateStep \/ RestoreStep

Run == Proceed \/ Fail \/ RestoreFail

OtherWriter == (\E n \in Nodes, s \in States : Edit(n, s)) \/ \E d \in Dirs : Populate(d)

Over == stage \in FinalStages /\ UNCHANGED vars

Next == Run \/ OtherWriter \/ Over

\* The run is one thread that keeps going; nothing has to fail and nobody else has to act.
Spec == Init /\ [][Next]_vars /\ WF_vars(Proceed)

-------------------------------------------------------------------------------
TypeOK ==
    /\ fs \in [Nodes -> States] /\ litter \subseteq Dirs
    /\ entry \in [Nodes -> Vals \cup {Absent, None}]
    /\ payload \in [Nodes -> Vals \cup {Absent, None}]
    /\ seal \in States
    /\ journal \in [Nodes -> States \cup {NoReceipt}]
    /\ DOMAIN hashes = Generated
    /\ stage \in ForwardStages \cup RestoreStages \cup FinalStages
    /\ step \in {"pick", "checked", "noted", "written", "verified", "unlinked"}
    /\ cur \in Nodes \cup {None} /\ todo \subseteq Nodes
    /\ conflicts \subseteq Nodes /\ protected \subseteq Nodes
    /\ touched \subseteq Nodes /\ late \subseteq Nodes
    /\ edits \in 0 .. MaxEdits

(***************************************************************************)
(* No step of the run, neither the commit nor the restore, changes a path  *)
(* that holds an edit of the other writer which one of the checks could    *)
(* still see: commit_files and remove_managed_targets refuse, and          *)
(* restore_backup with the journal leaves it and reports a conflict.       *)
(***************************************************************************)
ForeignEditsKept == [][edits' = edits => \A n \in protected : fs'[n] = fs[n]]_vars

(***************************************************************************)
(* After a rollback that came to its end, every path nobody else touched   *)
(* is what the backup says it was, removed files, new directories and      *)
(* state.json included.                                                    *)
(***************************************************************************)
Restored ==
    stage = "rolledback" =>
        \A n \in Entries \ touched : fs[n].val = entry[n]

(***************************************************************************)
(* What the rollback could not put back it reports: a path the run wrote   *)
(* and that does not have the value of the backup is among the conflicts,  *)
(* unless it was edited after restore_backup had looked at it or while     *)
(* create_backup was copying it.                                           *)
(***************************************************************************)
ConflictsReported ==
    stage = "rolledback" =>
        \A n \in Nodes : journal[n] # NoReceipt /\ entry[n] # None /\ fs[n].val # entry[n] =>
            n \in conflicts \cup late \/ (n \in Files /\ payload[n] # entry[n])

(***************************************************************************)
(* A run that completes leaves the whole generated configuration in place: *)
(* the rendered files, the managed directories and modes, none of the      *)
(* removed files and the new state.json, but for what somebody edited.     *)
(***************************************************************************)
CommittedWhole ==
    stage = "done" =>
        /\ \A n \in (Generated \cup DirTargets \cup {StateFile}) \ touched : fs[n].val = New[n]
        /\ \A r \in Removals \ touched : fs[r] = Missing
        /\ \A f \in Generated \ touched : hashes[f] = Digest[New[f]]

(***************************************************************************)
(* Every run ends: committed, rolled back, or with a rollback that failed  *)
(* and says so.  No loop of the commit or of the restore waits for a path. *)
(***************************************************************************)
Terminates == <>(stage \in FinalStages)

(***************************************************************************)
(* What an attempt ends in: committed, everything is in place; restored    *)
(* with a conflict, the conflict is reported.                              *)
(***************************************************************************)
Outcome == CommittedWhole /\ ConflictsReported

=============================================================================
