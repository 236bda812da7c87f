------------------------- MODULE FileTransactionProofs -------------------------
(***************************************************************************)
(* Proofs about FileTransaction: type correctness, ForeignEditsKept, and   *)
(* what a run ends in (Restored, Outcome), for every set of paths, every   *)
(* start and any number of edits.                                          *)
(*                                                                         *)
(* ForeignEditsKept is about a step; what makes it true is the invariant   *)
(* Guard: a protected path is not the one the run is about to write, and   *)
(* the check that comes before the next write will fail on it.  Guard is   *)
(* preserved because the journal holds no receipt of a path that is still  *)
(* to be written (Discipline), and because a stage only works on its own   *)
(* paths (Shape, Recorded).                                                *)
(***************************************************************************)
EXTENDS FileTransaction, TLAPS

\* Where the control of the run can be.
Shape ==
    /\ step = "pick" <=> cur = None
    /\ cur # None => cur \in todo
    /\ step = "checked" => stage \in {"backup", "dirs", "files", "remove", "state", "restore"}
    /\ step = "noted" => stage = "dirs" /\ Present(cur) /\ journal[cur] \in States \ {Missing}
    /\ step = "written" => stage \in {"dirs", "files", "state"}
    /\ step = "verified" => stage = "files"
    /\ step = "unlinked" => stage = "restore" /\ entry[cur] \in Links
    /\ stage = "backup" /\ cur # None => cur \in Files
    /\ stage = "precheck" => todo \subseteq Generated \cup Removals \cup DirTargets
    /\ stage \in {"prevalidate", "revalidate", "remove"} => todo \subseteq Removals
    /\ stage = "dirs" => todo \subseteq DirTargets
    /\ stage = "files" => todo \subseteq Generated
    /\ stage = "state" => todo \subseteq {StateFile}
    /\ stage \in {"report"} \cup FinalStages => todo = {}
    /\ stage = "restore" => todo \subseteq Entries
    /\ stage = "restore" /\ cur # None => cur \in Files
    /\ stage = "restoredirs" => todo \subseteq {d \in Dirs \cap Entries : journal[d] # NoReceipt}

\* What the backup holds: a copy for every entry of an existing file.
Recorded ==
    /\ \A f \in Files : entry[f] \notin {Absent, None} => payload[f] \in Vals
    /\ stage = "backup" /\ cur # None => payload[cur] # None
    /\ stage = "backup" => \A n \in todo : entry[n] = None

\* The paths that are still to be written.
Pending ==
    CASE stage \in {"backup", "precheck", "prevalidate"} -> Nodes
      [] stage = "dirs" -> Files \cup (todo \ {cur})
      [] stage = "files" -> (todo \ (IF step \in {"written", "verified"} THEN {cur} ELSE {}))
                            \cup Removals \cup {StateFile}
      [] stage = "revalidate" -> Removals \cup {StateFile}
      [] stage = "remove" -> todo \cup {StateFile}
      [] stage = "state" -> todo \ (IF step = "written" THEN {cur} ELSE {})
      [] OTHER -> {}

Discipline ==
    /\ \A n \in Pending : journal[n] = NoReceipt
    /\ stage = "dirs" /\ cur # None => todo \cap Above[cur] = {}

\* A path with an edit the code can notice, and why the run will not write it.
GuardedJournaled(n) ==
    /\ stage \in ForwardStages \/ (stage = "restore" /\ n \in todo) => fs[n] # journal[n]
    /\ cur = n => step \in {"written", "verified"}
    /\ n \in Dirs /\ stage = "restore" /\ n \in Entries \ todo => n \in conflicts
    /\ stage = "restoredirs" => n \notin todo

GuardedUnwritten(n) ==
    /\ cur = n => stage = "backup"
    /\ stage \in ForwardStages =>
        /\ n = StateFile => fs[n] # seal
        /\ n \in Generated \cup DirTargets => entry[n] # None /\ fs[n].val # entry[n]
        /\ n \in Removals =>
              IF stage = "backup" \/ (stage = "precheck" /\ n \in todo)
              THEN entry[n] # None /\ fs[n].val # entry[n]
              ELSE ~StillInstalled(n)

Guard ==
    \A n \in protected :
        /\ IF journal[n] # NoReceipt THEN GuardedJournaled(n) ELSE GuardedUnwritten(n)
        /\ n \in Dirs /\ stage \in ForwardStages => Present(n)

IInv == TypeOK /\ Shape /\ Recorded /\ Discipline /\ Guard

-------------------------------------------------------------------------------
\* What an exception leaves unchanged is all but the control.
LEMMA RaiseKeepsIInv ==
    ASSUME IInv, stage \in ForwardStages, Raise, UNCHANGED <<disk, record, ledger, history>>
    PROVE  IInv'
<1> USE ConstantsAssumption DEF IInv, Raise, Goto, disk, record, ledger, history
<1>1. TypeOK'
  BY DEF TypeOK, Entries, ForwardStages, RestoreStages, FinalStages
<1>2. Shape'
  BY DEF TypeOK, Shape, Entries, Present, ForwardStages, FinalStages
<1>3. Recorded'
  BY DEF Recorded
<1>4. Discipline'
  BY DEF Discipline, Pending
<1>5. Guard'
  BY DEF TypeOK, Shape, Guard, GuardedJournaled, GuardedUnwritten, Entries, Present, ForwardStages
<1> QED
  BY <1>1, <1>2, <1>3, <1>4, <1>5

LEMMA InitIInv == Init => IInv
<1> SUFFICES ASSUME Init PROVE IInv
  OBVIOUS
<1> USE ConstantsAssumption DEF Init
<1>1. TypeOK
  BY DEF TypeOK, ForwardStages, BackupFiles, BackupDirs, Nodes, Present, NoReceipt, States, Missing, Ids
<1>2. Shape
  BY DEF Shape, FinalStages
<1>3. Recorded
  BY DEF Recorded, BackupFiles, BackupDirs, Nodes
<1>4. Discipline
  BY DEF Discipline, Pending
<1>5. Guard
  BY DEF Guard
<1> QED
  BY <1>1, <1>2, <1>3, <1>4, <1>5 DEF IInv

\* The steps of a loop that only look: they move the control and nothing else.
LEMMA NextStageKeepsIInv ==
    ASSUME IInv, NextStage
    PROVE  IInv'
<1> USE ConstantsAssumption DEF IInv, NextStage, Goto, disk, record, ledger, history
<1>1. stage \in DOMAIN After /\ stage' = After[stage] /\ todo' = Work(stage') /\ todo = {}
  OBVIOUS
<1>2. stage \in {"backup", "precheck", "prevalidate", "dirs", "files", "revalidate",
                 "remove", "state", "restore", "restoredirs"}
  BY <1>1 DEF After
<1>3. stage' \in {"precheck", "prevalidate", "dirs", "files", "revalidate", "remove",
                  "state", "report", "restoredirs", "rolledback"}
  BY <1>1, <1>2 DEF After
<1>4. TypeOK'
  BY <1>1, <1>3 DEF TypeOK, Work, Nodes, ForwardStages, RestoreStages, FinalStages
<1>5. Shape'
  BY <1>1, <1>3 DEF TypeOK, Shape, Work, Entries, Present, FinalStages
<1>6. Recorded'
  BY <1>1, <1>3 DEF Recorded
<1>7. Discipline'
  BY <1>1, <1>2 DEF Discipline, Pending, After, Work, Nodes, Shape
<1>8. Guard'
  BY <1>1, <1>2 DEF TypeOK, Shape, Guard, GuardedJournaled, GuardedUnwritten, After, Work,
     Entries, Present, StillInstalled, ForwardStages
<1> QED
  BY <1>4, <1>5, <1>6, <1>7, <1>8

LEMMA CheckKeepsIInv ==
    ASSUME IInv, NEW n \in Nodes, Precheck(n) \/ ValidateRemoval(n)
    PROVE  IInv'
<1> USE DEF IInv, Precheck, ValidateRemoval, CheckOnly, Pick
<1>1. stage \in {"precheck", "prevalidate", "revalidate"} /\ stage \in ForwardStages /\ n \in todo
      /\ UNCHANGED <<disk, record, ledger, history>>
  BY DEF ForwardStages
<1>2. CASE Raise
  BY <1>1, <1>2, RaiseKeepsIInv
<1>3. CASE ~Raise
  <2> USE <1>1, <1>3, ConstantsAssumption DEF Drop, Goto, disk, record, ledger, history
  <2>1. stage' = stage /\ todo' = todo \ {n} /\ cur' = None /\ step' = "pick"
        /\ (stage = "precheck" => Unchanged(n))
        /\ (stage # "precheck" => StillInstalled(n))
    OBVIOUS
  <2>2. TypeOK'
    BY <2>1 DEF TypeOK
  <2>3. Shape'
    BY <2>1 DEF TypeOK, Shape, Present, Entries, FinalStages
  <2>4. Recorded'
    BY <2>1 DEF Recorded
  <2>5. Discipline'
    BY <2>1 DEF Discipline, Pending
  <2>6. Guard'
    BY <2>1 DEF TypeOK, Shape, Guard, GuardedJournaled, GuardedUnwritten, Entries, Present,
       StillInstalled, Unchanged, ForwardStages, Discipline, Pending
  <2> QED
    BY <2>2, <2>3, <2>4, <2>5, <2>6
<1> QED
  BY <1>2, <1>3

LEMMA PickKeepsIInv ==
    ASSUME IInv, NEW n \in Nodes,
           DirCheck(n) \/ FileCheck(n) \/ RemoveCheck(n) \/ (n = StateFile /\ StateCheck)
    PROVE  IInv'
<1> USE DEF IInv, DirCheck, FileCheck, RemoveCheck, StateCheck, CheckThenAct, Pick
<1>1. stage \in {"dirs", "files", "remove", "state"} /\ stage \in ForwardStages /\ n \in todo
      /\ step = "pick" /\ UNCHANGED <<disk, record, ledger, history>>
  BY DEF ForwardStages
<1>2. CASE Raise
  BY <1>1, <1>2, RaiseKeepsIInv
<1>3. CASE ~Raise
  <2> USE <1>1, <1>3, ConstantsAssumption DEF Take, Goto, disk, record, ledger, history
  <2>1. stage' = stage /\ todo' = todo /\ cur' = n /\ step' = "checked" /\ cur = None
    BY DEF Shape
  <2>2. /\ stage = "dirs" => todo \cap Above[n] = {} /\ (journal[n] # NoReceipt \/ Unchanged(n))
        /\ stage = "files" => Unchanged(n)
        /\ stage = "remove" => StillInstalled(n)
        /\ stage = "state" => n = StateFile /\ fs[StateFile] = seal
    OBVIOUS
  <2>3. journal[n] = NoReceipt
    BY <2>1, ConstantsAssumption DEF Discipline, Pending, Shape, TypeOK, Nodes
  <2>4. TypeOK'
    BY <2>1 DEF TypeOK
  <2>5. Shape'
    BY <2>1 DEF TypeOK, Shape, Present, Entries, FinalStages
  <2>6. Recorded'
    BY <2>1 DEF Recorded
  <2>7. Discipline'
    BY <2>1, <2>2, <2>3 DEF Discipline, Pending, TypeOK
  <2>8. n \notin protected
    BY <2>2, <2>3 DEF Guard, GuardedUnwritten, Unchanged, Shape
  <2>9. Guard'
    BY <2>1, <2>8 DEF TypeOK, Shape, Guard, GuardedJournaled, GuardedUnwritten, Present,
       StillInstalled, ForwardStages
  <2> QED
    BY <2>4, <2>5, <2>6, <2>7, <2>9
<1> QED
  BY <1>2, <1>3

\* create_backup only fills the record.
LEMMA BackupKeepsIInv ==
    ASSUME IInv, NEW n \in Nodes, BackupCopy(n) \/ BackupRecord(n) \/ BackupDir(n)
    PROVE  IInv'
<1> USE DEF IInv, BackupCopy, BackupRecord, BackupDir, Pick, At
<1>1. stage = "backup" /\ stage \in ForwardStages /\ n \in todo
      /\ UNCHANGED <<disk, seal, ledger, history>>
  BY ConstantsAssumption DEF ForwardStages, Shape, TypeOK
<1>2. CASE Raise
  BY <1>1, <1>2, RaiseKeepsIInv DEF record, Raise, Goto, Drop, Take
<1>3. CASE ~Raise
  <2> USE <1>1, <1>3, ConstantsAssumption DEF Take, Drop, Goto, disk, ledger, history
  <2>1. CASE BackupCopy(n)
    <3> USE <2>1
    <3>1. /\ n \in Files /\ stage' = stage /\ todo' = todo /\ cur' = n /\ step' = "checked"
          /\ cur = None /\ payload' = [payload EXCEPT ![n] = fs[n].val] /\ entry' = entry
      BY DEF Shape
    <3>2. fs[n].val \in Vals \cup {Absent}
      BY DEF TypeOK, States, Missing
    <3>3. TypeOK'
      BY <3>1, <3>2 DEF TypeOK
    <3>4. Shape'
      BY <3>1 DEF TypeOK, Shape, Present, Entries, FinalStages
    <3>5. Recorded'
      BY <3>1, <3>2 DEF Recorded, TypeOK
    <3>6. Discipline'
      BY <3>1 DEF Discipline, Pending
    <3>7. Guard'
      BY <3>1 DEF TypeOK, Shape, Guard, GuardedJournaled, GuardedUnwritten, Present,
         StillInstalled, ForwardStages, Discipline, Pending
    <3> QED
      BY <3>3, <3>4, <3>5, <3>6, <3>7
  <2>2. CASE BackupRecord(n) \/ BackupDir(n)
    <3> USE <2>2
    <3> DEFINE v == entry'[n]
    <3>1. /\ stage' = stage /\ todo' = todo \ {n} /\ cur' = None /\ step' = "pick"
          /\ payload' = payload
      OBVIOUS
    <3>2. /\ entry' = [entry EXCEPT ![n] = v] /\ v \in Vals \cup {Absent}
          /\ n \in Files /\ v # Absent => payload[n] \in Vals
      <4>1. fs[n].val \in Vals \cup {Absent}
        BY DEF TypeOK, States, Missing
      <4>2. CASE BackupRecord(n)
        BY <4>1, <4>2 DEF Recorded, TypeOK
      <4>3. CASE BackupDir(n)
        BY <4>1, <4>3 DEF TypeOK
      <4> QED
        BY <4>2, <4>3
    <3>3. TypeOK'
      BY <3>1, <3>2 DEF TypeOK
    <3>4. Shape'
      BY <3>1 DEF TypeOK, Shape, Present, Entries, FinalStages
    <3>5. Recorded'
      BY <3>1, <3>2 DEF Recorded, TypeOK, Nodes
    <3>6. Discipline'
      BY <3>1 DEF Discipline, Pending
    <3>7. Guard'
      BY <3>1, <3>2 DEF TypeOK, Shape, Guard, GuardedJournaled, GuardedUnwritten, Present,
         StillInstalled, ForwardStages, Discipline, Pending, Recorded
    <3> QED
      BY <3>3, <3>4, <3>5, <3>6, <3>7
  <2> QED
    BY <2>1, <2>2
<1> QED
  BY <1>2, <1>3

LEMMA DirKeepsIInv ==
    ASSUME IInv, NEW n \in Nodes, DirNote(n) \/ DirChmod(n)
    PROVE  IInv'
<1>0. /\ stage = "dirs" /\ n = cur /\ step \in {"checked", "noted"}
      /\ UNCHANGED <<litter, record, hashes, conflicts, history>>
  <2>1. CASE DirNote(n)
    BY <2>1 DEF DirNote, At, disk
  <2>2. CASE DirChmod(n)
    BY <2>2 DEF DirChmod, At
  <2> QED
    BY <2>1, <2>2
<1> USE DEF IInv, DirNote, DirChmod, At
<1>1. stage \in ForwardStages /\ n \in todo /\ n \in DirTargets /\ n \in Dirs /\ n \notin Files
  BY <1>0, ConstantsAssumption DEF ForwardStages, Shape, TypeOK
<1>2. CASE Raise
  BY <1>0, <1>1, <1>2, RaiseKeepsIInv DEF disk, ledger, Raise, Goto
<1>3. CASE ~Raise
  <2> USE <1>0, <1>1, <1>3, ConstantsAssumption DEF Goto, record, history
  <2>1. stage' = stage /\ todo' = todo /\ cur' = n
        /\ \/ step' = "noted" /\ fs' = fs /\ journal' = [journal EXCEPT ![n] = fs[n]] /\ Present(n)
           \/ /\ step' = "written" /\ step = "noted"
              /\ fs' = [fs EXCEPT ![n].val = New[n]]
              /\ journal' = [journal EXCEPT ![n].val = New[n]]
    BY DEF disk
  <2>2. n \notin protected
    BY DEF Guard, GuardedJournaled, GuardedUnwritten
  <2>3. New[n] \in Vals
    OBVIOUS
  <2>4. TypeOK' /\ fs'[n] \in States \ {Missing} /\ journal'[n] \in States \ {Missing}
    BY <2>1, <2>3 DEF TypeOK, Shape, States, Missing, Present, Ids
  <2>5. Shape'
    BY <2>1, <2>4 DEF TypeOK, Shape, Present, Entries, FinalStages
  <2>6. Recorded'
    BY <2>1 DEF Recorded
  <2>7. Discipline'
    BY <2>1 DEF Discipline, Pending, TypeOK, Nodes, Shape
  <2>8. Guard'
    BY <2>1, <2>2 DEF TypeOK, Shape, Guard, GuardedJournaled, GuardedUnwritten, Present,
       StillInstalled, ForwardStages
  <2> QED
    BY <2>4, <2>5, <2>6, <2>7, <2>8
<1> QED
  BY <1>2, <1>3

LEMMA MakeDirKeepsIInv ==
    ASSUME IInv, NEW n \in Nodes, NEW d \in Dirs, MakeDir(n, d)
    PROVE  IInv'
<1> USE ConstantsAssumption DEF IInv, MakeDir, record, control, history
<1>1. stage \in {"dirs", "files"} /\ stage \in ForwardStages /\ n = cur /\ n \in todo
      /\ step = "checked" /\ d \in Nodes /\ d \notin Files
      /\ (stage = "dirs" => d = n \/ d \notin todo)
  BY DEF ForwardStages, Shape, TypeOK, Nodes, Discipline
<1> DEFINE made == [val |-> DirMode, id |-> "own"]
<1>2. made \in States /\ made # Missing /\ made # NoReceipt
      /\ fs' = [fs EXCEPT ![d] = made] /\ journal' = [journal EXCEPT ![d] = made]
  BY <1>1 DEF States, Ids, Missing, NoReceipt, TypeOK
<1>3. d \notin protected
  BY <1>1 DEF Guard
<1> HIDE DEF made
<1>4. TypeOK'
  BY <1>1, <1>2 DEF TypeOK
<1>5. Shape'
  BY <1>1, <1>2 DEF TypeOK, Shape, Present, Entries, FinalStages
<1>6. Recorded'
  BY <1>1, <1>2 DEF Recorded
<1>7. Discipline'
  BY <1>1, <1>2 DEF Discipline, Pending, TypeOK, Shape
<1>8. Guard'
  BY <1>1, <1>2, <1>3 DEF TypeOK, Shape, Guard, GuardedJournaled, GuardedUnwritten, Present,
     StillInstalled, ForwardStages
<1> QED
  BY <1>4, <1>5, <1>6, <1>7, <1>8

LEMMA WriteKeepsIInv ==
    ASSUME IInv, NEW n \in Nodes, FileWrite(n) \/ (n = StateFile /\ StateWrite)
    PROVE  IInv'
<1> USE DEF IInv, FileWrite, StateWrite, Write, At
<1>1. stage \in {"files", "state"} /\ stage \in ForwardStages /\ n = cur /\ n \in todo
      /\ n \in Generated \cup {StateFile} /\ n \in Files /\ n \notin Dirs
      /\ step = "checked" /\ UNCHANGED <<litter, record, hashes, conflicts, history>>
  BY ConstantsAssumption DEF ForwardStages, Shape, TypeOK
<1>2. CASE Raise
  BY <1>1, <1>2, RaiseKeepsIInv DEF disk, ledger, Raise, Goto
<1>3. CASE ~Raise
  <2> USE <1>1, <1>3, ConstantsAssumption DEF Goto, record, history
  <2> DEFINE new == [val |-> New[n], id |-> "own"]
  <2>1. stage' = stage /\ todo' = todo /\ cur' = n /\ step' = "written"
        /\ fs' = [fs EXCEPT ![n] = new] /\ journal' = [journal EXCEPT ![n] = new]
    BY DEF TypeOK
  <2>2. new \in States /\ new # NoReceipt
    BY DEF States, Ids, NoReceipt
  <2>3. n \notin protected
    BY DEF Guard, GuardedJournaled, GuardedUnwritten
  <2> HIDE DEF new
  <2>4. TypeOK'
    BY <2>1, <2>2 DEF TypeOK
  <2>5. Shape'
    BY <2>1, <2>2 DEF TypeOK, Shape, Present, Entries, FinalStages
  <2>6. Recorded'
    BY <2>1 DEF Recorded
  <2>7. Discipline'
    BY <2>1 DEF Discipline, Pending, TypeOK, Nodes, Shape
  <2>8. Guard'
    BY <2>1, <2>2, <2>3 DEF TypeOK, Shape, Guard, GuardedJournaled, GuardedUnwritten, Present,
       StillInstalled, ForwardStages
  <2> QED
    BY <2>4, <2>5, <2>6, <2>7, <2>8
<1> QED
  BY <1>2, <1>3

LEMMA ReadBackKeepsIInv ==
    ASSUME IInv, NEW n \in Nodes, ReadBack(n) \/ FileHash(n)
    PROVE  IInv'
<1> USE DEF IInv, ReadBack, FileHash, At
<1>1. stage \in {"dirs", "files", "state"} /\ stage \in ForwardStages /\ n = cur /\ n \in todo
      /\ step \in {"written", "verified"}
      /\ UNCHANGED <<disk, record, journal, conflicts, history>>
  BY DEF ForwardStages, Shape, TypeOK, ledger
<1>2. CASE Raise
  BY <1>1, <1>2, RaiseKeepsIInv, ConstantsAssumption DEF ledger, Raise, Goto, Drop
<1>3. CASE ~Raise
  <2> USE <1>1, <1>3, ConstantsAssumption DEF Drop, Goto, disk, record, ledger, history
  <2>1. stage' = stage
        /\ \/ todo' = todo /\ cur' = n /\ step' = "verified" /\ stage = "files" /\ hashes' = hashes
           \/ todo' = todo \ {n} /\ cur' = None /\ step' = "pick"
    BY DEF Shape
  <2>2. DOMAIN hashes' = DOMAIN hashes
    OBVIOUS
  <2>3. TypeOK'
    BY <2>1, <2>2 DEF TypeOK
  <2>4. Shape'
    BY <2>1 DEF TypeOK, Shape, Present, Entries, FinalStages
  <2>5. Recorded'
    BY <2>1 DEF Recorded
  <2>6. Discipline'
    BY <2>1 DEF Discipline, Pending, TypeOK, Shape
  <2>7. Guard'
    BY <2>1 DEF TypeOK, Shape, Guard, GuardedJournaled, GuardedUnwritten, Present,
       StillInstalled, ForwardStages
  <2> QED
    BY <2>3, <2>4, <2>5, <2>6, <2>7
<1> QED
  BY <1>2, <1>3

LEMMA RemoveKeepsIInv ==
    ASSUME IInv, NEW n \in Nodes, Remove(n)
    PROVE  IInv'
<1> USE DEF IInv, Remove, At
<1>1. stage = "remove" /\ stage \in ForwardStages /\ n = cur /\ n \in todo /\ n \in Removals
      /\ n \in Files /\ n \notin Dirs /\ n \notin Generated /\ n # StateFile
      /\ step = "checked" /\ UNCHANGED <<litter, record, hashes, conflicts, history>>
  BY ConstantsAssumption DEF ForwardStages, Shape, TypeOK
<1>2. CASE Raise
  BY <1>1, <1>2, RaiseKeepsIInv, ConstantsAssumption DEF disk, ledger, Raise, Goto, Drop
<1>3. CASE ~Raise
  <2> USE <1>1, <1>3, ConstantsAssumption DEF Drop, Goto, record, history
  <2>1. stage' = stage /\ todo' = todo \ {n} /\ cur' = None /\ step' = "pick"
        /\ fs' = [fs EXCEPT ![n] = Missing] /\ journal' = [journal EXCEPT ![n] = Missing]
    OBVIOUS
  <2>2. Missing \in States /\ Missing # NoReceipt
    BY DEF States, Missing, NoReceipt
  <2>3. n \notin protected
    BY DEF Guard, GuardedJournaled, GuardedUnwritten
  <2>4. TypeOK'
    BY <2>1, <2>2 DEF TypeOK
  <2>5. Shape'
    BY <2>1, <2>2 DEF TypeOK, Shape, Present, Entries, FinalStages
  <2>6. Recorded'
    BY <2>1 DEF Recorded
  <2>7. Discipline'
    BY <2>1 DEF Discipline, Pending, TypeOK, Nodes
  <2>8. Guard'
    BY <2>1, <2>2, <2>3 DEF TypeOK, Shape, Guard, GuardedJournaled, GuardedUnwritten, Present,
       StillInstalled, ForwardStages
  <2> QED
    BY <2>4, <2>5, <2>6, <2>7, <2>8
<1> QED
  BY <1>2, <1>3

LEMMA EndKeepsIInv ==
    ASSUME IInv, Finish \/ Fail \/ RestoreFail
    PROVE  IInv'
<1>1. CASE Fail
  BY <1>1, RaiseKeepsIInv DEF Fail
<1>2. CASE Finish \/ RestoreFail
  <2> USE <1>2, ConstantsAssumption
          DEF IInv, Finish, RestoreFail, RestoreAborted, Goto, disk, record, ledger, history
  <2>1. /\ stage' \in {"done", "rollbackfailed"} /\ todo' = {} /\ cur' = None /\ step' = "pick"
        /\ UNCHANGED <<disk, record, ledger, history>>
    OBVIOUS
  <2>2. TypeOK'
    BY <2>1 DEF TypeOK, FinalStages
  <2>3. Shape'
    BY <2>1 DEF Shape, FinalStages
  <2>4. Recorded'
    BY <2>1 DEF Recorded
  <2>5. Discipline'
    BY <2>1 DEF Discipline, Pending
  <2>6. Guard'
    BY <2>1 DEF TypeOK, Guard, GuardedJournaled, GuardedUnwritten, ForwardStages
  <2> QED
    BY <2>2, <2>3, <2>4, <2>5, <2>6
<1> QED
  BY <1>1, <1>2

\* The restore writes the path it has just found intact, which is not a protected one.
LEMMA RestoreKeepsIInv ==
    ASSUME IInv, NEW n \in Nodes,
           RestoreCheck(n) \/ RestoreFile(n) \/ RestoreLink(n) \/ RestoreDir(n)
    PROVE  IInv' /\ \A m \in protected : fs'[m] = fs[m]
<1> USE ConstantsAssumption
<1>1. CASE RestoreCheck(n)
  <2> USE <1>1 DEF IInv, RestoreCheck, Pick, Take, Drop, Goto, disk, record, history
  <2>1. /\ stage = "restore" /\ stage' = stage /\ cur = None /\ n \in todo
        /\ journal' = journal /\ fs' = fs
        /\ \/ /\ todo' = todo /\ cur' = n /\ step' = "checked" /\ n \in Files
              /\ journal[n] # NoReceipt /\ fs[n] = journal[n] /\ conflicts' = conflicts
           \/ /\ todo' = todo \ {n} /\ cur' = None /\ step' = "pick"
              /\ IF journal[n] # NoReceipt /\ fs[n] # journal[n]
                 THEN conflicts' = conflicts \cup {n} ELSE conflicts' = conflicts
    BY DEF Shape
  <2>2. TypeOK'
    BY <2>1 DEF TypeOK
  <2>3. Shape'
    BY <2>1 DEF TypeOK, Shape, Present, Entries, FinalStages
  <2>4. Recorded'
    BY <2>1 DEF Recorded
  <2>5. Discipline'
    BY <2>1 DEF Discipline, Pending
  <2>6. Guard'
    BY <2>1 DEF TypeOK, Shape, Guard, GuardedJournaled, GuardedUnwritten, Entries, ForwardStages
  <2> QED
    BY <2>1, <2>2, <2>3, <2>4, <2>5, <2>6
<1>2. CASE RestoreFile(n) \/ RestoreLink(n)
  <2> USE <1>2 DEF IInv, RestoreFile, RestoreLink, At, RestoreAborted, Drop, Goto, record, ledger, history
  <2>1. /\ stage = "restore" /\ cur = n /\ n \in todo /\ n \in Files /\ n \notin Dirs
        /\ step \in {"checked", "unlinked"}
    BY DEF Shape, TypeOK
  <2>2. PICK s \in States : fs' = [fs EXCEPT ![n] = s]
    <3>1. entry[n] \in Vals \cup {Absent} /\ (entry[n] # Absent => payload[n] \in Vals)
      BY <2>1 DEF Recorded, TypeOK, Shape, Entries
    <3>2. CASE RestoreFile(n)
      BY <3>1, <3>2, <2>1 DEF TypeOK, States, Missing, Ids
    <3>3. CASE RestoreLink(n)
      BY <3>1, <3>3, <2>1 DEF TypeOK, States, Missing, Ids, Shape
    <3> QED
      BY <3>2, <3>3
  <2>3. /\ stage' \in {"restore", "rollbackfailed"} /\ journal' = journal /\ conflicts' = conflicts
        /\ stage' = "rollbackfailed" => todo' = {} /\ cur' = None /\ step' = "pick"
        /\ stage' = "restore" =>
              \/ todo' = todo \ {n} /\ cur' = None /\ step' = "pick"
              \/ todo' = todo /\ cur' = n /\ step' = "unlinked" /\ entry[n] \in Links
    BY <2>1
  <2>4. n \notin protected
    BY <2>1 DEF Guard, GuardedJournaled, GuardedUnwritten
  <2>5. TypeOK'
    BY <2>1, <2>2, <2>3 DEF TypeOK, FinalStages
  <2>6. Shape'
    BY <2>1, <2>2, <2>3 DEF TypeOK, Shape, Present, Entries, FinalStages
  <2>7. Recorded'
    BY <2>3 DEF Recorded
  <2>8. Discipline'
    BY <2>3 DEF Discipline, Pending
  <2>9. Guard'
    BY <2>1, <2>2, <2>3, <2>4 DEF TypeOK, Guard, GuardedJournaled, GuardedUnwritten, Entries, ForwardStages
  <2> QED
    BY <2>1, <2>2, <2>4, <2>5, <2>6, <2>7, <2>8, <2>9 DEF TypeOK
<1>3. CASE RestoreDir(n)
  <2> USE <1>3 DEF IInv, RestoreDir, Pick, RestoreAborted, Drop, Goto, record, ledger, history
  <2>1. stage = "restoredirs" /\ cur = None /\ n \in todo /\ n \in Dirs /\ journal[n] # NoReceipt
    BY DEF Shape
  <2>2. PICK s \in States : fs' = [fs EXCEPT ![n] = s]
    <3>1. entry[n] \in Vals \cup {Absent}
      BY <2>1 DEF TypeOK, Shape, Entries
    <3> QED
      BY <3>1, <2>1 DEF TypeOK, States, Missing, Ids, Present
  <2>3. /\ stage' \in {"restoredirs", "rollbackfailed"} /\ journal' = journal
        /\ cur' = None /\ step' = "pick" /\ conflicts' \in {conflicts, conflicts \cup {n}}
        /\ stage' = "rollbackfailed" => todo' = {}
        /\ stage' = "restoredirs" => todo' = todo \ {n}
    BY <2>1
  <2>4. n \notin protected
    BY <2>1 DEF Guard, GuardedJournaled
  <2>5. TypeOK'
    BY <2>1, <2>2, <2>3 DEF TypeOK, FinalStages
  <2>6. Shape'
    BY <2>1, <2>2, <2>3 DEF TypeOK, Shape, Present, Entries, FinalStages
  <2>7. Recorded'
    BY <2>3 DEF Recorded
  <2>8. Discipline'
    BY <2>3 DEF Discipline, Pending
  <2>9. Guard'
    BY <2>1, <2>2, <2>3, <2>4 DEF TypeOK, Guard, GuardedJournaled, GuardedUnwritten, ForwardStages
  <2> QED
    BY <2>1, <2>2, <2>4, <2>5, <2>6, <2>7, <2>8, <2>9 DEF TypeOK
<1> QED
  BY <1>1, <1>2, <1>3

\* The other writer: an edit is protected only where the code is still going to look.
LEMMA EditKeepsIInv ==
    ASSUME IInv, NEW n \in Nodes, NEW s \in States, Edit(n, s)
    PROVE  IInv'
<1> USE ConstantsAssumption DEF IInv, Edit, record, ledger, control
<1>1. /\ stage \notin FinalStages /\ edits < MaxEdits /\ edits' = edits + 1
      /\ fs' = [fs EXCEPT ![n] = s] /\ UNCHANGED <<litter, record, ledger, control>>
      /\ (n \in Dirs /\ Present(n) => s # Missing) /\ (s # fs[n])
  BY DEF CanEdit, Missing
<1>2. TypeOK'
  BY <1>1 DEF TypeOK, Nodes
<1>3. Shape'
  BY <1>1 DEF TypeOK, Shape, Present, Entries, FinalStages
<1>4. Recorded'
  BY <1>1 DEF Recorded
<1>5. Discipline'
  BY <1>1 DEF Discipline, Pending
<1>6. ASSUME NEW m \in protected'
      PROVE  (/\ IF journal[m] # NoReceipt THEN GuardedJournaled(m) ELSE GuardedUnwritten(m)
              /\ m \in Dirs /\ stage \in ForwardStages => Present(m))'
  <2>1. CASE m # n
    BY <1>1, <2>1, <1>6 DEF TypeOK, Guard, GuardedJournaled, GuardedUnwritten, Entries, Present, StillInstalled
  <2>2. CASE m = n
    <3> USE <2>2
    <3>1. Noticed(n, s) /\ fs'[n] = s
      BY <1>1, <1>6 DEF TypeOK
    <3>2. Present(n)' \/ n \notin Dirs
      BY <1>1, <3>1 DEF Present
    <3>3. CASE journal[n] # NoReceipt
      <4>1. cur = n => step \in {"written", "verified"}
        BY <3>1, <3>3 DEF Noticed, Shape, Discipline, Pending, TypeOK
      <4>2. journal' = journal /\ stage' = stage /\ todo' = todo /\ cur' = cur /\ step' = step
        BY <1>1
      <4>3. fs'[n] # journal'[n] /\ (n \in Dirs => stage # "restoredirs" /\ ~(stage = "restore" /\ n \notin todo))
        BY <3>1, <3>3, <4>2 DEF Noticed
      <4>4. stage = "restoredirs" => n \notin todo
        BY <4>3, <3>3 DEF Shape
      <4>5. GuardedJournaled(n)'
        BY <4>1, <4>2, <4>3, <4>4 DEF GuardedJournaled
      <4> QED
        BY <4>2, <4>5, <3>2, <3>3
    <3>4. CASE journal[n] = NoReceipt
      BY <1>1, <3>1, <3>2, <3>4 DEF Noticed, GuardedUnwritten, StillInstalled
    <3> QED
      BY <3>3, <3>4
  <2> QED
    BY <2>1, <2>2
<1>7. Guard'
  BY <1>6 DEF Guard
<1> QED
  BY <1>2, <1>3, <1>4, <1>5, <1>7

LEMMA PopulateKeepsIInv ==
    ASSUME IInv, NEW d \in Dirs, Populate(d)
    PROVE  IInv'
<1> USE ConstantsAssumption DEF IInv, Populate, record, ledger, control
<1>1. TypeOK'
  BY DEF TypeOK, Nodes
<1>2. Shape'
  BY DEF Shape, Present, Entries
<1>3. Recorded' /\ Discipline'
  BY DEF Recorded, Discipline, Pending
<1>4. Guard'
  BY DEF Guard, GuardedJournaled, GuardedUnwritten, Entries, Present, StillInstalled
<1> QED
  BY <1>1, <1>2, <1>3, <1>4

LEMMA NextKeepsIInv == IInv /\ [Next]_vars => IInv'
<1> SUFFICES ASSUME IInv, [Next]_vars PROVE IInv'
  OBVIOUS
<1>1. CASE NextStage
  BY <1>1, NextStageKeepsIInv
<1>2. CASE BackupStep
  BY <1>2, BackupKeepsIInv DEF BackupStep
<1>3. CASE CommitStep
  <2>1. PICK n \in Nodes :
            \/ Precheck(n) \/ ValidateRemoval(n)
            \/ DirCheck(n) \/ DirNote(n) \/ DirChmod(n) \/ \E d \in Dirs : MakeDir(n, d)
            \/ FileCheck(n) \/ FileWrite(n) \/ ReadBack(n) \/ FileHash(n)
            \/ RemoveCheck(n) \/ Remove(n)
    BY <1>3 DEF CommitStep
  <2> QED
    BY <2>1, CheckKeepsIInv, PickKeepsIInv, DirKeepsIInv, MakeDirKeepsIInv, WriteKeepsIInv,
       ReadBackKeepsIInv, RemoveKeepsIInv
<1>4. CASE StateStep \/ Fail \/ RestoreFail
  BY <1>4, PickKeepsIInv, WriteKeepsIInv, EndKeepsIInv, ConstantsAssumption DEF StateStep, Nodes
<1>5. CASE RestoreStep
  BY <1>5, RestoreKeepsIInv DEF RestoreStep
<1>6. CASE OtherWriter
  BY <1>6, EditKeepsIInv, PopulateKeepsIInv DEF OtherWriter
<1>7. CASE Over \/ UNCHANGED vars
  BY <1>7 DEF Over, vars, disk, record, ledger, control, history, IInv, TypeOK, Shape, Recorded,
     Discipline, Pending, Guard, GuardedJournaled, GuardedUnwritten, Present, Entries, StillInstalled
<1> QED
  BY <1>1, <1>2, <1>3, <1>4, <1>5, <1>6, <1>7 DEF Next, Run, Proceed

(***************************************************************************)
(* Every variable keeps its type; in particular a path is never left in a  *)
(* state no file system has, and a receipt is always that of a real state. *)
(***************************************************************************)
THEOREM TypeCorrect == Spec => []TypeOK
<1>1. IInv => TypeOK
  BY DEF IInv
<1> QED
  BY <1>1, InitIInv, NextKeepsIInv, PTL DEF Spec

(***************************************************************************)
(* A step of the run never changes a protected path.                       *)
(***************************************************************************)
LEMMA RunKeepsForeignEdits ==
    ASSUME IInv, [Next]_vars, edits' = edits, NEW m \in protected
    PROVE  fs'[m] = fs[m]
<1>1. CASE \E n \in Nodes : DirNote(n) \/ DirChmod(n)
  BY <1>1 DEF DirNote, DirChmod, At, IInv, Guard, GuardedJournaled, GuardedUnwritten, TypeOK, disk
<1>2. CASE \E n \in Nodes, d \in Dirs : MakeDir(n, d)
  BY <1>2, ConstantsAssumption DEF MakeDir, IInv, Guard, TypeOK, ForwardStages
<1>3. CASE \E n \in Nodes : FileWrite(n) \/ (n = StateFile /\ StateWrite)
  BY <1>3 DEF FileWrite, StateWrite, Write, At, IInv, Guard, GuardedJournaled, GuardedUnwritten, TypeOK
<1>4. CASE \E n \in Nodes : Remove(n)
  BY <1>4 DEF Remove, At, IInv, Guard, GuardedJournaled, GuardedUnwritten, TypeOK
<1>5. CASE RestoreStep
  BY <1>5, RestoreKeepsIInv DEF RestoreStep
<1>6. CASE fs' = fs
  BY <1>6
<1>7. \/ \E n \in Nodes : DirNote(n) \/ DirChmod(n)
      \/ \E n \in Nodes, d \in Dirs : MakeDir(n, d)
      \/ \E n \in Nodes : FileWrite(n) \/ (n = StateFile /\ StateWrite)
      \/ \E n \in Nodes : Remove(n)
      \/ RestoreStep \/ fs' = fs
  <2>1. CASE NextStage \/ BackupStep \/ Fail \/ RestoreFail \/ Over \/ UNCHANGED vars
    BY <2>1 DEF NextStage, BackupStep, BackupCopy, BackupRecord, BackupDir, Fail, RestoreFail,
       Over, vars, disk
  <2>2. CASE CommitStep
    BY <2>2 DEF CommitStep, Precheck, ValidateRemoval, DirCheck, FileCheck, RemoveCheck, CheckOnly,
       CheckThenAct, ReadBack, FileHash, disk
  <2>3. CASE StateStep
    BY <2>3, ConstantsAssumption DEF StateStep, StateCheck, CheckThenAct, Finish, disk, Nodes
  <2>4. CASE OtherWriter
    BY <2>4 DEF OtherWriter, Edit, Populate, IInv, TypeOK
  <2> QED
    BY <2>1, <2>2, <2>3, <2>4 DEF Next, Run, Proceed
<1> QED
  BY <1>1, <1>2, <1>3, <1>4, <1>5, <1>6, <1>7

(***************************************************************************)
(* commit_files, remove_managed_targets, save_state and restore_backup     *)
(* never overwrite or remove an edit of another writer that one of their   *)
(* checks could see, whatever the paths, the start and the interleaving.   *)
(***************************************************************************)
THEOREM ForeignEditsAreKept == Spec => ForeignEditsKept
<1>1. IInv /\ [Next]_vars =>
        [edits' = edits => \A n \in protected : fs'[n] = fs[n]]_vars
  BY RunKeepsForeignEdits
<1> QED
  BY <1>1, InitIInv, NextKeepsIInv, PTL DEF Spec, ForeignEditsKept

-------------------------------------------------------------------------------
(***************************************************************************)
(* What a rollback puts back and a commit leaves in place.                 *)
(*                                                                         *)
(* Restored and Outcome speak of the last state of a run; the invariant    *)
(* RInv says at each of its steps what is known of a path.  A path nobody  *)
(* else touched holds what the backup has of it as long as the journal has *)
(* no receipt, and what the receipt says from then on, until the restore   *)
(* has put it back (Untouched).  A directory that the run has made can be  *)
(* removed because all below it was made by the run, and was restored      *)
(* before (Below).  What the restore has dealt with is back, or reported,  *)
(* or was edited in between (Reported).                                    *)
(***************************************************************************)

\* What create_backup has to record: nothing is written before it has an entry.
Scope == BackupFiles \cup BackupDirs

Covered ==
    /\ stage = "backup" => \A n \in Scope : n \in todo \/ entry[n] # None
    /\ stage \in ForwardStages \ {"backup"} => \A n \in Scope : entry[n] # None
    /\ \A n \in Nodes : journal[n] # NoReceipt => entry[n] # None
    /\ stage = "restore" /\ cur # None => journal[cur] # NoReceipt

\* An edit below a directory counts as one of the directory; no path without its parents.
Rooted ==
    /\ \A n \in touched : Above[n] \subseteq touched
    /\ late \subseteq touched
    /\ stage = "backup" =>
        /\ \A d \in litter : Present(d)
        /\ \A n \in Nodes : Present(n) => \A d \in Above[n] : Present(d)

Copied(n) ==
    /\ n \in Files /\ entry[n] # None => payload[n] = entry[n]
    /\ stage = "backup" /\ cur = n => payload[n] = fs[n].val

\* A path as the run last left it: what was recorded of it, or what the journal says.
Alone(n) ==
    /\ n \notin conflicts
    /\ IF journal[n] = NoReceipt
       THEN entry[n] # None => fs[n].val = entry[n]
       ELSE \/ stage \in ForwardStages
            \/ stage = "restore" /\ (n \in Dirs \/ (n \in todo /\ ~(step = "unlinked" /\ cur = n)))
            \/ stage = "restoredirs" /\ n \in todo
            => fs[n] = journal[n]

\* Below a directory that was not there, only what the run has made itself.
Below(d) ==
    entry[d] = Absent =>
        /\ d \notin litter
        /\ \A n \in Nodes : d \in Above[n] =>
              IF journal[n] = NoReceipt THEN ~Present(n) ELSE entry[n] = Absent

Untouched ==
    /\ \A n \in Nodes \ touched : Copied(n) /\ Alone(n)
    /\ \A d \in Dirs \ touched : Below(d)

\* What the restore is done with.
Settled(n) ==
    CASE stage = "restore" -> n \in Files /\ n \notin todo
      [] stage = "restoredirs" -> n \notin todo
      [] stage = "rolledback" -> TRUE
      [] OTHER -> FALSE

Reported ==
    \A n \in Entries \ (conflicts \cup late) : journal[n] # NoReceipt /\ Settled(n) =>
        fs[n].val = entry[n] \/ (n \in Files /\ payload[n] # entry[n])

\* The stages after one of the commit, and how far that one has come with a path.
Past(s) ==
    CASE s = "dirs" -> {"files", "revalidate", "remove", "state", "report", "done"}
      [] s = "files" -> {"revalidate", "remove", "state", "report", "done"}
      [] s = "remove" -> {"state", "report", "done"}
      [] s = "state" -> {"report", "done"}

Reached(s, n, steps) ==
    \/ stage \in Past(s)
    \/ stage = s /\ (n \notin todo \/ (cur = n /\ step \in steps))

Written ==
    /\ \A d \in DirTargets \ touched : Reached("dirs", d, {"written"}) => fs[d].val = New[d]
    /\ \A f \in Generated \ touched :
         /\ Reached("files", f, {"written", "verified"}) => fs[f].val = New[f]
         /\ Reached("files", f, {}) => hashes[f] = Digest[New[f]]
    /\ \A r \in Removals \ touched : Reached("remove", r, {}) => fs[r] = Missing
    /\ StateFile \notin touched =>
         (Reached("state", StateFile, {"written"}) => fs[StateFile].val = New[StateFile])

RInv == Covered /\ Rooted /\ Untouched /\ Reported /\ Written

LEMMA ScopeOfNodes == Scope' \subseteq Nodes /\ BackupDirs' \subseteq Dirs
  BY ConstantsAssumption DEF Scope, BackupFiles, BackupDirs, Nodes

LEMMA InitRInv == Init => RInv
<1> SUFFICES ASSUME Init PROVE RInv
  OBVIOUS
<1> USE ConstantsAssumption DEF Init
<1>1. Covered
  BY DEF Covered, Scope
<1>2. Rooted
  BY DEF Rooted, Present
<1>3. Untouched
  BY DEF Untouched, Copied, Alone, Below, Nodes
<1>4. Reported
  BY DEF Reported, Settled
<1>5. Written
  BY DEF Written, Reached, Past
<1> QED
  BY <1>1, <1>2, <1>3, <1>4, <1>5 DEF RInv

\* An exception: nothing has been settled yet.
LEMMA RaiseKeepsRInv ==
    ASSUME IInv, RInv, stage \in ForwardStages, Raise, UNCHANGED <<disk, record, ledger, history>>
    PROVE  RInv'
<1> USE ConstantsAssumption DEF RInv, Raise, Goto, disk, record, ledger, history
<1>1. Covered'
  BY DEF Covered, ForwardStages
<1>2. Rooted'
  BY DEF Rooted
<1>3. Untouched'
  BY DEF Untouched, Copied, Alone, Below, Present, ForwardStages, Entries
<1>4. Reported'
  BY DEF Reported, Settled, Entries, Nodes
<1>5. Written'
  BY DEF Written, Reached, Past
<1> QED
  BY <1>1, <1>2, <1>3, <1>4, <1>5

LEMMA NextStageKeepsRInv ==
    ASSUME IInv, IInv', RInv, NextStage
    PROVE  RInv'
<1> USE ConstantsAssumption DEF RInv, NextStage, Goto, disk, record, ledger, history
<1>1. stage \in DOMAIN After /\ stage' = After[stage] /\ todo' = Work(stage') /\ todo = {}
      /\ cur' = None /\ step' = "pick"
  OBVIOUS
<1>2. stage \in {"backup", "precheck", "prevalidate", "dirs", "files", "revalidate",
                 "remove", "state", "restore", "restoredirs"}
  BY <1>1 DEF After
<1>3. Covered'
  BY <1>1, <1>2 DEF Covered, Scope, After, ForwardStages, BackupDirs, BackupFiles, Present
<1>4. Rooted'
  BY <1>1, <1>2 DEF Rooted, After
<1>5. Untouched'
  BY <1>1, <1>2 DEF Untouched, Copied, Alone, Below, Present, ForwardStages, After, Work, Entries, Nodes
<1>6. Reported'
  BY <1>1, <1>2 DEF Reported, Settled, Entries, After, Work, Nodes
<1>7. Written'
  BY <1>1, <1>2 DEF Written, Reached, Past, After, Work
<1> QED
  BY <1>3, <1>4, <1>5, <1>6, <1>7

\* create_backup: what it records of a path is what the path holds.
LEMMA BackupKeepsRInv ==
    ASSUME IInv, IInv', RInv, NEW n \in Nodes, BackupCopy(n) \/ BackupRecord(n) \/ BackupDir(n)
    PROVE  RInv'
<1> USE DEF RInv, BackupCopy, BackupRecord, BackupDir, Pick, At
<1>1. stage = "backup" /\ stage \in ForwardStages /\ n \in todo
      /\ UNCHANGED <<disk, seal, ledger, history>>
      /\ \A m \in Nodes : journal[m] = NoReceipt
  BY ConstantsAssumption DEF ForwardStages, Shape, TypeOK, IInv, Discipline, Pending
<1>2. CASE Raise
  BY <1>1, <1>2, RaiseKeepsRInv DEF record, Raise, Goto, Drop, Take
<1>3. CASE ~Raise
  <2> USE <1>1, <1>3, ConstantsAssumption DEF Take, Drop, Goto, disk, ledger, history
  <2>1. CASE BackupCopy(n)
    <3> USE <2>1
    <3>1. /\ n \in Files /\ stage' = stage /\ todo' = todo /\ cur' = n /\ step' = "checked"
          /\ payload' = [payload EXCEPT ![n] = fs[n].val] /\ entry' = entry
          /\ entry[n] = None
      BY DEF Shape, IInv, Recorded
    <3>2. Covered'
      BY <3>1 DEF Covered, Scope, BackupDirs, BackupFiles, Present
    <3>3. Rooted'
      BY <3>1 DEF Rooted, Present
    <3>4. Untouched'
      BY <3>1 DEF Untouched, Copied, Alone, Below, Present, IInv, TypeOK
    <3>5. Reported' /\ Written'
      BY <3>1 DEF Reported, Settled, Written, Reached, Past, Entries
    <3> QED
      BY <3>2, <3>3, <3>4, <3>5
  <2>2. CASE BackupRecord(n) \/ BackupDir(n)
    <3> USE <2>2
    <3>1. /\ stage' = stage /\ todo' = todo \ {n} /\ cur' = None /\ step' = "pick"
          /\ payload' = payload
      OBVIOUS
    <3>2. PICK v \in Vals \cup {Absent} : entry' = [entry EXCEPT ![n] = v]
      <4>1. fs[n].val \in Vals \cup {Absent}
        BY DEF IInv, TypeOK, States, Missing
      <4>2. payload[n] # None => payload[n] \in Vals \cup {Absent}
        BY DEF IInv, TypeOK
      <4> QED
        BY <4>1, <4>2 DEF IInv, Recorded
    <3>3. n \notin touched => v = fs[n].val /\ (n \in Files => payload[n] = v)
      BY <3>2 DEF Untouched, Copied, IInv, TypeOK
    <3>4. entry'[n] = v /\ v # None
      BY <3>2 DEF IInv, TypeOK
    <3>5. Covered'
      BY <3>1, <3>2, <3>4 DEF Covered, Scope, BackupDirs, BackupFiles, Present, IInv, TypeOK
    <3>6. Rooted'
      BY <3>1 DEF Rooted, Present
    <3>7. \A m \in Nodes \ touched : (Copied(m) /\ Alone(m))'
      BY <3>1, <3>2, <3>3 DEF Untouched, Copied, Alone, IInv, TypeOK
    <3>8. \A d \in Dirs \ touched : Below(d)'
      <4> SUFFICES ASSUME NEW d \in Dirs \ touched, entry'[d] = Absent
                   PROVE  d \notin litter /\ \A m \in Nodes : d \in Above[m] => ~Present(m)
        BY DEF Below, Present
      <4>1. CASE d = n
        <5>1. ~Present(d)
          BY <4>1, <3>3, <3>4 DEF Present, IInv, TypeOK, States
        <5> QED
          BY <5>1 DEF Rooted
      <4>2. CASE d # n
        BY <4>2, <3>2 DEF Untouched, Below, IInv, TypeOK, Nodes
      <4> QED
        BY <4>1, <4>2
    <3>9. Reported' /\ Written'
      BY <3>1 DEF Reported, Settled, Written, Reached, Past, Entries
    <3> QED
      BY <3>5, <3>6, <3>7, <3>8, <3>9 DEF Untouched
  <2> QED
    BY <2>1, <2>2
<1> QED
  BY <1>2, <1>3

\* The checks of a commit, and what reads back: only the control moves, and hashes.
LEMMA CheckKeepsRInv ==
    ASSUME IInv, IInv', RInv, NEW n \in Nodes,
           \/ Precheck(n) \/ ValidateRemoval(n)
           \/ DirCheck(n) \/ FileCheck(n) \/ RemoveCheck(n) \/ (n = StateFile /\ StateCheck)
    PROVE  RInv'
<1> USE DEF RInv, Precheck, ValidateRemoval, CheckOnly, CheckThenAct, DirCheck, FileCheck, RemoveCheck,
            StateCheck, Pick
<1>1. stage \in {"precheck", "prevalidate", "dirs", "files", "revalidate", "remove", "state"}
      /\ stage \in ForwardStages /\ n \in todo /\ UNCHANGED <<disk, record, ledger, history>>
  BY DEF ForwardStages
<1>2. CASE Raise
  BY <1>1, <1>2, RaiseKeepsRInv
<1>3. CASE ~Raise
  <2> USE <1>1, <1>3, ConstantsAssumption DEF Drop, Take, Goto, disk, record, ledger, history
  <2>1. /\ stage' = stage
        /\ \/ stage \in {"precheck", "prevalidate", "revalidate"} /\ todo' = todo \ {n}
           \/ cur' = n /\ step' = "checked" /\ todo' = todo /\ step = "pick"
    OBVIOUS
  <2>2. Covered'
    BY <2>1 DEF Covered, Scope, BackupDirs, BackupFiles, Present
  <2>3. Rooted'
    BY <2>1 DEF Rooted
  <2>4. Untouched'
    BY <2>1 DEF Untouched, Copied, Alone, Below, Present
  <2>5. Reported'
    BY <2>1 DEF Reported, Settled
  <2>6. Written'
    BY <2>1 DEF Written, Reached, Past, IInv, Shape, TypeOK, Nodes
  <2> QED
    BY <2>2, <2>3, <2>4, <2>5, <2>6
<1> QED
  BY <1>2, <1>3

LEMMA ReadBackKeepsRInv ==
    ASSUME IInv, IInv', RInv, NEW n \in Nodes, ReadBack(n) \/ FileHash(n)
    PROVE  RInv'
<1> USE DEF RInv, ReadBack, FileHash, At
<1>1. stage \in {"dirs", "files", "state"} /\ stage \in ForwardStages /\ n = cur /\ n \in todo
      /\ step \in {"written", "verified"}
      /\ UNCHANGED <<disk, record, journal, conflicts, history>>
  BY DEF ForwardStages, Shape, TypeOK, ledger, IInv
<1>2. CASE Raise
  BY <1>1, <1>2, RaiseKeepsRInv, ConstantsAssumption DEF ledger, Raise, Goto, Drop
<1>3. CASE ~Raise
  <2> USE <1>1, <1>3, ConstantsAssumption DEF Drop, Goto, disk, record, ledger, history
  <2>1. stage' = stage
        /\ \/ todo' = todo /\ cur' = n /\ step' = "verified" /\ stage = "files" /\ hashes' = hashes
              /\ step = "written"
           \/ todo' = todo \ {n} /\ step = "written" /\ hashes' = hashes /\ stage \in {"dirs", "state"}
           \/ todo' = todo \ {n} /\ step = "verified" /\ stage = "files"
              /\ hashes' = [hashes EXCEPT ![n] = Digest[fs[n].val]]
    BY DEF IInv, Shape
  <2>2. Covered'
    BY <2>1 DEF Covered, Scope, BackupDirs, BackupFiles, Present
  <2>3. Rooted'
    BY <2>1 DEF Rooted
  <2>4. Untouched'
    BY <2>1 DEF Untouched, Copied, Alone, Below, Present
  <2>5. Reported'
    BY <2>1 DEF Reported, Settled
  <2>6. Written'
    BY <2>1 DEF Written, Reached, Past, IInv, Shape, TypeOK, Nodes
  <2> QED
    BY <2>2, <2>3, <2>4, <2>5, <2>6
<1> QED
  BY <1>2, <1>3

(***************************************************************************)
(* The steps of the commit that write: the path and its receipt in one.    *)
(***************************************************************************)
LEMMA WriteKeeps ==
    ASSUME IInv, IInv', RInv, NEW n \in Nodes, NEW s \in States,
           stage \in {"dirs", "files", "remove", "state"}, stage' = stage, entry[n] # None,
           fs' = [fs EXCEPT ![n] = s], journal' = [journal EXCEPT ![n] = s],
           UNCHANGED <<litter, record, conflicts, history>>
    PROVE  Covered' /\ Rooted' /\ Untouched' /\ Reported'
<1> USE ConstantsAssumption DEF RInv, record, history
<1>0. stage # "backup" /\ stage \in ForwardStages /\ fs'[n] = s /\ journal'[n] = s /\ s # NoReceipt
      /\ \A m \in Nodes \ {n} : fs'[m] = fs[m] /\ journal'[m] = journal[m]
  BY DEF ForwardStages, IInv, TypeOK, States, NoReceipt, Missing
<1>1. Covered'
  <2>1. \A d \in Dirs : Present(d)' => Present(d) \/ d = n
    BY <1>0, ConstantsAssumption DEF Present, Nodes
  <2>2. \A d \in Dirs : ~Present(d)' => ~Present(d) \/ d = n
    BY <1>0, ConstantsAssumption DEF Present, Nodes
  <2>3. \A m \in Scope' : m \in Scope \/ m = n
    BY <2>2, ScopeOfNodes DEF Scope, BackupDirs
  <2> QED
    BY <1>0, <2>3 DEF Covered
<1>2. Rooted'
  BY <1>0 DEF Rooted
<1>3. \A m \in Nodes \ touched : (Copied(m) /\ Alone(m))'
  BY <1>0 DEF Untouched, Copied, Alone
<1>4. \A d \in Dirs \ touched : Below(d)'
  <2> SUFFICES ASSUME NEW d \in Dirs \ touched, entry[d] = Absent, NEW m \in Nodes, d \in Above[m]
               PROVE  IF journal'[m] = NoReceipt THEN ~Present(m)' ELSE entry[m] = Absent
    BY DEF Below, Untouched, Present
  <2>1. IF journal[m] = NoReceipt THEN ~Present(m) ELSE entry[m] = Absent
    BY DEF Untouched, Below
  <2>2. CASE m # n
    BY <1>0, <2>1, <2>2 DEF Present
  <2>3. CASE m = n
    <3>1. n \notin touched
      BY <2>3 DEF Rooted
    <3>2. journal[n] = NoReceipt => fs[n].val = entry[n] /\ fs[n] = Missing
      BY <2>1, <2>3, <3>1 DEF Untouched, Alone, Present
    <3> QED
      BY <1>0, <2>1, <2>3, <3>2 DEF Missing
  <2> QED
    BY <2>2, <2>3
<1>5. Reported'
  BY <1>0 DEF Reported, Settled, ForwardStages
<1> QED
  BY <1>1, <1>2, <1>3, <1>4, <1>5 DEF Untouched

LEMMA DirKeepsRInv ==
    ASSUME IInv, IInv', RInv, NEW n \in Nodes, DirNote(n) \/ DirChmod(n)
    PROVE  RInv'
<1>0. /\ stage = "dirs" /\ n = cur /\ step \in {"checked", "noted"}
      /\ UNCHANGED <<litter, record, hashes, conflicts, history>>
  BY DEF DirNote, DirChmod, At, disk
<1>1. /\ stage \in ForwardStages /\ n \in todo /\ n \in DirTargets /\ n \in Dirs /\ n \notin Files
      /\ New[n] \in Vals
  BY <1>0, ConstantsAssumption DEF ForwardStages, Shape, TypeOK, IInv
<1>2. CASE Raise
  BY <1>0, <1>1, <1>2, RaiseKeepsRInv DEF disk, ledger, Raise, Goto, DirNote, DirChmod, At
<1>3. CASE ~Raise
  <2> USE <1>0, <1>1, <1>3 DEF Goto, record, history
  <2>1. stage' = stage /\ todo' = todo /\ cur' = n
        /\ \/ step' = "noted" /\ fs' = fs /\ journal' = [journal EXCEPT ![n] = fs[n]]
           \/ /\ step' = "written" /\ step = "noted"
              /\ fs' = [fs EXCEPT ![n].val = New[n]]
              /\ journal' = [journal EXCEPT ![n].val = New[n]]
    BY DEF disk, DirNote, DirChmod, At
  <2>2. entry[n] # None /\ n \in Scope
    BY DEF RInv, Covered, Scope, BackupDirs
  <2>3. step = "noted" => Present(n) /\ journal[n] \in States \ {Missing}
    BY DEF IInv, Shape
  <2>4. Covered' /\ Rooted' /\ Untouched' /\ Reported'
    <3>1. CASE fs'[n] = journal'[n]
      <4>1. PICK s \in States : fs' = [fs EXCEPT ![n] = s] /\ journal' = [journal EXCEPT ![n] = s]
        BY <3>1, <2>1 DEF IInv, TypeOK
      <4> HIDE DEF record, history
      <4> QED
        BY <4>1, <2>1, <2>2, WriteKeeps
    <3>2. CASE fs'[n] # journal'[n]
      \* Then somebody has edited the directory: nothing is said of it, but for its record.
      <4>1. n \in touched
        BY <3>2, <2>1, <2>3 DEF RInv, Untouched, Alone, IInv, TypeOK, NoReceipt, States, Missing
      <4>2. /\ \A m \in Nodes \ {n} : fs'[m] = fs[m] /\ journal'[m] = journal[m]
            /\ journal'[n] # NoReceipt /\ (Present(n) => Present(n)') /\ (~Present(n) => ~Present(n)')
            /\ journal[n] # NoReceipt
        BY <3>2, <2>1, <2>3, <1>1, ConstantsAssumption
        DEF IInv, TypeOK, Present, States, Missing, NoReceipt
      <4>3. Covered'
        BY <2>1, <2>2, <4>2, ConstantsAssumption
        DEF RInv, Covered, Scope, BackupDirs, BackupFiles, Present, Nodes
      <4>4. Rooted'
        BY <2>1 DEF RInv, Rooted
      <4>5. Untouched'
        BY <4>1, <4>2, <2>1 DEF RInv, Untouched, Copied, Alone, Below, Present, Nodes
      <4>6. Reported'
        BY <2>1 DEF RInv, Reported, Settled
      <4> QED
        BY <4>3, <4>4, <4>5, <4>6
    <3> QED
      BY <3>1, <3>2
  <2>5. Written'
    <3>1. \A d \in DirTargets \ {n} : fs'[d] = fs[d] /\ (d \in todo <=> d \in todo')
      BY <2>1, ConstantsAssumption DEF IInv, TypeOK, Nodes
    <3>2. step' = "written" => fs'[n].val = New[n]
      BY <2>1, <2>3 DEF IInv, TypeOK, Present, States, Missing
    <3> QED
      BY <1>1, <2>1, <3>1, <3>2, ConstantsAssumption DEF RInv, Written, Reached, Past
  <2> QED
    BY <2>4, <2>5 DEF RInv
<1> QED
  BY <1>2, <1>3

LEMMA MakeDirKeepsRInv ==
    ASSUME IInv, IInv', RInv, NEW n \in Nodes, NEW d \in Dirs, MakeDir(n, d)
    PROVE  RInv'
<1> DEFINE made == [val |-> DirMode, id |-> "own"]
<1>1. /\ stage \in {"dirs", "files"} /\ stage \in ForwardStages /\ stage # "backup" /\ n = cur
      /\ n \in todo /\ step = "checked" /\ d \in Nodes /\ d \notin Files /\ ~Present(d)
      /\ d \in Above[n] \cup ({n} \cap Dirs)
      /\ UNCHANGED <<litter, record, hashes, conflicts, control, history>>
  BY ConstantsAssumption DEF MakeDir, ForwardStages, Shape, TypeOK, IInv, Nodes
<1>2. made \in States /\ fs' = [fs EXCEPT ![d] = made] /\ journal' = [journal EXCEPT ![d] = made]
  BY <1>1, ConstantsAssumption DEF MakeDir, States, Ids, IInv, TypeOK, Missing
<1> HIDE DEF made
<1>3. n \in DirTargets \cup Generated
  BY <1>1 DEF IInv, Shape
<1>4. d \in Scope
  BY <1>1, <1>3, ConstantsAssumption DEF Scope, BackupDirs, BackupFiles
<1>5. stage' = stage /\ entry[d] # None
  BY <1>1, <1>4 DEF RInv, Covered, control
<1>6. Covered' /\ Rooted' /\ Untouched' /\ Reported'
  BY <1>1, <1>2, <1>5, WriteKeeps
<1>7. Written'
  <2>1. \A m \in Nodes \ {d} : fs'[m] = fs[m]
    BY <1>2 DEF IInv, TypeOK
  <2>2. d \in DirTargets => fs[d].val # New[d]
    BY <1>1, ConstantsAssumption DEF Present, Missing
  <2> QED
    BY <1>1, <2>1, <2>2, ConstantsAssumption DEF RInv, Written, Reached, Past, control, history, Nodes
<1> QED
  BY <1>6, <1>7 DEF RInv

LEMMA FileKeepsRInv ==
    ASSUME IInv, IInv', RInv, NEW n \in Nodes,
           FileWrite(n) \/ (n = StateFile /\ StateWrite) \/ Remove(n)
    PROVE  RInv'
<1>1. /\ stage \in {"files", "state", "remove"} /\ stage \in ForwardStages /\ stage # "backup"
      /\ n = cur /\ n \in todo /\ n \in Generated \cup Removals \cup {StateFile} /\ n \in Files
      /\ n \notin Dirs /\ step = "checked" /\ UNCHANGED <<litter, record, hashes, conflicts, history>>
      /\ (stage = "files" => n \in Generated) /\ (stage = "state" => n = StateFile)
      /\ (stage = "remove" => n \in Removals)
  BY ConstantsAssumption DEF FileWrite, StateWrite, Write, Remove, At, ForwardStages, Shape, TypeOK, IInv
<1>2. CASE Raise
  BY <1>1, <1>2, RaiseKeepsRInv, ConstantsAssumption
  DEF disk, ledger, Raise, Goto, FileWrite, StateWrite, Write, Remove, At, Drop
<1>3. CASE ~Raise
  <2>1. PICK s \in States :
          /\ stage' = stage /\ fs' = [fs EXCEPT ![n] = s] /\ journal' = [journal EXCEPT ![n] = s]
          /\ \/ s = Missing /\ stage = "remove" /\ todo' = todo \ {n}
             \/ s.val = New[n] /\ stage # "remove" /\ todo' = todo /\ cur' = n /\ step' = "written"
    <3> DEFINE new == [val |-> New[n], id |-> "own"]
    <3>1. CASE Remove(n)
      BY <1>1, <1>3, <3>1 DEF Remove, At, Drop, Goto, States
    <3>2. CASE FileWrite(n) \/ (n = StateFile /\ StateWrite)
      <4>1. stage # "remove" /\ n \in Generated \cup {StateFile}
        BY <1>1, <3>2 DEF FileWrite, StateWrite, At
      <4>2. new \in States /\ new.val = New[n]
        BY <4>1, ConstantsAssumption DEF States, Ids
      <4>3. stage' = stage /\ todo' = todo /\ cur' = n /\ step' = "written"
            /\ fs' = [fs EXCEPT ![n] = new] /\ journal' = [journal EXCEPT ![n] = new]
        BY <1>1, <1>3, <3>2 DEF FileWrite, StateWrite, Write, At, Goto, IInv, TypeOK
      <4> HIDE DEF new
      <4> QED
        BY <4>1, <4>2, <4>3
    <3> QED
      BY <3>1, <3>2
  <2>2. n \in Scope /\ entry[n] # None
    BY <1>1 DEF RInv, Covered, Scope, BackupFiles
  <2>3. Covered' /\ Rooted' /\ Untouched' /\ Reported'
    BY <1>1, <2>1, <2>2, WriteKeeps
  <2>4. Written'
    <3>1. /\ \A m \in Nodes \ {n} : fs'[m] = fs[m] /\ (m \in todo <=> m \in todo')
          /\ stage = "remove" => fs'[n] = Missing
          /\ stage # "remove" => fs'[n].val = New[n]
      BY <2>1 DEF IInv, TypeOK
    <3> QED
      BY <1>1, <2>1, <3>1, ConstantsAssumption DEF RInv, Written, Reached, Past, record, history, Nodes
  <2> QED
    BY <2>3, <2>4 DEF RInv
<1> QED
  BY <1>2, <1>3

LEMMA EndKeepsRInv ==
    ASSUME IInv, IInv', RInv, Finish \/ Fail \/ RestoreFail
    PROVE  RInv'
<1>1. CASE Fail
  BY <1>1, RaiseKeepsRInv DEF Fail
<1>2. CASE Finish \/ RestoreFail
  <2> USE <1>2 DEF RInv, Finish, RestoreFail, RestoreAborted, Goto, disk, record, ledger, history
  <2>1. /\ stage' \in {"done", "rollbackfailed"} /\ (stage' = "done" => stage = "report")
        /\ UNCHANGED <<disk, record, ledger, history>>
    OBVIOUS
  <2>2. Covered'
    BY <2>1 DEF Covered, ForwardStages
  <2>3. Rooted'
    BY <2>1 DEF Rooted
  <2>4. Untouched'
    BY <2>1 DEF Untouched, Copied, Alone, Below, Present, ForwardStages
  <2>5. Reported'
    BY <2>1 DEF Reported, Settled
  <2>6. Written'
    BY <2>1 DEF Written, Reached, Past
  <2> QED
    BY <2>2, <2>3, <2>4, <2>5, <2>6
<1> QED
  BY <1>1, <1>2

(***************************************************************************)
(* The restore.                                                            *)
(***************************************************************************)
LEMMA RestoreCheckKeepsRInv ==
    ASSUME IInv, IInv', RInv, NEW n \in Nodes, RestoreCheck(n)
    PROVE  RInv'
<1> USE DEF RInv, RestoreCheck, Pick, Take, Drop, Goto, disk, record, history
<1>1. /\ stage = "restore" /\ stage' = stage /\ cur = None /\ n \in todo
      /\ UNCHANGED <<fs, litter, entry, payload, journal, hashes, touched, late>>
      /\ \/ /\ todo' = todo /\ cur' = n /\ step' = "checked" /\ conflicts' = conflicts
         \/ /\ todo' = todo \ {n} /\ cur' = None /\ step' = "pick"
            /\ n \in Files => journal[n] = NoReceipt \/ n \in conflicts'
            /\ conflicts' = IF journal[n] # NoReceipt /\ fs[n] # journal[n]
                            THEN conflicts \cup {n} ELSE conflicts
  BY DEF IInv, Shape
<1>2. n \notin touched => n \notin conflicts'
  BY <1>1, ConstantsAssumption DEF Untouched, Alone, Nodes
<1>3. Covered'
  BY <1>1 DEF Covered, ForwardStages
<1>4. Rooted'
  BY <1>1 DEF Rooted
<1>5. Untouched'
  <2>1. \A m \in Nodes \ touched : Alone(m)'
    BY <1>1, <1>2, ConstantsAssumption DEF Untouched, Alone, ForwardStages, Nodes
  <2> QED
    BY <1>1, <2>1 DEF Untouched, Copied, Below, Present
<1>6. Reported'
  BY <1>1 DEF Reported, Settled, Entries
<1>7. Written'
  BY <1>1 DEF Written, Reached, Past
<1> QED
  BY <1>3, <1>4, <1>5, <1>6, <1>7

LEMMA RestoreFileKeepsRInv ==
    ASSUME IInv, IInv', RInv, NEW n \in Nodes, RestoreFile(n) \/ RestoreLink(n)
    PROVE  RInv'
<1>1. /\ stage = "restore" /\ cur = n /\ n \in todo /\ n \in Files /\ n \notin Dirs /\ n \in Entries
      /\ step \in {"checked", "unlinked"}
      /\ UNCHANGED <<litter, record, ledger, history>>
  BY ConstantsAssumption DEF RestoreFile, RestoreLink, At, IInv, Shape, TypeOK
<1>2. \/ stage' = "rollbackfailed" /\ fs' = fs
      \/ stage' = "restore" /\ todo' = todo /\ cur' = n /\ step' = "unlinked" /\ fs' = [fs EXCEPT ![n] = Missing]
      \/ /\ stage' = "restore" /\ todo' = todo \ {n} /\ cur' = None /\ step' = "pick"
         /\ \E s \in States : fs' = [fs EXCEPT ![n] = s] /\ s.val \in {entry[n], payload[n]}
  <2>1. entry[n] \in Vals \cup {Absent} /\ (entry[n] # Absent => payload[n] \in Vals)
    BY <1>1 DEF IInv, Recorded, TypeOK, Entries
  <2>2. CASE RestoreFile(n)
    <3>1. CASE stage' = "rollbackfailed" \/ entry[n] \in Links
      BY <1>1, <2>2, <3>1 DEF RestoreFile, At, RestoreAborted, Drop, Goto
    <3>2. CASE stage' # "rollbackfailed" /\ entry[n] \notin Links
      <4> DEFINE s == IF entry[n] = Absent THEN Missing ELSE [val |-> payload[n], id |-> "own"]
      <4>1. s \in States /\ s.val \in {entry[n], payload[n]}
        BY <2>1 DEF States, Ids, Missing
      <4>2. fs' = [fs EXCEPT ![n] = s] /\ stage' = "restore" /\ todo' = todo \ {n} /\ cur' = None
            /\ step' = "pick"
        BY <1>1, <2>2, <3>2 DEF RestoreFile, At, RestoreAborted, Drop, Goto
      <4> QED
        BY <4>1, <4>2
    <3> QED
      BY <3>1, <3>2
  <2>3. CASE RestoreLink(n)
    <3> DEFINE s == [val |-> entry[n], id |-> "own"]
    <3>1. s \in States
      BY <2>1, <2>3, <1>1, ConstantsAssumption DEF RestoreLink, At, IInv, Shape, States, Ids
    <3> QED
      BY <1>1, <2>3, <3>1 DEF RestoreLink, At, RestoreAborted, Drop, Goto
  <2> QED
    BY <2>2, <2>3
<1>3. \A m \in Nodes \ {n} : fs'[m] = fs[m]
  BY <1>2 DEF IInv, TypeOK
<1>4. journal[n] # NoReceipt
  BY <1>1, ConstantsAssumption DEF RInv, Covered
<1>5. entry' = entry /\ payload' = payload /\ journal' = journal /\ conflicts' = conflicts
      /\ litter' = litter /\ touched' = touched /\ late' = late /\ stage' # "backup"
      /\ stage' \notin ForwardStages
  BY <1>1, <1>2 DEF record, ledger, history, ForwardStages
<1>6. Covered'
  BY <1>1, <1>2, <1>4, <1>5 DEF RInv, Covered
<1>7. Rooted'
  BY <1>5 DEF RInv, Rooted
<1>8. Untouched'
  <2>1. \A m \in Nodes \ touched : Copied(m)'
    BY <1>5 DEF RInv, Untouched, Copied
  <2>2. \A m \in Nodes \ (touched \cup {n}) : Alone(m)'
    BY <1>1, <1>2, <1>3, <1>5 DEF RInv, Untouched, Alone, ForwardStages
  <2>3. n \notin touched => Alone(n)'
    BY <1>1, <1>2, <1>4, <1>5 DEF RInv, Untouched, Alone, IInv, TypeOK
  <2>4. \A d \in Dirs \ touched : Below(d)'
    BY <1>3, <1>4, <1>5 DEF RInv, Untouched, Below, Present
  <2> QED
    BY <1>5, <2>1, <2>2, <2>3, <2>4 DEF Untouched
<1>9. Reported'
  <2> SUFFICES ASSUME NEW m \in Entries \ (conflicts \cup late), journal[m] # NoReceipt, Settled(m)'
               PROVE  fs'[m].val = entry[m] \/ (m \in Files /\ payload[m] # entry[m])
    BY <1>5 DEF Reported, Entries
  <2>1. CASE m = n
    BY <1>1, <1>2, <2>1 DEF Settled, IInv, TypeOK
  <2>2. CASE m # n
    BY <1>1, <1>2, <1>3, <2>2 DEF RInv, Reported, Settled, Entries
  <2> QED
    BY <2>1, <2>2
<1>10. Written'
  BY <1>2 DEF Written, Reached, Past
<1> QED
  BY <1>6, <1>7, <1>8, <1>9, <1>10 DEF RInv

LEMMA RestoreDirKeepsRInv ==
    ASSUME IInv, IInv', RInv, NEW n \in Nodes, RestoreDir(n)
    PROVE  RInv'
<1>1. /\ stage = "restoredirs" /\ n \in todo /\ n \in Dirs /\ n \notin Files /\ n \in Entries
      /\ journal[n] # NoReceipt /\ \A e \in todo : n \notin Above[e]
      /\ UNCHANGED <<litter, record, journal, hashes, history>>
  BY ConstantsAssumption DEF RestoreDir, Pick, IInv, Shape
<1>2. CASE stage' = "rollbackfailed"
  <2>1. UNCHANGED <<fs, conflicts>>
    BY <1>1, <1>2 DEF RestoreDir, Pick, Drop, Goto
  <2> QED
    BY <1>1, <1>2, <2>1
    DEF RInv, Covered, Rooted, Untouched, Copied, Alone, Below, Present, Reported, Settled, Written,
        Reached, Past, ForwardStages, record, history
<1>3. CASE stage' # "rollbackfailed"
  <2>1. /\ stage' = stage /\ todo' = todo \ {n} /\ cur' = None /\ step' = "pick"
        /\ fs' = [fs EXCEPT ![n] =
                 CASE entry[n] # Absent -> [val |-> entry[n],
                                            id |-> IF Present(n) THEN @.id ELSE "own"]
                   [] entry[n] = Absent /\ Empty(n) -> Missing
                   [] OTHER -> @]
        /\ conflicts' = IF entry[n] = Absent /\ Present(n) /\ ~Empty(n)
                        THEN conflicts \cup {n} ELSE conflicts
    BY <1>1, <1>3 DEF RestoreDir, RestoreAborted, Goto, Drop
  <2>2. /\ \A m \in Nodes \ {n} : fs'[m] = fs[m]
        /\ n \notin conflicts' => fs'[n].val = entry[n]
    BY <2>1 DEF IInv, TypeOK, Present, Missing
  \* All below an untouched directory was made by the run, and is gone by now.
  <2>3. n \notin touched => n \notin conflicts'
    <3>1. n \notin touched => n \notin conflicts
      BY <1>1 DEF RInv, Untouched, Alone, Entries
    <3> SUFFICES ASSUME n \notin touched, entry[n] = Absent PROVE Empty(n)
      BY <2>1, <3>1
    <3>2. n \notin litter
      BY <1>1 DEF RInv, Untouched, Below
    <3>3. ASSUME NEW m \in Nodes, n \in Above[m] PROVE ~Present(m)
      <4>1. /\ m \notin touched /\ m \notin todo /\ m \notin conflicts \cup late
            /\ IF journal[m] = NoReceipt THEN ~Present(m) ELSE entry[m] = Absent
        BY <1>1, <3>3 DEF RInv, Untouched, Alone, Below, Rooted
      <4>2. CASE journal[m] # NoReceipt
        <5>1. m \in Entries /\ (m \in Files => payload[m] = entry[m]) /\ Settled(m)
          BY <1>1, <4>1, <4>2, ConstantsAssumption DEF RInv, Covered, Entries, Untouched, Copied, Settled
        <5>2. fs[m].val = Absent
          BY <4>1, <4>2, <5>1 DEF RInv, Reported
        <5> QED
          BY <5>2, ConstantsAssumption DEF Present, IInv, TypeOK, States
      <4> QED
        BY <4>1, <4>2
    <3> QED
      BY <3>2, <3>3 DEF Empty
  <2>4. entry' = entry /\ payload' = payload /\ journal' = journal /\ litter' = litter
        /\ touched' = touched /\ late' = late
    BY <1>1 DEF record, history
  <2>5. Covered' /\ Rooted' /\ Written'
    BY <1>1, <2>1, <2>4 DEF RInv, Covered, Rooted, Written, Reached, Past, ForwardStages
  <2>6. \A m \in Nodes \ touched : (Copied(m) /\ Alone(m))'
    <3>1. \A m \in Nodes \ touched : m \notin conflicts'
      BY <2>1, <2>3 DEF RInv, Untouched, Alone
    <3> QED
      BY <1>1, <2>1, <2>2, <2>4, <3>1 DEF RInv, Untouched, Copied, Alone, ForwardStages
  <2>7. \A d \in Dirs \ touched : Below(d)'
    BY <1>1, <2>2, <2>4 DEF RInv, Untouched, Below, Present
  <2>8. Reported'
    BY <1>1, <2>1, <2>2, <2>4 DEF RInv, Reported, Settled, Entries
  <2> QED
    BY <2>4, <2>5, <2>6, <2>7, <2>8 DEF RInv, Untouched
<1> QED
  BY <1>2, <1>3

(***************************************************************************)
(* The other writer.                                                       *)
(***************************************************************************)
LEMMA EditKeepsRInv ==
    ASSUME IInv, IInv', RInv, NEW n \in Nodes, NEW s \in States, Edit(n, s)
    PROVE  RInv'
<1>1. /\ fs' = [fs EXCEPT ![n] = s] /\ touched' = touched \cup {n} \cup Above[n]
      /\ late' = IF LookedAt(n) THEN late \cup {n} ELSE late
      /\ UNCHANGED <<litter, record, ledger, control>>
      /\ (n \in Dirs /\ Present(n) => s # Missing)
      /\ (s # Missing => \A d \in Above[n] : Present(d))
      /\ stage \notin FinalStages
  BY DEF Edit, CanEdit, Missing
<1>2. fs'[n] = s /\ \A m \in Nodes \ {n} : fs'[m] = fs[m]
  BY <1>1 DEF IInv, TypeOK
<1>3. \A d \in Dirs : Present(d) => Present(d)'
  BY <1>1, <1>2 DEF Present, Nodes
<1>4. entry' = entry /\ payload' = payload /\ journal' = journal /\ conflicts' = conflicts
      /\ litter' = litter /\ stage' = stage /\ todo' = todo /\ cur' = cur /\ step' = step
      /\ hashes' = hashes
  BY <1>1 DEF record, ledger, control
<1>5. Covered'
  <2>1. Scope' \subseteq Scope
    BY <1>3, ScopeOfNodes DEF Scope, BackupDirs
  <2> QED
    BY <1>4, <2>1 DEF RInv, Covered
<1>6. Rooted'
  <2>1. \A m \in touched' : Above[m] \subseteq touched'
    BY <1>1, ConstantsAssumption DEF RInv, Rooted, Nodes
  <2>2. ASSUME stage = "backup", NEW m \in Nodes, Present(m)', NEW d \in Above[m] PROVE Present(d)'
    <3>1. Present(d) /\ d \in Dirs
      BY <1>1, <1>2, <2>2, ConstantsAssumption DEF RInv, Rooted, Present
    <3> QED
      BY <1>3, <3>1
  <2>3. ASSUME stage = "backup", NEW d \in litter PROVE Present(d)'
    BY <1>3, <2>3 DEF RInv, Rooted, IInv, TypeOK
  <2> QED
    BY <1>1, <1>4, <2>1, <2>2, <2>3 DEF RInv, Rooted
<1>7. \A m \in Nodes \ touched' : (Copied(m) /\ Alone(m))'
  BY <1>1, <1>2, <1>4 DEF RInv, Untouched, Copied, Alone
<1>8. \A d \in Dirs \ touched' : Below(d)'
  BY <1>1, <1>2, <1>4 DEF RInv, Untouched, Below, Present
<1>9. Reported'
  BY <1>1, <1>2, <1>4, ConstantsAssumption
  DEF RInv, Reported, Settled, LookedAt, Entries, FinalStages, IInv, Shape, Nodes
<1>10. Written'
  BY <1>1, <1>2, <1>4, ConstantsAssumption DEF RInv, Written, Reached, Past, Nodes
<1> QED
  BY <1>5, <1>6, <1>7, <1>8, <1>9, <1>10 DEF RInv, Untouched

LEMMA PopulateKeepsRInv ==
    ASSUME IInv, IInv', RInv, NEW d \in Dirs, Populate(d)
    PROVE  RInv'
<1>1. /\ litter' = litter \cup {d} /\ touched' = touched \cup {d} \cup Above[d] /\ Present(d)
      /\ UNCHANGED <<fs, entry, payload, journal, hashes, conflicts, stage, step, cur, todo, late>>
  BY DEF Populate, record, ledger, control
<1>2. Covered'
  BY <1>1 DEF RInv, Covered, Scope, BackupDirs, BackupFiles, Present
<1>3. Rooted'
  BY <1>1, ConstantsAssumption DEF RInv, Rooted, Present, Nodes
<1>4. Untouched'
  BY <1>1 DEF RInv, Untouched, Copied, Alone, Below, Present
<1>5. Reported'
  BY <1>1 DEF RInv, Reported, Settled, Entries
<1>6. Written'
  BY <1>1 DEF RInv, Written, Reached, Past
<1> QED
  BY <1>2, <1>3, <1>4, <1>5, <1>6 DEF RInv

LEMMA NextKeepsRInv ==
    ASSUME IInv, IInv', RInv, [Next]_vars
    PROVE  RInv'
<1>1. CASE NextStage
  BY <1>1, NextStageKeepsRInv
<1>2. CASE BackupStep
  BY <1>2, BackupKeepsRInv DEF BackupStep
<1>3. CASE CommitStep
  <2>1. PICK n \in Nodes :
            \/ Precheck(n) \/ ValidateRemoval(n)
            \/ DirCheck(n) \/ DirNote(n) \/ DirChmod(n) \/ \E d \in Dirs : MakeDir(n, d)
            \/ FileCheck(n) \/ FileWrite(n) \/ ReadBack(n) \/ FileHash(n)
            \/ RemoveCheck(n) \/ Remove(n)
    BY <1>3 DEF CommitStep
  <2> QED
    BY <2>1, CheckKeepsRInv, DirKeepsRInv, MakeDirKeepsRInv, FileKeepsRInv, ReadBackKeepsRInv
<1>4. CASE StateStep \/ Fail \/ RestoreFail
  BY <1>4, CheckKeepsRInv, FileKeepsRInv, EndKeepsRInv, ConstantsAssumption DEF StateStep, Nodes
<1>5. CASE RestoreStep
  BY <1>5, RestoreCheckKeepsRInv, RestoreFileKeepsRInv, RestoreDirKeepsRInv DEF RestoreStep
<1>6. CASE OtherWriter
  BY <1>6, EditKeepsRInv, PopulateKeepsRInv DEF OtherWriter
<1>7. CASE Over \/ UNCHANGED vars
  BY <1>7 DEF Over, vars, disk, record, ledger, control, history, RInv, Covered, Scope, BackupDirs,
     BackupFiles, Rooted, Untouched, Copied, Alone, Below, Reported, Settled, Written, Reached, Past,
     Present, Entries
<1> QED
  BY <1>1, <1>2, <1>3, <1>4, <1>5, <1>6, <1>7 DEF Next, Run, Proceed

LEMMA AlwaysRInv == Spec => [](IInv /\ RInv)
<1>1. IInv /\ RInv /\ [Next]_vars => (IInv /\ RInv)'
  BY NextKeepsIInv, NextKeepsRInv
<1> QED
  BY InitIInv, InitRInv, <1>1, PTL DEF Spec

(***************************************************************************)
(* Whatever paths there are, wherever the run raised and whoever else      *)
(* wrote: restore_backup puts every path back that nobody else touched,    *)
(* and of the directories the run has made none is left.                   *)
(***************************************************************************)
THEOREM RollbackRestores == Spec => []Restored
<1>1. IInv /\ RInv => Restored
  BY ConstantsAssumption
  DEF RInv, Restored, Untouched, Copied, Alone, Reported, Settled, Rooted, Entries
<1> QED
  BY <1>1, AlwaysRInv, PTL

(***************************************************************************)
(* A run that completes has everything in place, and a rollback that comes *)
(* to its end reports each path of the run that it could not put back.     *)
(***************************************************************************)
THEOREM EndsAsItSays == Spec => []Outcome
<1>1. RInv => CommittedWhole
  BY DEF RInv, CommittedWhole, Written, Reached, Past
<1>2. RInv => ConflictsReported
  BY DEF RInv, ConflictsReported, Reported, Settled, Entries
<1>3. IInv /\ RInv => Outcome
  BY <1>1, <1>2 DEF Outcome
<1> QED
  BY <1>3, AlwaysRInv, PTL

=============================================================================
