----------------------------- MODULE RollbackChain -----------------------------
(***************************************************************************)
(* Applies on top of each other and Engine.rollback, which undoes the last *)
(* one from what it left behind: state.json with the digests of the        *)
(* installed files and the receipts of the database, and a backup that     *)
(* holds, with the files, the state.json of the apply before               *)
(* (engine.py, transaction.py, tui.py).                                    *)
(*                                                                         *)
(* The steps inside an apply are in FileTransaction and Publication: here  *)
(* an apply makes its backup, writes the database, and then either writes  *)
(* its files and state.json or undoes itself.  Other writers, the operator *)
(* and the panel, get in between any two steps.                            *)
(***************************************************************************)
EXTENDS Naturals, Sequences, FiniteSets

CONSTANTS
    Files,         \* managed files
    Pages,         \* those that are the page of a decoy site
    DnsFile,       \* the one that set_system_dns also writes
    Cells,         \* fields of the panel's database
    Vals, Absent,
    DnsVal,        \* what set_system_dns writes
    StateFile,     \* STATE_PATH
    Rank,          \* [Files \cup {StateFile} -> Nat]: the order of the entries of backup.json
    Plans,         \* what is applied, one after the other: [writes, drops, sets]
    Starts,        \* what may be there before the first
    EditPaths,     \* what other writers write to
    EditVals,
    MaxEdits,      \* bound on their writes
    MaxFaults      \* bound on the rollbacks that are killed or raise while they restore

Paths == Files \cup Cells

Contents == Vals \cup {Absent}

Runs == 1 .. Len(Plans)

ASSUME ConstantsAssumption ==
    /\ Pages \subseteq Files /\ DnsFile \in Files \ Pages /\ Files \cap Cells = {}
    /\ StateFile \notin Paths
    /\ Absent \notin Vals /\ DnsVal \in Vals /\ EditVals \subseteq Contents
    /\ Rank \in [Files \cup {StateFile} -> Nat] /\ Len(Plans) \in Nat
    /\ \A k \in Runs :
         /\ DOMAIN Plans[k].writes \subseteq Files /\ Plans[k].drops \subseteq Files
         /\ DOMAIN Plans[k].writes \cap Plans[k].drops = {}
         /\ DOMAIN Plans[k].sets \subseteq Cells
         /\ \A f \in DOMAIN Plans[k].writes : Plans[k].writes[f] \in Vals
         /\ \A c \in DOMAIN Plans[k].sets : Plans[k].sets[c] \in Vals
    /\ Starts \subseteq [Paths -> Contents]
    /\ EditPaths \subseteq Paths
    /\ MaxEdits \in Nat /\ MaxFaults \in Nat

VARIABLES
    now,        \* [Paths -> Contents]
    state,      \* state.json: [run, hashes, receipts]; run 0 when there is none
    backups,    \* backups[k]: [files, state], what run k found
    stage,
    runs,       \* applies started
    doomed,     \* removal_targets of the running apply
    receipts,   \* database_changes of the apply or of the rollback at work
    undoing,    \* the run that the rollback at work undoes
    todo,       \* the entries it has not restored
    forced,
    outcome,    \* how the last rollback ended
    frames,     \* history: what there was before each run: [now, edited]
    edited,     \* history: paths that somebody else touched since the last backup in use, or
                \* that became stranded since
    since,      \* history: edited, when the rollback began, and since then
    stranded,   \* history: paths with a value of ours that no rollback will undo
    edits, faults

disk == <<now, state, backups>>
apply == <<runs, doomed>>
rollback == <<undoing, todo, forced, outcome>>
history == <<frames, edited, since, stranded>>
bounds == <<edits, faults>>
vars == <<disk, stage, apply, receipts, rollback, history, bounds>>

NoState == [run |-> 0, hashes |-> <<>>, receipts |-> <<>>]

NoBackup == [files |-> <<>>, state |-> NoState]

Nothing == [x \in Paths |-> Absent]

Stages == {"idle", "publish", "deploy", "restore", "services"}

Init ==
    /\ now \in Starts
    /\ state = NoState
    /\ backups = [k \in Runs |-> NoBackup]
    /\ stage = "idle"
    /\ runs = 0 /\ doomed = {} /\ receipts = <<>>
    /\ undoing = 0 /\ todo = {} /\ forced = FALSE /\ outcome = "none"
    /\ frames = [k \in Runs |-> [now |-> Nothing, edited |-> {}]]
    /\ edited = {} /\ since = {} /\ stranded = {}
    /\ edits = 0 /\ faults = 0

-------------------------------------------------------------------------------
(* An apply. *)

\* validated_removal_targets: what an earlier run installed and is still there.
Removable(k) == {f \in Plans[k].drops \cap DOMAIN state.hashes : now[f] # Absent}

\* Faulty variant: the files to remove are not in the backup.
TargetsRendered(k) == DOMAIN Plans[k].writes

\* The preliminary backup: every rendered file, a page that will be kept included.
Targets(k) == DOMAIN Plans[k].writes \cup Removable(k)

Start ==
    /\ stage = "idle" /\ runs < Len(Plans)
    /\ LET k == runs + 1 IN
       /\ \A f \in Removable(k) : now[f] = state.hashes[f]
       /\ runs' = k
       /\ doomed' = Removable(k)
       /\ backups' = [backups EXCEPT ![k] = [files |-> [f \in Targets(k) |-> now[f]],
                                             state |-> state]]
       /\ frames' = [frames EXCEPT ![k] = [now |-> now, edited |-> edited]]
    /\ edited' = {} /\ receipts' = <<>>
    /\ stage' = "publish"
    /\ UNCHANGED <<now, state, undoing, todo, forced, outcome, since, stranded, bounds>>

\* Receipts for the fields that change.
Publish ==
    /\ stage = "publish"
    /\ LET sets == Plans[runs].sets
           changed == {c \in DOMAIN sets : now[c] # sets[c]} IN
       /\ receipts' = [c \in changed |-> [old |-> now[c], new |-> sets[c]]]
       /\ now' = [x \in Paths |-> IF x \in changed THEN sets[x] ELSE now[x]]
    /\ stage' = "deploy"
    /\ UNCHANGED <<state, backups, apply, rollback, history, bounds>>

\* _preserve_existing_decoy_content leaves a page that is there.
Written(k) == {f \in DOMAIN Plans[k].writes : f \notin Pages \/ now[f] = Absent}

Deploy ==
    /\ stage = "deploy"
    /\ \A f \in doomed : now[f] \in {Absent, state.hashes[f]}
    /\ LET writes == Plans[runs].writes IN
       /\ now' = [x \in Paths |-> IF x \in Written(runs) THEN writes[x]
                                  ELSE IF x \in doomed THEN Absent ELSE now[x]]
       /\ state' = [run |-> runs, receipts |-> receipts,
                    hashes |-> [f \in Written(runs) |-> writes[f]]]
    /\ receipts' = <<>>
    /\ stage' = "idle"
    /\ UNCHANGED <<backups, apply, rollback, history, bounds>>

\* rollback_lucx_publication undoes all receipts or, when one does not match, none.
Matching == \A c \in DOMAIN receipts : now[c] = receipts[c].new

Unpublished ==
    [x \in Paths |-> IF x \in DOMAIN receipts THEN receipts[x].old ELSE now[x]]

Ours == {c \in DOMAIN receipts : now[c] = receipts[c].new}

\* No rollback will undo these any more.
Strand(S) == stranded' = stranded \cup S

\* Faulty variant: an apply that fails leaves the database as it made it.
AbortPublished ==
    /\ stage \in {"publish", "deploy"}
    /\ edited' = edited \cup frames[runs].edited
    /\ receipts' = <<>>
    /\ stage' = "idle"
    /\ UNCHANGED <<disk, apply, rollback, frames, since, stranded, bounds>>

\* An apply that fails has put its files back and undoes its receipts.
Abort ==
    /\ stage \in {"publish", "deploy"}
    /\ now' = IF Matching THEN Unpublished ELSE now
    /\ LET lost == IF Matching THEN {} ELSE Ours IN
       Strand(lost) /\ edited' = edited \cup frames[runs].edited \cup lost
    /\ receipts' = <<>>
    /\ stage' = "idle"
    /\ UNCHANGED <<state, backups, apply, rollback, frames, since, bounds>>

-------------------------------------------------------------------------------
(* A rollback. *)

\* rollback_latest compares only the files whose digest the last run recorded.
Changed == {f \in DOMAIN state.hashes : now[f] # state.hashes[f]}

Begin(force) ==
    /\ stage = "idle" /\ state.run # 0
    /\ force \/ Changed = {}
    /\ undoing' = state.run
    /\ todo' = DOMAIN backups[state.run].files \cup {StateFile}
    /\ receipts' = state.receipts
    /\ forced' = force
    /\ since' = edited
    /\ edited' = edited \cup frames[state.run].edited
    /\ stage' = "restore" /\ outcome' = "none"
    /\ UNCHANGED <<disk, apply, frames, stranded, bounds>>

Refuse ==
    /\ stage = "idle" /\ state.run # 0 /\ Changed # {}
    /\ outcome' = "refused"
    /\ UNCHANGED <<disk, stage, apply, receipts, undoing, todo, forced, history, bounds>>

\* The end of a rollback that has raised.
GiveUp ==
    /\ outcome' = "failed"
    /\ todo' = {} /\ receipts' = <<>>
    /\ stage' = "idle"

\* Faulty variant: the state.json of the backup is not put back.
RestoreAllButState(x) ==
    /\ stage = "restore" /\ x \in todo /\ \A y \in todo : Rank[x] <= Rank[y]
    /\ IF x = StateFile
         THEN state' = NoState /\ UNCHANGED now
         ELSE /\ now' = [now EXCEPT ![x] = backups[undoing].files[x]]
              /\ UNCHANGED state
    /\ todo' = todo \ {x}
    /\ UNCHANGED <<backups, stage, apply, receipts, undoing, forced, outcome, history, bounds>>

\* restore_backup without a journal: whatever is there is replaced.
Restore(x) ==
    /\ stage = "restore" /\ x \in todo /\ \A y \in todo : Rank[x] <= Rank[y]
    /\ IF x = StateFile
         THEN state' = backups[undoing].state /\ UNCHANGED now
         ELSE /\ now' = [now EXCEPT ![x] = backups[undoing].files[x]]
              /\ UNCHANGED state
    /\ todo' = todo \ {x}
    /\ UNCHANGED <<backups, stage, apply, receipts, undoing, forced, outcome, history, bounds>>

\* The process is killed, or a copy is missing.  With state.json replaced nobody knows the rest.
Interrupt ==
    /\ stage = "restore" /\ faults < MaxFaults
    /\ faults' = faults + 1
    /\ LET lost == IF StateFile \in todo THEN {} ELSE todo \cup Ours IN
       Strand(lost) /\ edited' = edited \cup lost
    /\ GiveUp
    /\ UNCHANGED <<disk, apply, undoing, forced, frames, since, edits>>

Unpublish ==
    /\ stage = "restore" /\ todo = {} /\ Matching
    /\ now' = Unpublished
    /\ receipts' = <<>>
    /\ stage' = "services"
    /\ UNCHANGED <<state, backups, apply, rollback, history, bounds>>

\* Files and state.json are back already when the database refuses.
UnpublishRefused ==
    /\ stage = "restore" /\ todo = {} /\ ~Matching
    /\ Strand(Ours) /\ edited' = edited \cup Ours
    /\ GiveUp
    /\ UNCHANGED <<disk, apply, undoing, forced, frames, since, bounds>>

Done ==
    /\ stage = "services"
    /\ outcome' = "done"
    /\ stage' = "idle"
    /\ UNCHANGED <<disk, apply, receipts, undoing, todo, forced, history, bounds>>

\* A service, the integrity or the health of what was restored.
Unhealthy ==
    /\ stage = "services"
    /\ GiveUp
    /\ UNCHANGED <<disk, apply, undoing, forced, history, bounds>>

-------------------------------------------------------------------------------
(* Others. *)

\* set_system_dns writes the managed file and leaves its digest in state.json as it was.
SetDns ==
    /\ stage = "idle"
    /\ now' = [now EXCEPT ![DnsFile] = DnsVal]
    /\ edited' = edited \cup {DnsFile} /\ since' = since \cup {DnsFile}
    /\ UNCHANGED <<state, backups, stage, apply, receipts, undoing, todo, forced, outcome,
                   frames, stranded, bounds>>

Edit(x, v) ==
    /\ edits < MaxEdits /\ v # now[x]
    /\ edits' = edits + 1
    /\ now' = [now EXCEPT ![x] = v]
    /\ edited' = edited \cup {x} /\ since' = since \cup {x}
    /\ stranded' = stranded \ {x}
    /\ UNCHANGED <<state, backups, stage, apply, receipts, rollback, frames, faults>>

Next ==
    \/ Start \/ Publish \/ Deploy \/ Abort
    \/ \E force \in BOOLEAN : Begin(force)
    \/ Refuse \/ \E x \in Files \cup {StateFile} : Restore(x)
    \/ Interrupt \/ Unpublish \/ UnpublishRefused \/ Done \/ Unhealthy
    \/ SetDns \/ \E x \in EditPaths, v \in EditVals : Edit(x, v)

Spec == Init /\ [][Next]_vars

-------------------------------------------------------------------------------
TypeOK ==
    /\ now \in [Paths -> Contents]
    /\ state.run \in 0 .. runs /\ DOMAIN state.hashes \subseteq Files
    /\ \A k \in Runs : backups[k].state.run < k
    /\ stage \in Stages
    /\ runs \in 0 .. Len(Plans) /\ undoing \in 0 .. runs
    /\ doomed \subseteq Files /\ DOMAIN receipts \subseteq Cells
    /\ todo \subseteq Files \cup {StateFile} /\ (todo # {} => stage = "restore")
    /\ DOMAIN receipts # {} => stage \in {"deploy", "restore"}
    /\ forced \in BOOLEAN /\ outcome \in {"none", "refused", "failed", "done"}
    /\ edited \subseteq Paths /\ since \subseteq Paths /\ stranded \subseteq Paths
    /\ edits \in 0 .. MaxEdits /\ faults \in 0 .. MaxFaults

(***************************************************************************)
(* A rollback that got through has given back all that the run found, not  *)
(* only what is in its backup: every path that nobody else touched since   *)
(* and no failed run or rollback left behind since, and the state.json of  *)
(* the run before.  Forced rollbacks, rollbacks of rollbacks and a second attempt  *)
(* after an interrupted one included.                                      *)
(***************************************************************************)
Returned ==
    stage = "services" =>
        /\ \A x \in Paths \ since : now[x] = frames[undoing].now[x]
        /\ state = backups[undoing].state

(***************************************************************************)
(* Undoing one run leaves the one below it as it was installed: an         *)
(* unforced rollback is refused only if a file that somebody else touched  *)
(* differs (or a rollback was interrupted before).                         *)
(***************************************************************************)
RefusedOnlyAfterEdits ==
    [][outcome' = "refused" /\ outcome # "refused" => Changed \cap edited # {} \/ faults > 0]_vars

-------------------------------------------------------------------------------
(***************************************************************************)
(* The refinement: the save points are the frames of the runs that the     *)
(* chain state.json -> backup -> state.json still reaches, and of the run  *)
(* at work.  A rollback takes effect as it begins: what it has not         *)
(* restored yet counts as restored.                                        *)
(***************************************************************************)
Chain[k \in 0 .. Len(Plans)] ==
    IF k = 0 THEN <<>> ELSE Append(Chain[backups[k].state.run], frames[k])

Applying == stage \in {"publish", "deploy"}

Reached == IF StateFile \in todo THEN backups[undoing].state.run ELSE state.run

Due ==
    [x \in Paths |-> IF x \in todo THEN backups[undoing].files[x]
                     ELSE IF stage = "restore" /\ x \in DOMAIN receipts THEN receipts[x].old
                     ELSE now[x]]

Past == IF Applying THEN Append(Chain[state.run], frames[runs]) ELSE Chain[Reached]

Broken == stranded # {} \/ faults > 0

Saved == INSTANCE SavePoints WITH now <- Due, past <- Past, open <- Applying, broken <- Broken

\* Applies and rollbacks keep what SavePoints promises.
KeepsSavePoints == Saved!Spec

(***************************************************************************)
(* Types, and the system as it was before a save point once that save      *)
(* point is restored.                                                      *)
(***************************************************************************)
Inv == TypeOK /\ Returned

=============================================================================
