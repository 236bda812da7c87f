------------------------------ MODULE NaiveSync ------------------------------
(***************************************************************************)
(* Keeping the managed copies of the Naive Caddyfiles, and the services    *)
(* that run them, in step with the sources that the panel generates        *)
(* (naive_sync.py, naive_lifecycle.py, engine.py, renderers.py).           *)
(*                                                                         *)
(* A restart of the panel makes a new generation: it restarts the managed  *)
(* services (PartOf=), then writes its sources anew, and some time later   *)
(* its Xray runs with what is in them.  The reload hook starts one job for *)
(* each managed inbound, the path units start one when a source changes.   *)
(* Each job takes the lock of the Engine and synchronises all targets; the *)
(* panel, the services and other writers of the files go on meanwhile.     *)
(*                                                                         *)
(* A file is [val, private, by]: its contents, whether its mode is 0600    *)
(* and who wrote it, which stands for its inode.                           *)
(***************************************************************************)
EXTENDS Integers, FiniteSets

CONSTANTS
    Targets,       \* the managed inbounds
    Rank,          \* [Targets -> Nat]: the order of sorted()
    Rendered,      \* [Targets -> [0 .. MaxGen -> contents]]
    Foreign,       \* what other writers put into a copy
    OpenAtStart,   \* the targets whose copy is not private at the start
    NoJob, Hook,   \* who has the lock, besides a target: nobody, a job of the hook
    MaxGen,        \* bound on the restarts of the panel
    MaxTries,      \* attempts of _settle_naive_generation
    MaxEdits,      \* bound on the writes of others
    MaxFaults      \* bound on failing commands, writes and services

Gens == 0 .. MaxGen

Contents == {Rendered[t][g] : t \in Targets, g \in Gens} \cup Foreign

ASSUME SyncAssumption ==
    /\ IsFiniteSet(Targets)
    /\ Rank \in [Targets -> Nat]
    /\ \A t, u \in Targets : Rank[t] = Rank[u] => t = u
    /\ MaxGen \in Nat /\ MaxTries \in Nat \ {0} /\ MaxEdits \in Nat /\ MaxFaults \in Nat
    /\ OpenAtStart \subseteq Targets
    /\ NoJob \notin Targets \cup {Hook} /\ Hook \notin Targets

VARIABLES
    panel,      \* [gen, phase, policy, hooked]: the panel and its sources
    file,       \* [Targets -> [val, private, by]]
    service,    \* [Targets -> [up, runs]]: the unit, and the contents it has loaded
    saved,      \* state.json: [gen, hashes, by]
    hooks,      \* jobs of the hook that wait for the lock
    paths,      \* targets whose path unit has a job, which waits or runs
    lockedBy,   \* whose job has the lock
    stage,      \* where that job is
    sealed,     \* the state.json it began with
    previous,   \* the generation it read last
    tries,
    gen,        \* the generation it has settled on
    baseline,   \* the copies it has found
    receipts,   \* the targets it has written
    todo,       \* the targets of the loop it is in
    touched,    \* service_touched
    restored,   \* the targets it has put back
    spoiled,    \* history: targets that a failed job did not put back
    stirred,    \* history: targets that systemd has restarted in the middle of a job
    fresh,      \* history: the panel has not restarted since the job has the lock
    reported,   \* history: a job that began after the last restart has failed
    moved,      \* history: the sources or state.json were written since the fence of commit_state
    edits, faults

world == <<panel, file, service, saved>>
queue == <<hooks, paths, lockedBy>>
plan == <<sealed, previous, tries, gen>>
work == <<baseline, receipts, todo, touched, restored>>
history == <<spoiled, stirred, fresh, reported, moved>>
bounds == <<edits, faults>>
syncVars == <<world, queue, stage, plan, work, history, bounds>>

NoGen == -1

JobStages == {"none", "prepare", "settle", "plan", "staged", "check", "write", "readback",
           "restart", "commit", "save", "confirm", "undo", "unwrite", "unread", "revive"}

SyncInit ==
    /\ panel = [gen |-> 0, phase |-> "ready", policy |-> TRUE, hooked |-> TRUE]
    /\ file = [t \in Targets |-> [val |-> Rendered[t][0], private |-> t \notin OpenAtStart,
                                  by |-> "start"]]
    /\ service = [t \in Targets |-> [up |-> TRUE, runs |-> Rendered[t][0]]]
    /\ saved = [gen |-> 0, hashes |-> [t \in Targets |-> Rendered[t][0]], by |-> "start"]
    /\ hooks = 0 /\ paths = {} /\ lockedBy = NoJob /\ stage = "none"
    /\ sealed = saved /\ previous = NoGen /\ tries = 0 /\ gen = NoGen
    /\ baseline = file /\ receipts = {} /\ todo = {} /\ touched = {} /\ restored = {}
    /\ spoiled = {} /\ stirred = {} /\ fresh = TRUE /\ reported = FALSE /\ moved = FALSE
    /\ edits = 0 /\ faults = 0

Lowest(S) == CHOOSE t \in S : \A u \in S : Rank[t] <= Rank[u]

Highest(S) == CHOOSE t \in S : \A u \in S : Rank[u] <= Rank[t]

Fault == faults < MaxFaults /\ faults' = faults + 1

Enter(s) == stage' = s

-----------------------------------------------------------------------------
(* The jobs and the lock of the Engine. *)

TakeLock(j) ==
    /\ lockedBy = NoJob
    /\ \/ j = Hook /\ hooks > 0 /\ hooks' = hooks - 1
       \/ j \in paths /\ hooks' = hooks
    /\ lockedBy' = j
    /\ fresh' = TRUE
    /\ sealed' = saved
    /\ Enter("prepare")
    /\ UNCHANGED <<world, paths, previous, tries, gen, work, spoiled, stirred, reported, moved, bounds>>

\* The 180 s for the lock are over: the job ends with an error.
Busy(j) ==
    /\ lockedBy # NoJob /\ j # lockedBy /\ Fault
    /\ \/ j = Hook /\ hooks > 0 /\ hooks' = hooks - 1 /\ paths' = paths
       \/ j \in paths /\ paths' = paths \ {j} /\ hooks' = hooks
    /\ reported' = TRUE
    /\ UNCHANGED <<world, lockedBy, stage, plan, work, spoiled, stirred, fresh, moved, edits>>

\* The end of a job, and of its process.
Leave ==
    /\ lockedBy' = NoJob /\ paths' = paths \ {lockedBy} /\ hooks' = hooks
    /\ Enter("none")
    /\ sealed' = saved /\ previous' = NoGen /\ tries' = 0 /\ gen' = NoGen
    /\ baseline' = file
    /\ receipts' = {} /\ todo' = {} /\ touched' = {} /\ restored' = {}
    /\ moved' = FALSE
    /\ UNCHANGED <<world, stirred, fresh>>

LeaveFailed == Leave /\ reported' = (reported \/ fresh)

-----------------------------------------------------------------------------
(* Reading: sync_naive_inbound and _settle_naive_generation. *)

\* prepare_naive_manifest: source, database and Xray belong together.
Consistent == panel.phase = "ready" /\ panel.policy

\* The first reading is not repeated.
Prepare ==
    /\ stage = "prepare"
    /\ IF Consistent /\ saved = sealed
         THEN Enter("settle") /\ UNCHANGED <<world, queue, plan, work, stirred, fresh, reported,
                                             moved>>
         ELSE LeaveFailed
    /\ UNCHANGED <<spoiled, bounds>>

Reading == IF Consistent THEN panel.gen ELSE NoGen

\* Faulty variant: an attempt that finds no generation is not counted.
SettleUncounted ==
    /\ stage = "settle"
    /\ previous' = Reading
    /\ IF Reading # NoGen /\ Reading = previous
         THEN gen' = Reading /\ tries' = tries /\ Enter("plan")
         ELSE UNCHANGED <<tries, gen, stage>>
    /\ UNCHANGED <<world, queue, sealed, work, history, bounds>>

Settle ==
    /\ stage = "settle" /\ tries < MaxTries
    /\ previous' = Reading
    /\ IF Reading # NoGen /\ Reading = previous
         THEN gen' = Reading /\ tries' = tries /\ Enter("plan")
         ELSE tries' = tries + 1 /\ UNCHANGED <<gen, stage>>
    /\ UNCHANGED <<world, queue, sealed, work, history, bounds>>

Unsettled ==
    /\ stage = "settle" /\ tries = MaxTries
    /\ LeaveFailed
    /\ UNCHANGED <<spoiled, bounds>>

-----------------------------------------------------------------------------
(* synchronize_managed_naive *)

Desired(t) == Rendered[t][gen]

Receipt(t) == [val |-> Desired(t), private |-> TRUE, by |-> "sync"]

Writes == {t \in Targets : file[t].val # Desired(t) \/ ~file[t].private}

ChangedContent == {t \in receipts : baseline[t].val # Desired(t)}

\* source_fence: the generation and state.json are those the job began with.
Fenced == Consistent /\ panel.gen = gen /\ saved = sealed

\* A copy with contents that are neither those of the state nor the desired ones is not ours.
Known(t) == file[t].val \in {saved.hashes[t], Desired(t)}

\* A service that is stopped on purpose is not started in the background.
Running(t) == file[t].val # Desired(t) => service[t].up

PlanCopies ==
    /\ stage = "plan"
    /\ IF Fenced /\ \A t \in Targets : Known(t) /\ Running(t)
         THEN /\ baseline' = file /\ todo' = Writes
              /\ Enter("staged")
              /\ UNCHANGED <<world, queue, plan, receipts, touched, restored, stirred, fresh,
                             reported, moved>>
         ELSE LeaveFailed
    /\ UNCHANGED <<spoiled, bounds>>

\* Faulty variant: the handler has no receipts and puts nothing back.
FailKeepingFiles ==
    /\ todo' = {}
    /\ Enter("undo")
    /\ UNCHANGED <<world, queue, plan, baseline, receipts, touched, restored, history>>

\* What the handler of the exceptions begins with.
FailJob ==
    /\ todo' = receipts
    /\ Enter("undo")
    /\ UNCHANGED <<world, queue, plan, baseline, receipts, touched, restored, history>>

\* Every candidate has passed the validation by the binary: once more the fence, then the writes.
Recheck ==
    /\ stage = "staged"
    /\ IF Fenced /\ file = baseline
         THEN /\ Enter(IF todo = {} THEN "restart" ELSE "check")
              /\ UNCHANGED <<world, queue, plan, work, history>>
         ELSE FailJob
    /\ UNCHANGED bounds

Check ==
    /\ stage = "check"
    /\ IF Fenced /\ file[Lowest(todo)] = baseline[Lowest(todo)]
         THEN Enter("write") /\ UNCHANGED <<world, queue, plan, work, history>>
         ELSE FailJob
    /\ UNCHANGED bounds

Write ==
    /\ stage = "write"
    /\ LET t == Lowest(todo) IN
       /\ file' = [file EXCEPT ![t] = Receipt(t)]
       /\ receipts' = receipts \cup {t}
    /\ Enter("readback")
    /\ UNCHANGED <<panel, service, saved, queue, plan, baseline, todo, touched, restored,
                   history, bounds>>

\* The file is replaced and the call raises: there is no receipt.
WriteTorn ==
    /\ stage = "write" /\ Fault
    /\ file' = [file EXCEPT ![Lowest(todo)] = Receipt(Lowest(todo))]
    /\ spoiled' = spoiled \cup {Lowest(todo)}
    /\ todo' = receipts
    /\ Enter("undo")
    /\ UNCHANGED <<panel, service, saved, queue, plan, baseline, receipts, touched, restored,
                   stirred, fresh, reported, moved, edits>>

Readback ==
    /\ stage = "readback"
    /\ LET t == Lowest(todo) rest == todo \ {t} IN
       IF file[t] = Receipt(t)
         THEN /\ todo' = IF rest = {} THEN ChangedContent ELSE rest
              /\ Enter(IF rest = {} THEN "restart" ELSE "check")
              /\ UNCHANGED <<world, queue, plan, baseline, receipts, touched, restored, history>>
         ELSE FailJob
    /\ UNCHANGED bounds

Restarted(t) == [service EXCEPT ![t] = [up |-> TRUE, runs |-> file[t].val]]

Restart ==
    /\ stage = "restart" /\ todo # {}
    /\ LET t == Lowest(todo) IN
       /\ touched' = touched \cup {t}
       /\ service' = Restarted(t)
       /\ todo' = todo \ {t}
       /\ stirred' = stirred \ {t}
    /\ UNCHANGED <<panel, file, saved, queue, stage, plan, baseline, receipts, restored,
                   spoiled, fresh, reported, moved, bounds>>

\* systemctl fails, with the service down or with the new contents.
RestartFails ==
    /\ stage = "restart" /\ todo # {} /\ Fault
    /\ \E up \in BOOLEAN :
          LET t == Lowest(todo) IN
          /\ touched' = touched \cup {t}
          /\ service' = [Restarted(t) EXCEPT ![t].up = up]
    /\ todo' = receipts
    /\ Enter("undo")
    /\ UNCHANGED <<panel, file, saved, queue, plan, baseline, receipts, restored, history, edits>>

Expected(t) == IF t \in receipts THEN Receipt(t) ELSE baseline[t]

Final ==
    /\ stage = "restart" /\ todo = {}
    /\ IF Fenced /\ \A t \in Targets : file[t] = Expected(t)
         THEN Enter("commit") /\ UNCHANGED <<world, queue, plan, work, history>>
         ELSE FailJob
    /\ UNCHANGED bounds

\* The validation by the binary, a backup, save_state.
CommandFails ==
    /\ stage \in {"staged", "save"} /\ Fault
    /\ FailJob
    /\ UNCHANGED edits

\* Faulty variant: the generation is not looked at again before it is recorded.
CommitUnfenced ==
    /\ stage = "commit"
    /\ IF saved = sealed THEN Enter("save") /\ UNCHANGED <<world, queue, plan, work, history>>
                         ELSE FailJob
    /\ UNCHANGED bounds

\* commit_state begins with the fence once more.
CommitState ==
    /\ stage = "commit"
    /\ IF Fenced THEN Enter("save") /\ UNCHANGED <<world, queue, plan, work, history>>
                 ELSE FailJob
    /\ UNCHANGED bounds

Record == [gen |-> gen, hashes |-> [t \in Targets |-> Desired(t)], by |-> "sync"]

\* save_state replaces state.json, whatever has happened since the fence.
SaveState ==
    /\ stage = "save"
    /\ saved' = Record
    /\ Enter("confirm")
    /\ UNCHANGED <<panel, file, service, queue, plan, work, history, bounds>>

\* state.json is replaced and the call raises: the record stays, and nobody's receipt names it.
SaveTorn ==
    /\ stage = "save" /\ Fault
    /\ saved' = [Record EXCEPT !.by = "other"]
    /\ todo' = receipts
    /\ Enter("undo")
    /\ UNCHANGED <<panel, file, service, queue, plan, baseline, receipts, touched, restored,
                   history, edits>>

\* A state.json that somebody has replaced since is left alone.
ConfirmState ==
    /\ stage = "confirm"
    /\ IF saved.by = "sync" THEN Leave /\ UNCHANGED reported ELSE FailJob
    /\ UNCHANGED <<spoiled, bounds>>

-----------------------------------------------------------------------------
(* The handler of the exceptions: what this job has written is put back. *)

UndoCheck ==
    /\ stage = "undo" /\ todo # {}
    /\ LET t == Highest(todo) IN
       IF file[t] = Receipt(t)
         THEN Enter("unwrite") /\ UNCHANGED <<todo, spoiled>>
         ELSE /\ todo' = todo \ {t} /\ spoiled' = spoiled \cup {t}
              /\ UNCHANGED stage
    /\ UNCHANGED <<world, queue, plan, baseline, receipts, touched, restored, stirred, fresh,
                   reported, moved, bounds>>

Unwritten(t) == [baseline[t] EXCEPT !.by = "undo"]

Unwrite ==
    /\ stage = "unwrite"
    /\ file' = [file EXCEPT ![Highest(todo)] = Unwritten(Highest(todo))]
    /\ Enter("unread")
    /\ UNCHANGED <<panel, service, saved, queue, plan, work, history, bounds>>

UnwriteFails ==
    /\ stage = "unwrite" /\ Fault
    /\ todo' = todo \ {Highest(todo)} /\ spoiled' = spoiled \cup {Highest(todo)}
    /\ Enter("undo")
    /\ UNCHANGED <<world, queue, plan, baseline, receipts, touched, restored, stirred, fresh,
                   reported, moved, edits>>

Unread ==
    /\ stage = "unread"
    /\ LET t == Highest(todo) IN
       /\ todo' = todo \ {t}
       /\ IF file[t] = Unwritten(t)
            THEN restored' = restored \cup {t} /\ UNCHANGED spoiled
            ELSE spoiled' = spoiled \cup {t} /\ UNCHANGED restored
    /\ Enter("undo")
    /\ UNCHANGED <<world, queue, plan, baseline, receipts, touched, stirred, fresh, reported,
                   moved, bounds>>

\* Faulty variant: the undo is content with the files.
OwedNothing == {}

\* The services to restart: those that may have loaded what is no longer there.
Owed == restored \cap touched

Undone ==
    /\ stage = "undo" /\ todo = {}
    /\ todo' = Owed
    /\ Enter("revive")
    /\ UNCHANGED <<world, queue, plan, baseline, receipts, touched, restored, history, bounds>>

Revive ==
    /\ stage = "revive" /\ todo # {}
    /\ service' = Restarted(Lowest(todo))
    /\ todo' = todo \ {Lowest(todo)}
    /\ stirred' = stirred \ {Lowest(todo)}
    /\ UNCHANGED <<panel, file, saved, queue, stage, plan, baseline, receipts, touched, restored,
                   spoiled, fresh, reported, moved, bounds>>

ReviveFails ==
    /\ stage = "revive" /\ todo # {} /\ Fault
    /\ service' = [service EXCEPT ![Lowest(todo)].up = FALSE]
    /\ todo' = todo \ {Lowest(todo)} /\ spoiled' = spoiled \cup {Lowest(todo)}
    /\ UNCHANGED <<panel, file, saved, queue, stage, plan, baseline, receipts, touched, restored,
                   stirred, fresh, reported, moved, edits>>

Failed ==
    /\ stage = "revive" /\ todo = {}
    /\ LeaveFailed
    /\ UNCHANGED <<spoiled, bounds>>

-----------------------------------------------------------------------------
(* The panel, systemd and others. *)

\* systemd restarts services, which load the files of the moment.
BySystemd(S) ==
    /\ service' = [t \in Targets |-> IF t \in S THEN [up |-> TRUE, runs |-> file[t].val]
                                     ELSE service[t]]
    /\ stirred' = IF lockedBy = NoJob THEN stirred \ S ELSE stirred \cup S

\* PartOf=: the managed services that run are restarted with the panel.
\* A restart by the reload hook is followed by one job for each target, whatever else waits.
PanelRestart(hooked) ==
    /\ panel.phase = "ready" /\ panel.gen < MaxGen
    /\ panel' = [panel EXCEPT !.phase = "starting", !.hooked = hooked]
    /\ BySystemd({t \in Targets : service[t].up})
    /\ hooks' = IF hooked THEN hooks + Cardinality(Targets) ELSE hooks
    /\ fresh' = FALSE /\ reported' = FALSE
    /\ UNCHANGED <<file, saved, paths, lockedBy, stage, plan, work, spoiled, moved, bounds>>

\* A path unit that has a job already does not start another one.
PanelWrites ==
    /\ panel.phase = "starting"
    /\ panel' = [panel EXCEPT !.phase = "written", !.gen = @ + 1]
    /\ paths' = Targets
    /\ moved' = (moved \/ stage = "save")
    /\ UNCHANGED <<file, service, saved, hooks, lockedBy, stage, plan, work, spoiled, stirred,
                   fresh,
                   reported, bounds>>

PanelReady ==
    /\ panel.phase = "written"
    /\ panel' = [panel EXCEPT !.phase = "ready"]
    /\ UNCHANGED <<file, service, saved, queue, stage, plan, work, history, bounds>>

\* Restart=on-failure: a service that has failed comes back.
ServiceFails(t) ==
    /\ Fault /\ service[t].up
    /\ BySystemd({t})
    /\ UNCHANGED <<panel, file, saved, queue, stage, plan, work, spoiled, fresh, reported, moved, edits>>

Edit(t, v) ==
    /\ edits < MaxEdits /\ edits' = edits + 1
    /\ file[t] # [val |-> v, private |-> TRUE, by |-> "other"]
    /\ file' = [file EXCEPT ![t] = [val |-> v, private |-> TRUE, by |-> "other"]]
    /\ UNCHANGED <<panel, service, saved, queue, stage, plan, work, history, faults>>

\* Somebody rewrites state.json.
EditState ==
    /\ edits < MaxEdits /\ edits' = edits + 1 /\ saved.by # "other"
    /\ saved' = [saved EXCEPT !.by = "other"]
    /\ moved' = (moved \/ stage = "save")
    /\ UNCHANGED <<panel, file, service, queue, stage, plan, work, spoiled, stirred, fresh,
                   reported,
                   faults>>

\* Somebody changes the clients or the settings of an inbound in the panel.
EditPolicy ==
    /\ edits < MaxEdits /\ edits' = edits + 1 /\ panel.policy
    /\ panel' = [panel EXCEPT !.policy = FALSE]
    /\ UNCHANGED <<file, service, saved, queue, stage, plan, work, history, faults>>

Job ==
    \/ \E j \in Targets \cup {Hook} : TakeLock(j)
    \/ Prepare \/ Settle \/ Unsettled \/ PlanCopies
    \/ Recheck \/ Check \/ Write \/ Readback \/ Restart \/ Final \/ CommitState \/ SaveState
    \/ ConfirmState
    \/ UndoCheck \/ Unwrite \/ Unread \/ Undone \/ Revive \/ Failed

Faults ==
    \/ \E j \in Targets \cup {Hook} : Busy(j)
    \/ CommandFails \/ SaveTorn \/ WriteTorn \/ RestartFails \/ UnwriteFails \/ ReviveFails
    \/ \E t \in Targets : ServiceFails(t)

Panel == PanelWrites \/ PanelReady

Others ==
    \/ \E hooked \in BOOLEAN : PanelRestart(hooked)
    \/ \E t \in Targets, v \in Foreign : Edit(t, v)
    \/ EditState \/ EditPolicy

SyncNext == Job \/ Faults \/ Panel \/ Others

\* Jobs run, a panel that was restarted comes up; nobody has to restart it or to write anything.
SyncSpec == SyncInit /\ [][SyncNext]_syncVars /\ WF_syncVars(Job) /\ WF_syncVars(Panel)

-----------------------------------------------------------------------------
SyncTypeOK ==
    /\ panel \in [gen : Gens, phase : {"ready", "starting", "written"}, policy : BOOLEAN,
                  hooked : BOOLEAN]
    /\ file \in [Targets -> [val : Contents, private : BOOLEAN,
                             by : {"start", "sync", "undo", "other"}]]
    /\ service \in [Targets -> [up : BOOLEAN, runs : Contents]]
    /\ saved.gen \in Gens /\ saved.hashes \in [Targets -> Contents]
    /\ hooks \in 0 .. MaxGen * Cardinality(Targets) /\ paths \subseteq Targets
    /\ lockedBy \in paths \cup {Hook, NoJob}
    /\ stage \in JobStages /\ (stage = "none" <=> lockedBy = NoJob)
    /\ previous \in Gens \cup {NoGen} /\ gen \in Gens \cup {NoGen} /\ tries \in 0 .. MaxTries
    /\ restored \subseteq receipts /\ touched \subseteq receipts /\ receipts \subseteq Targets
    /\ todo \subseteq Targets /\ spoiled \subseteq Targets /\ stirred \subseteq Targets
    /\ edits \in 0 .. MaxEdits /\ faults \in 0 .. MaxFaults

(***************************************************************************)
(* Nothing stays half way: between two jobs, state.json has the digest of  *)
(* every copy that nobody else wrote and that no failed job gave up.       *)
(* Otherwise every later job would refuse the copy as not ours.            *)
(***************************************************************************)
StateMatchesFiles ==
    lockedBy = NoJob /\ saved.by # "other" =>
        \A t \in Targets \ spoiled : file[t].by # "other" => file[t].val = saved.hashes[t]

(***************************************************************************)
(* Between two jobs a service runs what is in its file, although a job     *)
(* writes first and restarts afterwards, and restarts nothing when only    *)
(* the mode was wrong.  Left out is a service that systemd has restarted   *)
(* in the middle of a job and no job since.                                *)
(***************************************************************************)
ServicesRunFiles ==
    lockedBy = NoJob =>
        \A t \in Targets \ (spoiled \cup stirred) :
            file[t].by # "other" /\ service[t].up => service[t].runs = file[t].val

(***************************************************************************)
(* A generation is recorded only when its copies are installed and no      *)
(* service runs an older one; and, but for what is written between the     *)
(* last fence and save_state, which no lock of the job keeps away, only    *)
(* when it is the one of the panel and state.json is what the job read.    *)
(***************************************************************************)
RecordsWhatRuns ==
    [][saved'.by = "sync" /\ saved' # saved =>
          /\ moved \/ (panel.gen = saved'.gen /\ saved = sealed)
          /\ \A t \in Targets : file[t].by # "other" =>
                /\ file[t].val = saved'.hashes[t]
                /\ service[t].up /\ t \notin spoiled \cup stirred => service[t].runs = file[t].val]_syncVars

(***************************************************************************)
(* No reload gets lost: after the last restart by the hook its generation  *)
(* is recorded, or a job that began later has reported an error.           *)
(***************************************************************************)
ReloadsFollowed ==
    <>[](panel.hooked => saved.gen = panel.gen \/ reported)

(***************************************************************************)
(* Types, and whenever no job holds the lock state.json in agreement with  *)
(* the copies, and the services with the files.                            *)
(***************************************************************************)
Inv == SyncTypeOK /\ StateMatchesFiles /\ ServicesRunFiles

=============================================================================
