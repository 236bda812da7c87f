-------------------------- MODULE FunctionalStaging --------------------------
(***************************************************************************)
(* One candidate on its way from the audit to the commit: it is tested on  *)
(* private copies by a worker of its own, and nothing may change meanwhile *)
(* (staging_probes.py, staging_materials.py, staging_workspace.py,         *)
(* staging_integrity.py, staging_native.py, staging_binding.py and the     *)
(* engine around them).                                                    *)
(*                                                                         *)
(* Sources are versions that others raise at any moment.  The two private  *)
(* trees, materials and workspace, are directories and files that others   *)
(* may touch, replace or add to.  What the worker does to its processes is *)
(* ForegroundSession; here they are a set.                                 *)
(***************************************************************************)
EXTENDS Naturals, Sequences, FiniteSets, SequencesExt

CONSTANTS
    MaxDrifts,   \* changes of sources by others
    MaxTampers,  \* interventions of others in the private trees
    MaxFaults,   \* steps that raise for a reason of their own
    MaxEvents    \* all of these together

ASSUME BoundsAssumption == {MaxDrifts, MaxTampers, MaxFaults, MaxEvents} \subseteq Nat

Sources == {"routes", "staged", "material", "users", "native", "tools"}

Owners == {"workspace", "materials"}

Dirs == {"root", "configs", "runtime", "temp", "mroot"}

Files == {"haproxy.conf", "nginx.conf", "nginx.pid", "copy"}

Paths == Dirs \cup Files

\* The directory that a path is in; the roots are in tmpfs.
Above(p) ==
    CASE p \in {"root", "mroot"} -> "tmpfs"
      [] p \in {"configs", "runtime"} -> "root"
      [] p \in {"temp", "nginx.pid"} -> "runtime"
      [] p = "copy" -> "mroot"
      [] OTHER -> "configs"

OwnerOf(p) == IF p \in {"mroot", "copy"} THEN "materials" ELSE "workspace"

Depth(p) == CASE Above(p) = "tmpfs" -> 0 [] Above(p) \in {"root", "mroot"} -> 1 [] OTHER -> 2

-----------------------------------------------------------------------------
(* The calls in their order: prepare_functional_staging, the engine up to   *)
(* the seal, create_staging_materials, prepare_read_access,                 *)
(* create_staging_workspace, write_configs, the worker, the fences and the  *)
(* two cleanups, VerifiedStaging.verify, and the engine up to the commit.   *)

Part(name, calls) == [i \in DOMAIN calls |-> [op |-> calls[i][1], arg |-> calls[i][2], part |-> name]]

CaptureNative == <<"capture", "native">>      \* Naive backends, their bindings and accounts
CaptureTools == <<"capture", "tools">>        \* paths and digests of the binaries
CaptureUsers == <<"capture", "users">>        \* one account of each endpoint
CaptureRoutes == <<"capture", "routes">>      \* the routing snapshot of the audit
CaptureStaged == <<"capture", "staged">>      \* the seal of the files to be committed
CaptureMaterial == <<"capture", "material">>  \* certificates, decoy pages, MIME types
VerifyNative == <<"check", "native">>
VerifyTools == <<"check", "tools">>
VerifyUsers == <<"check", "users">>
VerifyRoutes == <<"check", "routes">>
VerifySeal == <<"check", "staged">>
VerifySources == <<"check", "material">>
CallVerifyConfigs == <<"configs", "">>
CallVerifyCopies == <<"copies", "">>
RecordCopies == <<"copies", "record">>

VerifyPreflight == << VerifyNative, VerifyUsers, VerifyTools >>

Preflight == Part("none", << CaptureNative, CaptureTools, CaptureUsers >> \o VerifyPreflight)

Candidate == Part("none", << CaptureRoutes, CaptureStaged, VerifySeal, VerifySeal >> \o VerifyPreflight)

CreateMaterials ==
    Part("materials", << CaptureMaterial, <<"make", "mroot">>, <<"make", "copy">>, RecordCopies, VerifySources,
                         CallVerifyCopies, <<"own", "materials">> >>)

\* The first look is outside of its try: nothing is undone there.
PrepareReadAccess ==
    Part("none", << CallVerifyCopies >>) \o Part("access", << RecordCopies, VerifySources, CallVerifyCopies >>)

CreateWorkspace ==
    Part("workspace", << <<"make", "root">>, <<"make", "configs">>, <<"make", "runtime">>, <<"make", "temp">>,
                         CallVerifyConfigs, <<"own", "workspace">> >>)

WriteConfigs ==
    Part("none", << CallVerifyConfigs >>)
    \o Part("write", << <<"make", "haproxy.conf">>, <<"make", "nginx.conf">>, <<"written", "">>, CallVerifyConfigs >>)

Worker ==
    Part("none", << CallVerifyConfigs, CallVerifyCopies >>)
    \o Part("worker", << <<"spawn", "">>, CallVerifyConfigs, VerifyTools, <<"start", "">>, <<"probe", "">>,
                         CallVerifyConfigs, VerifyTools, <<"stop", "">>, <<"reap", "">> >>)

SourceFence == << VerifySources, CallVerifyCopies >>

Fences ==
    Part("none", << CallVerifyConfigs, CallVerifyCopies >> \o SourceFence
                 \o << VerifyUsers, VerifyNative, VerifyTools, VerifySeal,
                       <<"clean", "workspace">>, <<"clean", "materials">> >>)

\* Faulty variant: the originals of the copies are not read again once the copies are gone.
ProofWithoutSources == Part("none", << VerifySeal, VerifyUsers, VerifyNative, VerifyTools >>)

\* VerifiedStaging.verify
Proof == Part("none", << VerifySeal, VerifySources, VerifyUsers, VerifyNative, VerifyTools >>)

Commit == Part("none", << VerifyRoutes, VerifySeal >>) \o Proof \o Part("none", << VerifySeal >>)

Script ==
    Preflight \o Candidate \o CreateMaterials \o PrepareReadAccess \o CreateWorkspace \o WriteConfigs
    \o Worker \o Fences \o Proof \o Commit

-----------------------------------------------------------------------------
VARIABLES
    now,       \* [Sources -> version]
    held,      \* [Sources -> version that was captured]
    tested,    \* history: [Sources -> version that the probes ran with]
    late,      \* history: sources that changed after the last round of looks had begun
    at,        \* how far the script has got
    mode,      \* "run", "clean", "finally" or "ended"
    tree,      \* [Paths -> [ino, stamp]]; ino is "none", "own" or "alien"
    alien,     \* directories with an entry that somebody else made
    dirty,     \* [Dirs -> how often others changed the list of names]
    created,   \* _created and _owned: paths whose inode is recorded
    sealed,    \* [Fixed -> dirty when the snapshot was taken]
    written,   \* _written
    owned,     \* owners that their constructor has returned
    closed,    \* owners that have removed their tree
    remaining, \* [Owners -> records that are still to be deleted]
    deleting,  \* how the deletion of the workspace began: "no", "partial" or "regular"
    clean,     \* the cleanup at hand: [of, step, kind, then]; step is also the path that is to go now
    turn,      \* the owners that the finally has still to clean up
    procs,     \* processes of the worker's group
    outcome,   \* "none", "failed", "cleanup" or "committed"
    spoilt,    \* history: owners with a lost record, or whose creation could not be undone
    raced,     \* history: paths replaced after they were compared and before they were removed
    harmed,    \* history: paths deleted when they were somebody else's
    bounds     \* [drifts, tampers, faults] so far

sources == <<now, held, tested, late>>
trees == <<tree, alien, dirty>>
records == <<created, sealed, written>>
owners == <<owned, closed, remaining, deleting>>
control == <<at, mode, clean, turn, outcome>>
history == <<spoilt, raced, harmed>>
vars == <<sources, control, trees, records, owners, procs, history, bounds>>

Idle == [of |-> "none", step |-> "none", kind |-> "none", then |-> "none"]

\* Directories whose list of names is part of a snapshot.
Fixed == {"root", "configs", "mroot"}

Init ==
    /\ now = [s \in Sources |-> 0] /\ held = now /\ tested = now /\ late = {}
    /\ at = 1 /\ mode = "run"
    /\ tree = [p \in Paths |-> [ino |-> "none", stamp |-> 0]]
    /\ alien = {} /\ dirty = [d \in Dirs |-> 0]
    /\ created = {} /\ sealed = [d \in Fixed |-> 0] /\ written = FALSE
    /\ owned = {} /\ closed = {} /\ remaining = [o \in Owners |-> {}] /\ deleting = "no"
    /\ clean = Idle /\ turn = <<>> /\ procs = {} /\ outcome = "none"
    /\ spoilt = {} /\ raced = {} /\ harmed = {}
    /\ bounds = [drifts |-> 0, tampers |-> 0, faults |-> 0]

Here(op) == mode = "run" /\ at <= Len(Script) /\ Script[at].op = op

Arg == Script[at].arg

Own(p) == tree[p].ino = "own"

Empty(p) == ~\E q \in Paths : Above(q) = p /\ tree[q].ino # "none"

Present(o) == {p \in Paths : OwnerOf(p) = o /\ tree[p].ino # "none"}

\* _check_known_tree: every record is there, and no directory has an entry without a record.
Known(o, paths) ==
    /\ \A p \in paths : OwnerOf(p) = o => Own(p)
    /\ Present(o) \subseteq paths
    /\ {p \in paths : OwnerOf(p) = o} \cap alien = {}

Pass == at' = at + 1 /\ UNCHANGED <<mode, clean, turn, outcome>>

Spend(what) ==
    /\ bounds[what] < (CASE what = "drifts" -> MaxDrifts [] what = "tampers" -> MaxTampers
                          [] what = "faults" -> MaxFaults)
    /\ bounds.drifts + bounds.tampers + bounds.faults < MaxEvents
    /\ bounds' = [bounds EXCEPT ![what] = @ + 1]

-----------------------------------------------------------------------------
(* Failure *)

\* The finally of run_functional_staging goes through the owners that the caller has.
OneByOne(left) ==
    (IF "workspace" \in left THEN <<"workspace">> ELSE <<>>)
    \o (IF "materials" \in left THEN <<"materials">> ELSE <<>>)

Finally == OneByOne(owned \ closed)

\* What is being made or written is removed where it fails; the caller goes on with its finally.
Undoes ==
    CASE Script[at].part = "materials" /\ "mroot" \in created -> <<"materials", "regular">>
      [] Script[at].part = "access" -> <<"materials", "regular">>
      [] Script[at].part = "workspace" /\ "root" \in created -> <<"workspace", "partial">>
      [] Script[at].part = "write" -> <<"workspace", "partial">>
      [] OTHER -> <<>>

Fail ==
    /\ outcome' = "failed"
    /\ IF Undoes # <<>>
         THEN /\ mode' = "clean" /\ turn' = <<>>
              /\ clean' = [of |-> Undoes[1], step |-> "inspect", kind |-> Undoes[2], then |-> "finally"]
         ELSE mode' = "finally" /\ clean' = Idle /\ turn' = Finally
    /\ UNCHANGED at

\* Any call may raise: no time left, an error of the system, a probe that fails, a worker that dies.
Fault ==
    /\ mode = "run" /\ at <= Len(Script)
    /\ Spend("faults")
    /\ procs' = {}
    /\ Fail
    /\ UNCHANGED <<sources, trees, records, owners, history>>

-----------------------------------------------------------------------------
(* The steps of the script *)

Capture ==
    /\ Here("capture")
    /\ held' = [held EXCEPT ![Arg] = now[Arg]]
    /\ Pass
    /\ UNCHANGED <<now, tested, late, trees, records, owners, procs, history, bounds>>

\* A worker that refuses is gone with its group before the caller goes on.
Ask(condition) ==
    IF condition THEN Pass /\ UNCHANGED procs ELSE Fail /\ procs' = {}

Check ==
    /\ Here("check")
    /\ Ask(now[Arg] = held[Arg])
    /\ UNCHANGED <<sources, trees, records, owners, history, bounds>>

\* A directory or file is made where nothing is (O_EXCL), and its inode is recorded.
Make ==
    /\ Here("make")
    /\ IF tree[Arg].ino = "none" /\ (Above(Arg) \in Dirs => Own(Above(Arg)))
         THEN /\ tree' = [tree EXCEPT ![Arg] = [ino |-> "own", stamp |-> 0]]
              /\ created' = created \cup {Arg}
              /\ Pass
         ELSE Fail /\ UNCHANGED <<tree, created>>
    /\ UNCHANGED <<sources, alien, dirty, sealed, written, owners, procs, history, bounds>>

\* It is made and the record of it fails.
MakeTorn ==
    /\ Here("make") /\ tree[Arg].ino = "none" /\ (Above(Arg) \in Dirs => Own(Above(Arg)))
    /\ Spend("faults")
    /\ tree' = [tree EXCEPT ![Arg] = [ino |-> "own", stamp |-> 0]]
    /\ spoilt' = spoilt \cup {OwnerOf(Arg)}
    /\ Fail
    /\ UNCHANGED <<sources, alien, dirty, records, owners, procs, raced, harmed>>

\* The constructor returns; the workspace has taken its snapshot of the directories.
Hand ==
    /\ Here("own")
    /\ owned' = owned \cup {Arg}
    /\ Pass
    /\ UNCHANGED <<sources, trees, records, closed, remaining, deleting, procs, history, bounds>>

\* _copy_snapshot: what is there is what was made; verify_copies: and as it was recorded.
Copies ==
    /\ Here("copies")
    /\ IF Arg = "record" THEN sealed' = [sealed EXCEPT !["mroot"] = dirty["mroot"]] ELSE UNCHANGED sealed
    /\ Ask(/\ Own("mroot") /\ Own("copy") /\ tree["copy"].stamp = 0 /\ "mroot" \notin alien
           /\ Arg = "record" \/ dirty["mroot"] = sealed["mroot"])
    /\ UNCHANGED <<sources, trees, created, written, owners, history, bounds>>

Configs == {"haproxy.conf", "nginx.conf"}

\* StagingWorkspace._verify; the runtime directory is the frontends' to write in.
Verified ==
    /\ \A p \in {"root", "configs", "runtime", "temp"} : Own(p)
    /\ {"root", "configs"} \cap alien = {}
    /\ \A p \in Configs : IF written THEN Own(p) /\ tree[p].stamp = 0 ELSE tree[p].ino = "none"
    /\ \A d \in {"root", "configs"} : dirty[d] = sealed[d]

\* The constructor compares with the snapshot it has just taken.
VerifyConfigs ==
    /\ Here("configs")
    /\ IF Script[at].part = "workspace"
         THEN sealed' = [d \in Fixed |-> IF d = "mroot" THEN sealed[d] ELSE dirty[d]]
         ELSE UNCHANGED sealed
    /\ Ask(IF Script[at].part = "workspace" THEN Known("workspace", created) ELSE Verified)
    /\ UNCHANGED <<sources, trees, created, written, owners, history, bounds>>

\* write_configs compares the digests, records the directory and says so.
Written ==
    /\ Here("written")
    /\ sealed' = [sealed EXCEPT !["configs"] = dirty["configs"]]
    /\ written' = (\A p \in Configs : Own(p) /\ tree[p].stamp = 0)
    /\ Ask(written')
    /\ UNCHANGED <<sources, trees, created, owners, history, bounds>>

Spawn ==
    /\ Here("spawn")
    /\ procs' = {"worker"}
    /\ Pass
    /\ UNCHANGED <<sources, trees, records, owners, history, bounds>>

\* Each binary is started from the descriptor whose digest was compared.
Start ==
    /\ Here("start")
    /\ IF now["tools"] = held["tools"] THEN Pass /\ procs' = procs \cup {"haproxy", "nginx"}
       ELSE Fail /\ procs' = {}
    /\ UNCHANGED <<sources, trees, records, owners, history, bounds>>

\* nginx writes into the runtime directory while it lives.
RuntimeFile ==
    /\ "nginx" \in procs /\ tree["nginx.pid"].ino = "none" /\ Own("runtime")
    /\ tree' = [tree EXCEPT !["nginx.pid"] = [ino |-> "own", stamp |-> 0]]
    /\ UNCHANGED <<sources, control, alien, dirty, records, owners, procs, history, bounds>>

Nothing == MaxDrifts + 1

\* What the probes see: live backends, and the copies and plans that were captured.
Probe ==
    /\ Here("probe")
    /\ tested' = [s \in Sources |->
                    CASE s \in {"native", "users"} -> now[s]
                      [] s = "material" /\ ~(Own("copy") /\ tree["copy"].stamp = 0) -> Nothing
                      [] s = "routes" /\ ~(\A p \in Configs : Own(p) /\ tree[p].stamp = 0) -> Nothing
                      [] OTHER -> held[s]]
    /\ Pass
    /\ UNCHANGED <<now, held, late, trees, records, owners, procs, history, bounds>>

\* The session stops its frontends, or says that it could not.
Stop ==
    /\ Here("stop")
    /\ \/ procs' = {"worker"} /\ UNCHANGED outcome
       \/ UNCHANGED procs /\ outcome' = "failed"
    /\ at' = at + 1
    /\ UNCHANGED <<sources, mode, clean, turn, trees, records, owners, history, bounds>>

\* Faulty variant: only the worker itself is waited for.
ReapAlone ==
    /\ Here("reap")
    /\ procs' = procs \ {"worker"}
    /\ IF outcome = "failed" THEN Fail ELSE Pass
    /\ UNCHANGED <<sources, trees, records, owners, history, bounds>>

\* Runner.run_bounded kills the group; a reply that is not ok ends the run.
Reap ==
    /\ Here("reap")
    /\ procs' = {}
    /\ IF outcome = "failed" THEN Fail ELSE Pass
    /\ UNCHANGED <<sources, trees, records, owners, history, bounds>>

CleanStep ==
    /\ Here("clean")
    /\ mode' = "clean"
    /\ clean' = [of |-> Arg, step |-> "inspect", kind |-> "regular", then |-> "script"]
    /\ UNCHANGED <<sources, at, turn, outcome, trees, records, owners, procs, history, bounds>>

CommitRun ==
    /\ mode = "run" /\ at = Len(Script) + 1
    /\ mode' = "ended" /\ outcome' = "committed"
    /\ UNCHANGED <<sources, at, clean, turn, trees, records, owners, procs, history, bounds>>

-----------------------------------------------------------------------------
(* cleanup and _cleanup_partial *)

\* The records of the constructor, and the runtime directory as it is.
Inventory(o) ==
    {p \in created : OwnerOf(p) = o}
    \cup (IF o = "workspace" THEN {"nginx.pid"} \cap Present(o) ELSE {})

Untouched(paths) == \A p \in paths \cap Files : tree[p].stamp = 0

\* Records left by a partial cleanup hold no times: a file never equals its record again.
Inspected(o) ==
    CASE clean.kind = "partial" -> Known(o, Inventory(o) \cap created)
      [] o = "materials" -> Known(o, Inventory(o))
      [] o = "workspace" /\ deleting = "no" -> Verified /\ Known(o, Inventory(o))
      [] o = "workspace" /\ deleting = "regular" -> Known(o, remaining[o]) /\ Untouched(remaining[o])
      [] o = "workspace" /\ deleting = "partial" -> Known(o, remaining[o]) /\ remaining[o] \cap Files = {}

ToDelete(o) == IF clean.kind = "regular" /\ o = "workspace" /\ deleting # "no" THEN remaining[o] ELSE Inventory(o)

\* The owner is left as it is; what the caller sees depends on where it was.
CleanFails ==
    /\ CASE clean.then = "script" ->
              mode' = "finally" /\ turn' = Finally /\ outcome' = "failed"
         [] clean.then = "finally" ->
              mode' = "finally" /\ turn' = Finally /\ UNCHANGED outcome
         [] clean.then = "next" ->
              mode' = "finally" /\ outcome' = "cleanup" /\ UNCHANGED turn
    /\ spoilt' = IF clean.kind = "partial" \/ clean.of \notin owned THEN spoilt \cup {clean.of} ELSE spoilt
    /\ clean' = Idle
    /\ UNCHANGED at

CleanEnds ==
    /\ closed' = closed \cup {clean.of}
    /\ clean' = Idle
    /\ CASE clean.then = "script" -> mode' = "run" /\ at' = at + 1 /\ UNCHANGED turn
         [] clean.then = "finally" -> mode' = "finally" /\ turn' = OneByOne((owned \ closed) \ {clean.of})
                                      /\ UNCHANGED at
         [] clean.then = "next" -> mode' = "finally" /\ UNCHANGED <<at, turn>>
    /\ UNCHANGED <<outcome, spoilt>>

Cleaning(step) == mode = "clean" /\ clean.step = step

Inspect ==
    /\ Cleaning("inspect")
    /\ IF Inspected(clean.of)
         THEN /\ clean' = [clean EXCEPT !.step = "delete"]
              /\ remaining' = [remaining EXCEPT ![clean.of] = ToDelete(clean.of)]
              /\ deleting' = IF clean.of = "workspace" /\ deleting = "no" THEN clean.kind ELSE deleting
              /\ UNCHANGED <<at, mode, turn, outcome, spoilt>>
         ELSE CleanFails /\ UNCHANGED <<remaining, deleting>>
    /\ UNCHANGED <<sources, trees, records, owned, closed, procs, raced, harmed, bounds>>

Root(o) == IF o = "workspace" THEN "root" ELSE "mroot"

Deepest(paths) == {p \in paths : \A q \in paths : Depth(q) <= Depth(p)}

\* The inode is compared again before each removal, and the name still leads to it from the root.
Deletable(p) ==
    /\ Own(Root(OwnerOf(p))) /\ Own(p)
    /\ p \in Dirs => p \notin alien /\ Empty(p)
    /\ (p \in Files /\ clean.of = "workspace" /\ deleting = "regular") => tree[p].stamp = 0

\* Faulty variant: names are deleted without a look at what they lead to now.
DeleteBlindly(p) ==
    /\ Cleaning("delete") /\ p \in Deepest(remaining[clean.of])
    /\ clean' = [clean EXCEPT !.step = p]
    /\ UNCHANGED <<sources, at, mode, turn, outcome, trees, records, owners, procs, history, bounds>>

\* The next path is compared with its record.
Delete(p) ==
    /\ Cleaning("delete") /\ p \in Deepest(remaining[clean.of])
    /\ IF Deletable(p) THEN clean' = [clean EXCEPT !.step = p] /\ UNCHANGED <<at, mode, turn, outcome, spoilt>>
       ELSE CleanFails
    /\ UNCHANGED <<sources, trees, records, owners, procs, raced, harmed, bounds>>

\* rmdir leaves a directory with entries; a replacement may be something that the call refuses.
Refused(p) == (p \in Dirs /\ (p \in alien \/ ~Empty(p))) \/ ~Own(p)

Gone(p) ==
    /\ p \in Dirs => p \notin alien /\ Empty(p)
    /\ tree' = [tree EXCEPT ![p] = [ino |-> "none", stamp |-> 0]]
    /\ harmed' = IF Own(p) THEN harmed ELSE harmed \cup {p}
    /\ IF p = Root(clean.of) THEN CleanEnds
       ELSE clean' = [clean EXCEPT !.step = "delete"] /\ UNCHANGED <<at, mode, turn, outcome, closed, spoilt>>

\* Faulty variant: what has been deleted stays in the records.
UnlinkKeeping(p) ==
    /\ Cleaning(p)
    /\ \/ Gone(p) /\ UNCHANGED remaining
       \/ Refused(p) /\ CleanFails /\ UNCHANGED <<tree, closed, remaining, harmed>>
    /\ UNCHANGED <<sources, alien, dirty, records, owned, deleting, procs, raced, bounds>>

\* The name is removed, whatever it leads to by now.
Unlink(p) ==
    /\ Cleaning(p)
    /\ \/ Gone(p) /\ remaining' = [remaining EXCEPT ![clean.of] = @ \ {p}]
       \/ Refused(p) /\ CleanFails /\ UNCHANGED <<tree, closed, remaining, harmed>>
    /\ UNCHANGED <<sources, alien, dirty, records, owned, deleting, procs, raced, bounds>>

\* A removal, or a look, that raises for a reason of its own.
CleanFault ==
    /\ mode = "clean"
    /\ Spend("faults")
    /\ CleanFails
    /\ UNCHANGED <<sources, trees, records, owners, procs, raced, harmed>>

NextOwner ==
    /\ mode = "finally"
    /\ IF turn = <<>>
         THEN mode' = "ended" /\ UNCHANGED <<clean, turn>>
         ELSE /\ mode' = "clean" /\ turn' = Tail(turn)
              /\ clean' = [of |-> Head(turn), step |-> "inspect", kind |-> "regular", then |-> "next"]
    /\ UNCHANGED <<sources, at, outcome, trees, records, owners, procs, history, bounds>>

-----------------------------------------------------------------------------
(* Others *)

\* The engine's last round of looks begins with the routes, eight steps before the commit.
LastRound == Len(Script) - 7

Drift(s) ==
    /\ mode # "ended"
    /\ Spend("drifts")
    /\ now' = [now EXCEPT ![s] = @ + 1]
    /\ late' = IF at <= LastRound THEN late ELSE late \cup {s}
    /\ UNCHANGED <<held, tested, control, trees, records, owners, procs, history>>

\* A file is edited, a path replaced, an entry put into a directory or taken out of it again.
Tamper(p) ==
    /\ mode # "ended"
    /\ Spend("tampers")
    /\ \/ /\ p \in Files \ {"nginx.pid"} /\ Own(p)
          /\ tree' = [tree EXCEPT ![p].stamp = @ + 1] /\ UNCHANGED <<alien, dirty, raced>>
       \/ /\ Own(p) /\ Empty(p)
          /\ tree' = [tree EXCEPT ![p].ino = "alien"]
          /\ dirty' = [d \in Dirs |-> IF d = Above(p) THEN dirty[d] + 1 ELSE dirty[d]]
          /\ raced' = IF Cleaning(p) THEN raced \cup {p} ELSE raced
          /\ UNCHANGED alien
       \/ /\ p \in Dirs /\ Own(p)
          /\ alien' = SymDiff(alien, {p})
          /\ dirty' = [dirty EXCEPT ![p] = @ + 1]
          /\ UNCHANGED <<tree, raced>>
    /\ UNCHANGED <<sources, control, records, owners, procs, spoilt, harmed>>

Step ==
    \/ Capture \/ Check \/ Make \/ Hand \/ Copies \/ VerifyConfigs \/ Written
    \/ Spawn \/ Start \/ Probe \/ Stop \/ Reap \/ CleanStep \/ CommitRun
    \/ Inspect \/ NextOwner \/ \E p \in Paths : Delete(p) \/ Unlink(p)

Next ==
    \/ Step \/ RuntimeFile \/ Fault \/ MakeTorn \/ CleanFault
    \/ \E s \in Sources : Drift(s)
    \/ \E p \in Paths : Tamper(p)

Spec == Init /\ [][Next]_vars

-----------------------------------------------------------------------------
TypeOK ==
    /\ now \in [Sources -> 0 .. MaxDrifts] /\ held \in [Sources -> 0 .. MaxDrifts]
    /\ tested \in [Sources -> 0 .. Nothing] /\ late \subseteq Sources
    /\ at \in 1 .. Len(Script) + 1 /\ mode \in {"run", "clean", "finally", "ended"}
    /\ \A p \in Paths : tree[p].ino \in {"none", "own", "alien"} /\ tree[p].stamp \in 0 .. MaxTampers
    /\ alien \subseteq Dirs /\ created \subseteq Paths
    /\ owned \subseteq Owners /\ closed \subseteq Owners
    /\ \A o \in Owners : remaining[o] \subseteq created \cup {"nginx.pid"}
    /\ (clean = Idle) = (mode # "clean") /\ (mode = "clean" => clean.of \in Owners \ closed)
    /\ procs \subseteq {"worker", "haproxy", "nginx"} /\ (procs # {} => Script[at].part = "worker")
    /\ outcome \in {"none", "failed", "cleanup", "committed"}

(***************************************************************************)
(* What is committed is what was tested: no source, and no private copy of *)
(* one, was different in the probes from what it is at the commit, unless  *)
(* it changed after the engine's last round of looks had begun.            *)
(***************************************************************************)
CommittedIsTested ==
    outcome = "committed" => \A s \in Sources : tested[s] = now[s] \/ (s \in late /\ tested[s] = held[s])

(***************************************************************************)
(* Private copies, those of keys among them, do not stay behind silently:  *)
(* a run that leaves a tree says that its cleanup failed.  (A tree whose   *)
(* constructor could not undo it is not reported.)                         *)
(***************************************************************************)
NothingLeftSilently ==
    mode = "ended" =>
        \A p \in Paths : Own(p) => outcome = "cleanup" \/ OwnerOf(p) \in spoilt \ owned

(***************************************************************************)
(* Of what somebody else has put into a private tree nothing is deleted,   *)
(* but for what takes the place of a path between the comparison with its  *)
(* record and the removal of that very name: the two calls are not one.    *)
(* An entry put into a directory stays, and so does the directory.         *)
(***************************************************************************)
OnlyOwnDeleted == harmed \subseteq raced /\ \A d \in alien : tree[d].ino # "none"

(***************************************************************************)
(* The workspace is looked at and removed only after every process of the  *)
(* worker's group has ended, also when the session could not stop them.    *)
(***************************************************************************)
GroupGoneBeforeRemoval == mode \in {"clean", "finally"} => procs = {}

Intact(o) ==
    /\ \A p \in Present(o) : Own(p) /\ (p \in Files => tree[p].stamp = 0)
    /\ Present(o) \cap alien = {}

(***************************************************************************)
(* The cleanup of a workspace can be tried again after it has failed half  *)
(* way: it completes if what is left is as it was.                         *)
(***************************************************************************)
RetryCompletes ==
    [][mode = "clean" /\ clean.of = "workspace" /\ mode' # "clean" /\ bounds' = bounds
       /\ deleting = "regular" /\ "workspace" \notin closed' => ~Intact("workspace")]_vars

(***************************************************************************)
(* Types and what may happen to the files of the session: only its own are *)
(* deleted, outside of the window said at OnlyOwnDeleted, and what it      *)
(* leaves behind it reports.                                               *)
(***************************************************************************)
Inv == TypeOK /\ NothingLeftSilently /\ OnlyOwnDeleted

=============================================================================
