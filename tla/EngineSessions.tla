--------------------------- MODULE EngineSessions ---------------------------
(***************************************************************************)
(* Several processes of the program on one machine: menus, command lines   *)
(* and background workers, which all end in an operation of the Engine     *)
(* (engine.py, repair.py, cli.py, manifest_source.py).                     *)
(*                                                                         *)
(* A process may read the saved state, show a plan and wait for the        *)
(* operator long before it takes the lock.  The lock is flock on an open   *)
(* file, which the kernel drops with its process.  lock.json, which only   *)
(* names the holder in the message for the others, is left out.            *)
(*                                                                         *)
(* state.json stands for the settings it records.  What an operation does  *)
(* to files and database is in FileTransaction and Publication: here it    *)
(* succeeds, fails and is undone, or dies with its process.                *)
(***************************************************************************)
EXTENDS Naturals, FiniteSets

CONSTANTS
    Sessions,      \* processes, each with one operation
    Commands,      \* what they may be started for: functions from Sessions to AllKinds
    Nobody,
    MaxWaits,      \* tries a background worker makes for the lock
    MaxCrashes

\* reconfigure: also --configure-decoys and the menus, which plan from the saved state.
AllKinds == {"reconfigure", "repair", "renewal", "resume", "sync", "dns"}

ASSUME ConstantsAssumption ==
    /\ Nobody \notin Sessions
    /\ Commands \subseteq [Sessions -> AllKinds]
    /\ MaxWaits \in Nat \ {0} /\ MaxCrashes \in Nat

VARIABLES
    kind,      \* kind[p]: what process p was started for
    pc,
    holder,    \* who holds the flock
    state,     \* [by |-> last writer, has |-> settings recorded]
    failed,    \* the plan in last-failed.json: [by, has]
    seen,      \* seen[p]: the state p read before its plan was confirmed
    source,    \* source[p]: the failed plan that --resume was confirmed for
    seal,      \* seal[p]: the state when p entered the transaction
    draft,     \* draft[p]: the settings p is about to record
    waited,
    crashes

vars == <<kind, pc, holder, state, failed, seen, source, seal, draft,
          waited, crashes>>

\* A renewal records the same setting whoever runs it, and so do the others that need no name.
Setting(p) == IF kind[p] \in {"renewal", "sync", "dns"} THEN kind[p] ELSE p

Settings == Sessions \cup {"renewal", "sync", "dns"}

States == [by : Sessions \cup {Nobody}, has : SUBSET Settings]

First == [by |-> Nobody, has |-> {}]

Stages == {"start", "confirm", "lock", "entered", "work", "clear",
           "release", "done", "dead"}

\* From the flock to LOCK_UN.
Inside == {"entered", "work", "clear", "release"}

Plans(k) == k \in {"reconfigure", "repair", "renewal", "resume"}

\* Engine.apply, which leaves a failed plan for --resume.
Applies(k) == k \in {"reconfigure", "repair", "resume"}

Init ==
    /\ kind \in Commands
    /\ pc = [p \in Sessions |-> "start"]
    /\ holder = Nobody
    /\ state = First /\ failed = First
    /\ seen = [p \in Sessions |-> First] /\ source = seen /\ seal = seen
    /\ draft = [p \in Sessions |-> {}]
    /\ waited = [p \in Sessions |-> 0]
    /\ crashes = 0

Goto(p, stage) == pc' = [pc EXCEPT ![p] = stage]

-----------------------------------------------------------------------------
(* Before the lock. *)

\* --resume needs a failed plan.
Plan(p) ==
    /\ pc[p] = "start" /\ Plans(kind[p])
    /\ seen' = [seen EXCEPT ![p] = state]
    /\ source' = [source EXCEPT ![p] = failed]
    /\ Goto(p, IF kind[p] = "resume" /\ failed.by = Nobody THEN "done" ELSE "confirm")
    /\ UNCHANGED <<kind, holder, state, failed, seal, draft, waited, crashes>>

WalkIn(p) ==
    /\ pc[p] = "start" /\ ~Plans(kind[p])
    /\ Goto(p, "lock")
    /\ UNCHANGED <<kind, holder, state, failed, seen, source, seal, draft, waited, crashes>>

\* repair_apply compares state.json with its plan, Engine.apply the source of a resume.
StillPlanned(p) ==
    /\ kind[p] = "repair" => state = seen[p]
    /\ kind[p] = "resume" => failed = source[p]

Confirm(p) ==
    /\ pc[p] = "confirm"
    /\ Goto(p, IF StillPlanned(p) THEN "lock" ELSE "done")
    /\ UNCHANGED <<kind, holder, state, failed, seen, source, seal, draft, waited, crashes>>

-----------------------------------------------------------------------------
(* Engine._exclusive_lock *)

\* Faulty variant: a DNS change is made without the lock.
AcquireUnlocked(p) ==
    /\ pc[p] = "lock" /\ (holder = Nobody \/ kind[p] = "dns")
    /\ holder' = p
    /\ Goto(p, "entered")
    /\ UNCHANGED <<kind, state, failed, seen, source, seal, draft, waited, crashes>>

Acquire(p) ==
    /\ pc[p] = "lock" /\ holder = Nobody
    /\ holder' = p
    /\ Goto(p, "entered")
    /\ UNCHANGED <<kind, state, failed, seen, source, seal, draft, waited, crashes>>

\* Faulty variant: one try more than the deadline allows.
WaitBlind(p) ==
    /\ pc[p] = "lock" /\ holder # Nobody /\ kind[p] = "sync" /\ waited[p] <= MaxWaits
    /\ waited' = [waited EXCEPT ![p] = @ + 1]
    /\ UNCHANGED <<kind, pc, holder, state, failed, seen, source, seal, draft, crashes>>

\* Only the worker of a reload is called with a wait_timeout.
Wait(p) ==
    /\ pc[p] = "lock" /\ holder # Nobody
    /\ kind[p] = "sync" /\ waited[p] < MaxWaits
    /\ waited' = [waited EXCEPT ![p] = @ + 1]
    /\ UNCHANGED <<kind, pc, holder, state, failed, seen, source, seal, draft, crashes>>

\* The deadline is one of time: a delayed process may pass it after a single try.
GiveUp(p) ==
    /\ pc[p] = "lock" /\ holder # Nobody
    /\ kind[p] = "sync" => waited[p] > 0
    /\ Goto(p, "done")
    /\ UNCHANGED <<kind, holder, state, failed, seen, source, seal, draft, waited, crashes>>

Unlock(p) ==
    /\ pc[p] = "release"
    /\ holder' = Nobody
    /\ Goto(p, "done")
    /\ UNCHANGED <<kind, state, failed, seen, source, seal, draft, waited, crashes>>

-----------------------------------------------------------------------------
(* Under the lock. *)

\* A plan without what a renewal sets itself.
Intent(has) == has \ {"renewal"}

\* Faulty variant: a renewal is not compared with the saved plan.
AdmittedAny(p) == kind[p] = "resume" => failed = source[p]

\* enable_certificate_renewal compares the plan it was given with the saved one.
Admitted(p) ==
    /\ kind[p] = "renewal" => Intent(seen[p].has) = Intent(state.has)
    /\ kind[p] = "resume" => failed = source[p]

\* The settings the operation builds on: those of its plan, or those it reads now.
Basis(p) ==
    CASE kind[p] \in {"sync", "dns"} -> state.has
      [] kind[p] = "resume" -> source[p].has
      [] OTHER -> seen[p].has

Read(p) ==
    /\ pc[p] = "entered"
    /\ seal' = [seal EXCEPT ![p] = state]
    /\ draft' = [draft EXCEPT ![p] = Basis(p) \cup {Setting(p)}]
    /\ Goto(p, IF Admitted(p) THEN "work" ELSE "release")
    /\ UNCHANGED <<kind, holder, state, failed, seen, source, waited, crashes>>

\* The seal is compared again before state.json is replaced; set_system_dns keeps none.
Commit(p) ==
    /\ pc[p] = "work"
    /\ kind[p] # "dns" => state = seal[p]
    /\ state' = [by |-> p, has |-> draft[p]]
    /\ Goto(p, IF Applies(kind[p]) THEN "clear" ELSE "release")
    /\ UNCHANGED <<kind, holder, failed, seen, source, seal, draft, waited, crashes>>

Clear(p) ==
    /\ pc[p] = "clear"
    /\ failed' = First
    /\ Goto(p, "release")
    /\ UNCHANGED <<kind, holder, state, seen, source, seal, draft, waited, crashes>>

\* A failed apply puts state.json back and saves its plan over the last failed one; the
\* report, which is written after state.json, may fail too.
Fail(p) ==
    /\ pc[p] \in {"work", "clear"}
    /\ state' = IF pc[p] = "clear" THEN seal[p] ELSE state
    /\ failed' = IF Applies(kind[p]) THEN [by |-> p, has |-> draft[p]] ELSE failed
    /\ Goto(p, "release")
    /\ UNCHANGED <<kind, holder, seen, source, seal, draft, waited, crashes>>

-----------------------------------------------------------------------------
\* Faulty variant: a lock that is a file, which stays when its process dies.
CrashKeepsLock(p) ==
    /\ crashes < MaxCrashes /\ pc[p] \notin {"done", "dead"}
    /\ crashes' = crashes + 1
    /\ Goto(p, "dead")
    /\ UNCHANGED <<kind, holder, state, failed, seen, source, seal, draft, waited>>

\* SIGKILL: the kernel closes the file and with it the flock.
Crash(p) ==
    /\ crashes < MaxCrashes /\ pc[p] \notin {"done", "dead"}
    /\ crashes' = crashes + 1
    /\ holder' = IF holder = p THEN Nobody ELSE holder
    /\ Goto(p, "dead")
    /\ UNCHANGED <<kind, state, failed, seen, source, seal, draft, waited>>

Step(p) ==
    \/ Acquire(p) \/ Wait(p) \/ GiveUp(p) \/ Read(p)
    \/ Commit(p) \/ Clear(p) \/ Fail(p) \/ Unlock(p)

\* What the operator does: start a command, answer its question.
Operate(p) == Plan(p) \/ WalkIn(p) \/ Confirm(p)

Next == \E p \in Sessions : Step(p) \/ Operate(p) \/ Crash(p)

\* A process that was started keeps running; nobody has to answer a question.
Fairness == \A p \in Sessions : WF_vars(Step(p))

Spec == Init /\ [][Next]_vars /\ Fairness

-----------------------------------------------------------------------------
TypeOK ==
    /\ kind \in [Sessions -> AllKinds]
    /\ pc \in [Sessions -> Stages]
    /\ holder \in Sessions \cup {Nobody}
    /\ state \in States /\ failed \in States
    /\ seen \in [Sessions -> States] /\ source \in [Sessions -> States]
    /\ seal \in [Sessions -> States]
    /\ draft \in [Sessions -> SUBSET Settings]
    /\ waited \in [Sessions -> 0 .. MaxWaits]
    /\ crashes \in 0 .. MaxCrashes

(***************************************************************************)
(* Whatever a process read when it entered is still so when it writes: no  *)
(* other process replaces state.json, or the plan a resume was confirmed   *)
(* for, in the minutes in between, crashes included.  For set_system_dns,  *)
(* which compares nothing, this is all that keeps it from losing a write.  *)
(***************************************************************************)
EntryHolds ==
    \A p \in Sessions : pc[p] = "work" =>
        /\ state = seal[p]
        /\ kind[p] = "resume" => failed = source[p]

(***************************************************************************)
(* The operations that do not plan from an old reading (a DNS change, the  *)
(* worker of a reload) or compare it under the lock (the registration of a *)
(* renewal) never drop a setting that another process recorded.            *)
(***************************************************************************)
LockedReadersKeepSettings ==
    [][\A p \in Sessions :
          pc[p] = "work" /\ state'.by = p /\ kind[p] \in {"renewal", "sync", "dns"} =>
              state.has \subseteq state'.has]_vars

(***************************************************************************)
(* The lock comes back, after a failure and after a crash too.             *)
(***************************************************************************)
LockComesBack == []<>(holder = Nobody)

(***************************************************************************)
(* Whoever asks for the lock ends, a waiting worker and one that fails     *)
(* included: waiting is bounded and the way out of the lock always open.   *)
(***************************************************************************)
WorkersEnd ==
    \A p \in Sessions : pc[p] = "lock" ~> pc[p] \in {"done", "dead"}

(***************************************************************************)
(* The lock always comes back, although its holder may be killed, and      *)
(* every worker of a reload comes to its end.                              *)
(***************************************************************************)
Progress == LockComesBack /\ WorkersEnd

=============================================================================
