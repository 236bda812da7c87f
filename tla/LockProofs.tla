----------------------------- MODULE LockProofs -----------------------------
(***************************************************************************)
(* Proofs about the operations that take the lock of the Engine:           *)
(* EngineSessions for any number of processes and crashes, and NaiveSync   *)
(* for any number of targets, generations, writes of others and faults.    *)
(*                                                                         *)
(* EngineSessions.  EntryHolds is not inductive: a step of another process *)
(* could replace state.json.  It cannot, because both would have to be     *)
(* between the flock and LOCK_UN, and whoever is there holds the lock      *)
(* (Locked).  What a process under the lock will write contains what it    *)
(* read (Grows); with EntryHolds that gives LockedReadersKeepSettings.     *)
(*                                                                         *)
(* NaiveSync.  A job reads the copies (baseline), writes some (receipts),  *)
(* and goes through or puts back what it has written.  SyncIInv says for   *)
(* each of its places which copies are whose: in receipts what it wrote,   *)
(* elsewhere what it found, in restored what it put back (Installed); that *)
(* what it would put back is what state.json names (Ours); and where todo, *)
(* receipts, touched and restored stand to each other (Placed).  Others    *)
(* write at any time, and what they write is excepted (Or).  Services      *)
(* follows from it: a service that the job has not restarted runs what the *)
(* job found.                                                              *)
(***************************************************************************)
EXTENDS EngineSessions, NaiveSync, FiniteSetTheorems, WellFoundedInduction, TLAPS

\* Exactly the process between the flock and LOCK_UN holds the lock.
Locked == \A p \in Sessions : pc[p] \in Inside <=> holder = p

\* The operations that plan under the lock, or compare their plan there, only add settings.
Grows ==
    \A p \in Sessions :
        pc[p] = "work" /\ kind[p] \in {"renewal", "sync", "dns"} => seal[p].has \subseteq draft[p]

IInv == TypeOK /\ Locked /\ EntryHolds /\ Grows

LEMMA InitIInv == Init => IInv
<1> SUFFICES ASSUME Init PROVE IInv
  OBVIOUS
<1> USE ConstantsAssumption DEF Init
<1>1. First \in States
  BY DEF First, States
<1>2. kind \in [Sessions -> AllKinds]
  OBVIOUS
<1>3. TypeOK
  BY <1>1, <1>2 DEF TypeOK, Stages
<1>4. Locked
  BY DEF Locked, Inside
<1>5. EntryHolds /\ Grows
  BY DEF EntryHolds, Grows
<1> QED
  BY <1>3, <1>4, <1>5 DEF IInv

\* Types of the records and sets the steps build.
LEMMA SettingType == ASSUME TypeOK, NEW p \in Sessions PROVE Setting(p) \in Settings
  BY DEF Setting, Settings, TypeOK

LEMMA BasisType == ASSUME TypeOK, NEW p \in Sessions PROVE Basis(p) \subseteq Settings
  BY DEF Basis, TypeOK, States

\* A step before the lock, or one that takes or releases it: nothing a process under
\* the lock relies on changes.
LEMMA OutsideStep ==
    ASSUME IInv, NEW p \in Sessions,
           \/ Plan(p) \/ WalkIn(p) \/ Confirm(p) \/ Acquire(p) \/ Wait(p) \/ GiveUp(p)
           \/ Unlock(p) \/ Crash(p)
    PROVE  IInv'
<1> USE DEF IInv
<1>1. TypeOK'
  <2>1. CASE Plan(p)
    BY <2>1, SMTT(60) DEF Plan, Goto, TypeOK, Stages
  <2>2. CASE WalkIn(p) \/ Confirm(p)
    BY <2>2, SMTT(60) DEF WalkIn, Confirm, Goto, TypeOK, Stages
  <2>3. CASE Acquire(p) \/ Wait(p) \/ GiveUp(p)
    BY <2>3, ConstantsAssumption, SMTT(60) DEF Acquire, Wait, GiveUp, Goto, TypeOK, Stages
  <2>4. CASE Unlock(p)
    BY <2>4, SMTT(60) DEF Unlock, Goto, TypeOK, Stages
  <2>5. CASE Crash(p)
    BY <2>5, ConstantsAssumption, SMTT(60) DEF Crash, Goto, TypeOK, Stages
  <2> QED
    BY <2>1, <2>2, <2>3, <2>4, <2>5
<1>2. Locked'
  <2>1. CASE Plan(p) \/ WalkIn(p) \/ Confirm(p) \/ Wait(p) \/ GiveUp(p)
    BY <2>1, SMTT(60)
    DEF Plan, WalkIn, Confirm, Wait, GiveUp, Goto, Locked, Inside, TypeOK
  <2>2. CASE Acquire(p) \/ Unlock(p) \/ Crash(p)
    BY <2>2, ConstantsAssumption, SMTT(60)
    DEF Acquire, Unlock, Crash, Goto, Locked, Inside, TypeOK
  <2> QED
    BY <2>1, <2>2
<1>3. \A q \in Sessions : pc'[q] = "work" => pc[q] = "work" /\ q # p
  BY SMTT(60) DEF Plan, WalkIn, Confirm, Acquire, Wait, GiveUp, Unlock,
                  Crash, Goto, TypeOK
<1>4. /\ UNCHANGED <<kind, state, failed, seal, draft>>
      /\ \A q \in Sessions \ {p} : source'[q] = source[q]
  BY SMTT(60) DEF Plan, WalkIn, Confirm, Acquire, Wait, GiveUp, Unlock,
                  Crash, Goto, TypeOK
<1>5. EntryHolds' /\ Grows'
  BY <1>3, <1>4 DEF EntryHolds, Grows
<1> QED
  BY <1>1, <1>2, <1>5

\* The reading of the state: what is sealed is what is there.
LEMMA ReadStep == ASSUME IInv, NEW p \in Sessions, Read(p) PROVE IInv'
<1> USE DEF IInv
<1>0. Setting(p) \in Settings /\ Basis(p) \subseteq Settings
  BY SettingType, BasisType
<1>1. TypeOK'
  BY <1>0, SMTT(60) DEF Read, Goto, TypeOK, Stages
<1>2. Locked'
  BY SMTT(60) DEF Read, Goto, Locked, Inside, TypeOK
<1>3. EntryHolds'
  BY SMTT(60) DEF Read, Goto, EntryHolds, Admitted, TypeOK
<1>4. ASSUME pc'[p] = "work", kind[p] \in {"renewal", "sync", "dns"}
      PROVE  state.has \subseteq Basis(p) \cup {Setting(p)}
  <2>1. Admitted(p)
    BY <1>4 DEF Read, Goto, TypeOK
  <2>2. CASE kind[p] = "renewal"
    <3>1. Intent(seen[p].has) = Intent(state.has) /\ Basis(p) = seen[p].has
      BY <2>1, <2>2 DEF Admitted, Basis
    <3>2. Setting(p) = "renewal"
      BY <2>2 DEF Setting
    <3> QED
      BY <3>1, <3>2 DEF Intent
  <2>3. CASE kind[p] # "renewal"
    BY <1>4, <2>3 DEF Basis
  <2> QED
    BY <2>2, <2>3
<1>5. Grows'
  BY <1>4, SMTT(60) DEF Read, Goto, Grows, TypeOK
<1> QED
  BY <1>1, <1>2, <1>3, <1>5

\* The steps that write: nobody else is under the lock.
LEMMA WriteStep ==
    ASSUME IInv, NEW p \in Sessions, Commit(p) \/ Clear(p) \/ Fail(p)
    PROVE  IInv'
<1> USE DEF IInv
<1>1. TypeOK'
  <2>1. CASE Commit(p)
    BY <2>1, SMTT(60) DEF Commit, Goto, TypeOK, Stages, States
  <2>2. CASE Clear(p)
    BY <2>2, SMTT(60) DEF Clear, First, Goto, TypeOK, Stages, States
  <2>3. CASE Fail(p)
    BY <2>3, SMTT(60) DEF Fail, Goto, TypeOK, Stages, States
  <2> QED
    BY <2>1, <2>2, <2>3
<1>2. Locked'
  BY SMTT(60) DEF Commit, Clear, Fail, Goto, Locked, Inside, TypeOK
<1>3. pc[p] \in Inside /\ pc'[p] \in Inside \ {"work"} /\ holder' = holder
  BY SMTT(60) DEF Commit, Clear, Fail, Goto, Inside, TypeOK
<1>4. \A q \in Sessions : pc'[q] # "work"
  <2> SUFFICES ASSUME NEW q \in Sessions, pc'[q] = "work" PROVE FALSE
    OBVIOUS
  <2>1. holder = p
    BY <1>3 DEF Locked
  <2>2. holder' = q
    BY <1>2 DEF Locked, Inside
  <2> QED
    BY <1>3, <2>1, <2>2
<1>5. EntryHolds' /\ Grows'
  BY <1>4 DEF EntryHolds, Grows
<1> QED
  BY <1>1, <1>2, <1>5

LEMMA StepIInv == IInv /\ [Next]_vars => IInv'
<1> SUFFICES ASSUME IInv, [Next]_vars PROVE IInv'
  OBVIOUS
<1>1. CASE UNCHANGED vars
  BY <1>1 DEF vars, IInv, TypeOK, Locked, EntryHolds, Grows
<1>2. CASE Next
  <2> PICK p \in Sessions : Step(p) \/ Operate(p) \/ Crash(p)
    BY <1>2 DEF Next
  <2>1. CASE Read(p)
    BY <2>1, ReadStep
  <2>2. CASE Commit(p) \/ Clear(p) \/ Fail(p)
    BY <2>2, WriteStep
  <2>3. CASE \/ Plan(p) \/ WalkIn(p) \/ Confirm(p) \/ Acquire(p) \/ Wait(p) \/ GiveUp(p)
             \/ Unlock(p) \/ Crash(p)
    BY <2>3, OutsideStep
  <2> QED
    BY <2>1, <2>2, <2>3 DEF Step, Operate
<1> QED
  BY <1>1, <1>2

THEOREM Inductive == Spec => []IInv
  BY InitIInv, StepIInv, PTL DEF Spec

(***************************************************************************)
(* Every process is at a stage of its operation, and what it has read or   *)
(* is about to write are settings.                                         *)
(***************************************************************************)
THEOREM TypesHold == Spec => []TypeOK
<1>1. IInv => TypeOK
  BY DEF IInv
<1> QED
  BY <1>1, Inductive, PTL

(***************************************************************************)
(* For any number of processes: what a process read when it entered is     *)
(* still in state.json when it writes.                                     *)
(***************************************************************************)
THEOREM EntrySealHolds == Spec => []EntryHolds
<1>1. IInv => EntryHolds
  BY DEF IInv
<1> QED
  BY <1>1, Inductive, PTL

(***************************************************************************)
(* For any number of processes: a DNS change, a background worker and the  *)
(* registration of a renewal keep what the others recorded.                *)
(***************************************************************************)
THEOREM LockedReadersKeep == Spec => LockedReadersKeepSettings
<1>1. ASSUME IInv, [Next]_vars, NEW p \in Sessions,
             pc[p] = "work", state'.by = p, kind[p] \in {"renewal", "sync", "dns"}
      PROVE  state.has \subseteq state'.has
  <2>1. CASE state' = state
    BY <2>1
  <2>2. CASE state' # state
    <3>1. PICK q \in Sessions : Commit(q) \/ (Fail(q) /\ pc[q] = "clear")
      BY <1>1, <2>2, SMTT(60)
      DEF Next, Step, Operate, Plan, WalkIn, Confirm, Acquire, Wait, GiveUp,
          Read, Clear, Fail, Unlock, Crash, vars
    <3>2. pc[q] \in {"work", "clear"}
      BY <3>1 DEF Commit
    <3>3. holder = q /\ holder = p
      BY <1>1, <3>2 DEF IInv, Locked, Inside
    <3>4. Commit(p)
      BY <1>1, <3>1, <3>3
    <3>5. state'.has = draft[p]
      BY <3>4 DEF Commit
    <3>6. state = seal[p] /\ seal[p].has \subseteq draft[p]
      BY <1>1 DEF IInv, EntryHolds, Grows
    <3> QED
      BY <3>5, <3>6
  <2> QED
    BY <2>1, <2>2
<1>2. IInv /\ [Next]_vars =>
        [\A p \in Sessions :
           pc[p] = "work" /\ state'.by = p /\ kind[p] \in {"renewal", "sync", "dns"} =>
             state.has \subseteq state'.has]_vars
  BY <1>1
<1> QED
  BY <1>2, Inductive, PTL DEF Spec, LockedReadersKeepSettings

-----------------------------------------------------------------------------
(* NaiveSync *)

RenderedContents == {Rendered[t][g] : t \in Targets, g \in Gens}

\* Where a job has not looked at the copies, where it goes on, and where it puts them back.
Early == {"none", "prepare", "settle", "plan"}
Copying == {"check", "write", "readback"}
Ahead == {"staged", "restart", "commit", "save"} \cup Copying
Back == {"undo", "unwrite", "unread", "revive"}

Copies == [val : Contents, private : BOOLEAN, by : {"start", "sync", "undo", "other"}]

Units == [up : BOOLEAN, runs : Contents]

Panels == [gen : Gens, phase : {"ready", "starting", "written"}, policy : BOOLEAN, hooked : BOOLEAN]

\* What TypeOK says, but for the number of the jobs; what others have written is private.
Typed ==
    /\ panel \in Panels
    /\ file \in [Targets -> Copies] /\ baseline \in [Targets -> Copies]
    /\ \A t \in Targets :
          /\ file[t].by = "other" => file[t].private /\ file[t].val \in Foreign
          /\ baseline[t].by = "other" => baseline[t].private /\ baseline[t].val \in Foreign
    /\ service \in [Targets -> Units]
    /\ saved \in [gen : Gens, hashes : [Targets -> RenderedContents],
                  by : {"start", "sync", "other"}]
    /\ hooks \in Nat /\ paths \subseteq Targets
    /\ lockedBy \in paths \cup {Hook, NoJob}
    /\ stage \in JobStages /\ (stage = "none" <=> lockedBy = NoJob)
    /\ previous \in Gens \cup {NoGen} /\ gen \in Gens \cup {NoGen} /\ tries \in 0 .. MaxTries
    /\ restored \subseteq receipts /\ touched \subseteq receipts /\ receipts \subseteq Targets
    /\ todo \subseteq Targets /\ spoiled \subseteq Targets /\ stirred \subseteq Targets
    /\ edits \in 0 .. MaxEdits /\ faults \in 0 .. MaxFaults

\* The restarts of the panel; those by the hook have started a job for each target.
Restarts == panel.gen + (IF panel.phase = "starting" THEN 1 ELSE 0)

Counted == Restarts \in Gens /\ hooks <= Restarts * Cardinality(Targets)

\* What a job has settled and has in hand, for each of its places.
Placed ==
    /\ stage \notin {"none", "prepare", "settle"} => gen \in Gens
    /\ stage \in Early \cup {"staged"} => receipts = {}
    /\ stage \in Early \cup {"staged"} \cup Copying => touched = {}
    /\ stage \notin Back => restored = {}
    /\ stage \in Copying \cup {"unwrite", "unread"} => todo # {}
    /\ stage = "readback" => Lowest(todo) \in receipts
    /\ stage \in {"restart", "commit", "save", "confirm"} \cup Back => todo \subseteq receipts
    /\ stage \in {"commit", "save", "confirm"} => todo = {}
    /\ stage \in {"undo", "unwrite", "unread"} => receipts \subseteq todo \cup restored \cup spoiled
    /\ stage = "revive" => /\ receipts \subseteq restored \cup spoiled
                           /\ todo \subseteq restored \cap touched

\* Between two jobs: StateMatchesFiles.
Matches ==
    saved.by # "other" =>
        \A t \in Targets \ spoiled : file[t].by # "other" => file[t].val = saved.hashes[t]

Or(t, copy) == file[t] = copy \/ file[t].by = "other"

\* The copies of a job: what it has written, what it has found, what it has put back.
Installed ==
    /\ stage \in Early => Matches
    /\ stage \in Ahead \cup {"confirm"} =>
          \A t \in Targets : IF t \in receipts THEN Or(t, Receipt(t)) ELSE Or(t, baseline[t])
    /\ stage \in {"staged"} \cup Copying =>
          \A t \in Targets \ (receipts \cup todo) : baseline[t].val = Desired(t)
    /\ stage \in {"restart", "commit", "save", "confirm"} =>
          \A t \in Targets \ receipts : baseline[t].val = Desired(t)
    /\ stage = "confirm" => saved.by # "start" /\ \A t \in Targets : saved.hashes[t] = Desired(t)
    /\ stage \in Back => /\ \A t \in Targets \ (receipts \cup spoiled) : Or(t, baseline[t])
                         /\ \A t \in restored : Or(t, Unwritten(t))

\* What a job would put back is what state.json names.
Ours ==
    stage \in Ahead \cup Back /\ saved.by # "other" =>
        \A t \in Targets \ spoiled :
            baseline[t].by # "other" \/ t \in receipts \cup todo => baseline[t].val = saved.hashes[t]

\* Since the fence nothing was written, or it is known.
Guarded == stage = "save" => moved \/ (panel.gen = gen /\ saved = sealed)

SyncIInv == Typed /\ Counted /\ Placed /\ Installed /\ Ours /\ Guarded

Runs(t, v) == service[t].up => service[t].runs = v

InForce(t) == file[t].by # "other" => Runs(t, file[t].val)

Settled == Targets \ (spoiled \cup stirred)

\* The services: one that a job has not restarted runs what the job has found.
Services ==
    /\ stage \in Early => \A t \in Settled : InForce(t)
    /\ stage \notin Early => /\ \A t \in Settled \ touched : Runs(t, baseline[t].val)
                             /\ \A t \in Targets : baseline[t].by # "other"
    /\ stage \in {"restart", "commit", "save", "confirm"} =>
          /\ \A t \in Settled \cap touched : InForce(t)
          /\ ChangedContent \subseteq touched \cup todo
    /\ stage = "revive" => \A t \in (Settled \cap restored \cap touched) \ todo : InForce(t)

-----------------------------------------------------------------------------
(* The first and the last target *)

LEMMA NatInd ==
    ASSUME NEW S, 0 \in S, \A n \in Nat : n \in S => n + 1 \in S
    PROVE  \A n \in Nat : n \in S
<1> DEFINE R == OpToRel(<, Nat)
<1>1. SUFFICES ASSUME Nat \ S # {} PROVE FALSE
  OBVIOUS
<1>2. \E x \in Nat \ S : \A y \in Nat \ S : ~ (<<y, x>> \in R)
  <2>1. IsWellFoundedOn(R, Nat)
    BY NatLessThanWellFounded
  <2> HIDE DEF R
  <2> QED
    BY <1>1, <2>1, WFMin
<1>3. PICK x \in Nat \ S : \A y \in Nat \ S : ~ (y < x)
  BY <1>2 DEF OpToRel
<1>4. x # 0 /\ x - 1 \in Nat /\ x - 1 < x
  BY <1>3
<1>5. x - 1 \in S
  BY <1>3, <1>4
<1>6. (x - 1) + 1 \in S
  BY <1>4, <1>5
<1> QED
  BY <1>3, <1>6

LEMMA Ends ==
    ASSUME NEW S \in SUBSET Targets, S # {}
    PROVE  Lowest(S) \in S /\ Highest(S) \in S
<1> DEFINE Low(T) == \E t \in T : \A u \in T : Rank[t] <= Rank[u]
           High(T) == \E t \in T : \A u \in T : Rank[u] <= Rank[t]
           P == {n \in Nat : \A T \in SUBSET Targets :
                    Cardinality(T) = n /\ T # {} => Low(T) /\ High(T)}
<1>1. 0 \in P
  <2> SUFFICES ASSUME NEW T \in SUBSET Targets, Cardinality(T) = 0 PROVE T = {}
    OBVIOUS
  <2> QED
    BY SyncAssumption, FS_Subset, FS_EmptySet
<1>2. ASSUME NEW n \in Nat, n \in P PROVE n + 1 \in P
  <2> SUFFICES ASSUME NEW T \in SUBSET Targets, Cardinality(T) = n + 1, T # {}
               PROVE  Low(T) /\ High(T)
    OBVIOUS
  <2>1. PICK t \in T : TRUE
    OBVIOUS
  <2>2. IsFiniteSet(T)
    BY SyncAssumption, FS_Subset
  <2>3. Cardinality(T \ {t}) = n
    <3>1. Cardinality(T \ {t}) = Cardinality(T) - 1
      BY <2>1, <2>2, FS_RemoveElement
    <3> QED
      BY <3>1
  <2>4. CASE T \ {t} = {}
    <3>1. T = {t}
      BY <2>4, <2>1
    <3> QED
      BY <3>1, SyncAssumption
  <2>5. CASE T \ {t} # {}
    <3>1. Low(T \ {t}) /\ High(T \ {t})
      BY <1>2, <2>3, <2>5
    <3>2. PICK a \in T \ {t} : \A u \in T \ {t} : Rank[a] <= Rank[u]
      BY <3>1
    <3>3. PICK b \in T \ {t} : \A u \in T \ {t} : Rank[u] <= Rank[b]
      BY <3>1
    <3>4. Low(T)
      <4>1. CASE Rank[t] <= Rank[a]
        BY <4>1, <3>2, <2>1, SyncAssumption
      <4>2. CASE ~ (Rank[t] <= Rank[a])
        BY <4>2, <3>2, <2>1, SyncAssumption
      <4> QED
        BY <4>1, <4>2
    <3>5. High(T)
      <4>1. CASE Rank[b] <= Rank[t]
        BY <4>1, <3>3, <2>1, SyncAssumption
      <4>2. CASE ~ (Rank[b] <= Rank[t])
        BY <4>2, <3>3, <2>1, SyncAssumption
      <4> QED
        BY <4>1, <4>2
    <3> QED
      BY <3>4, <3>5
  <2> QED
    BY <2>4, <2>5
<1>3. Cardinality(S) \in Nat
  BY SyncAssumption, FS_Subset, FS_CardinalityType
<1>4. Cardinality(S) \in P
  <2> HIDE DEF P
  <2> QED
    BY <1>1, <1>2, <1>3, NatInd
<1>5. Low(S) /\ High(S)
  BY <1>4
<1> QED
  BY <1>5 DEF Lowest, Highest

LEMMA Held ==
    ASSUME Typed, todo # {}
    PROVE  /\ Lowest(todo) \in todo /\ Lowest(todo) \in Targets
           /\ Highest(todo) \in todo /\ Highest(todo) \in Targets
<1>1. todo \in SUBSET Targets
  BY DEF Typed
<1> QED
  BY <1>1, Ends

LEMMA Types ==
    ASSUME Typed, NEW t \in Targets
    PROVE  /\ file[t] \in Copies /\ baseline[t] \in Copies
           /\ [up |-> TRUE, runs |-> file[t].val] \in Units
           /\ \A b \in BOOLEAN : [up |-> b, runs |-> file[t].val] \in Units
           /\ [service[t] EXCEPT !.up = FALSE] \in Units
           /\ gen \in Gens => /\ Desired(t) \in RenderedContents
                              /\ Receipt(t) \in Copies /\ Receipt(t).by = "sync"
                              /\ Receipt(t).val = Desired(t)
           /\ Unwritten(t) \in Copies /\ Unwritten(t).by = "undo"
           /\ Unwritten(t).val = baseline[t].val
<1>1. file[t] \in Copies /\ baseline[t] \in Copies /\ service[t] \in Units
  BY DEF Typed
<1>2. gen \in Gens => /\ Desired(t) \in RenderedContents /\ Desired(t) \in Contents
  BY DEF Desired, RenderedContents, Contents
<1> QED
  BY <1>1, <1>2 DEF Copies, Units, Receipt, Unwritten

LEMMA CountFact ==
    ASSUME Typed, Counted
    PROVE  SyncTypeOK
<1>1. Cardinality(Targets) \in Nat
  BY SyncAssumption, FS_CardinalityType
<1>2. MaxGen \in Nat /\ Restarts \in Nat /\ Restarts <= MaxGen
  BY SyncAssumption DEF Counted, Gens
<1>3. Restarts * Cardinality(Targets) <= MaxGen * Cardinality(Targets)
  BY <1>1, <1>2
<1>4. Restarts * Cardinality(Targets) \in Nat /\ MaxGen * Cardinality(Targets) \in Nat
  BY <1>1, <1>2
<1>5. hooks \in 0 .. MaxGen * Cardinality(Targets)
  BY <1>3, <1>4 DEF Typed, Counted
<1>6. RenderedContents \subseteq Contents
  BY DEF RenderedContents, Contents
<1> QED
  BY <1>5, <1>6 DEF Typed, SyncTypeOK, Copies, Units, Panels

LEMMA AcquireStep == ASSUME SyncIInv, NEW j \in Targets \cup {Hook}, TakeLock(j) PROVE SyncIInv'
<1> USE SyncAssumption DEF SyncIInv, TakeLock, Enter, world, queue, plan, work, history, bounds
<1>1. Typed'
  BY DEF Typed, Placed, JobStages
<1>2. Counted'
  <2>1. Restarts' = Restarts
    BY DEF Restarts
  <2>2. hooks' \in Nat /\ hooks' <= hooks
    BY DEF Typed
  <2>3. Restarts * Cardinality(Targets) \in Nat
    BY FS_CardinalityType DEF Counted, Gens
  <2> QED
    BY <2>1, <2>2, <2>3 DEF Typed, Counted
<1>3. Placed'
  BY DEF Typed, Placed, Early, Ahead, Back, Copying
<1>4. Installed'
  BY DEF Typed, Placed, Installed, Matches, Or, Receipt, Unwritten, Desired, Early, Ahead, Back, Copying
<1>5. Ours'
  BY DEF Typed, Placed, Ours, Ahead, Back, Copying
<1>6. Guarded'
  BY DEF Typed, Guarded
<1> QED
  BY <1>1, <1>2, <1>3, <1>4, <1>5, <1>6

LEMMA BusyStep == ASSUME SyncIInv, NEW j \in Targets \cup {Hook}, Busy(j) PROVE SyncIInv'
<1> USE SyncAssumption DEF SyncIInv, Busy, Fault, world, queue, plan, work, history, bounds
<1>1. Typed'
  BY DEF Typed, Placed, JobStages
<1>2. Counted'
  <2>1. Restarts' = Restarts
    BY DEF Restarts
  <2>2. hooks' \in Nat /\ hooks' <= hooks
    BY DEF Typed
  <2>3. Restarts * Cardinality(Targets) \in Nat
    BY FS_CardinalityType DEF Counted, Gens
  <2> QED
    BY <2>1, <2>2, <2>3 DEF Typed, Counted
<1>3. Placed'
  BY DEF Typed, Placed, Early, Ahead, Back, Copying
<1>4. Installed'
  BY DEF Typed, Placed, Installed, Matches, Or, Receipt, Unwritten, Desired, Early, Ahead, Back, Copying
<1>5. Ours'
  BY DEF Typed, Placed, Ours, Ahead, Back, Copying
<1>6. Guarded'
  BY DEF Typed, Guarded
<1> QED
  BY <1>1, <1>2, <1>3, <1>4, <1>5, <1>6

LEMMA SettleStep == ASSUME SyncIInv, Settle PROVE SyncIInv'
<1> USE SyncAssumption DEF SyncIInv, Settle, Reading, Consistent, Enter, world, queue, plan, work, history, bounds
<1>1. Typed'
  <2>1. panel.gen \in Gens
    BY DEF Typed, Panels
  <2>2. tries + 1 \in 0 .. MaxTries
    BY DEF Typed
  <2> QED
    BY <2>1, <2>2 DEF Typed, JobStages
<1>2. Counted'
  BY DEF Typed, Counted, Restarts
<1>3. Placed'
  BY DEF Typed, Placed, Early, Ahead, Back, Copying
<1>4. Installed'
  BY DEF Typed, Placed, Installed, Matches, Or, Receipt, Unwritten, Desired, Early, Ahead, Back, Copying
<1>5. Ours'
  BY DEF Typed, Placed, Ours, Ahead, Back, Copying
<1>6. Guarded'
  BY DEF Typed, Guarded
<1> QED
  BY <1>1, <1>2, <1>3, <1>4, <1>5, <1>6

LEMMA CopyStep == ASSUME SyncIInv, Write PROVE SyncIInv'
<1> USE SyncAssumption DEF SyncIInv, Write, Enter, world, queue, plan, work, history, bounds
<1> DEFINE x == Lowest(todo)
<1>0. /\ x \in todo /\ x \in Targets
      /\ file[x] \in Copies /\ baseline[x] \in Copies
      /\ \A b \in BOOLEAN : [up |-> b, runs |-> file[x].val] \in Units
      /\ [service[x] EXCEPT !.up = FALSE] \in Units
      /\ gen \in Gens => /\ Desired(x) \in RenderedContents
                         /\ Receipt(x) \in Copies /\ Receipt(x).by = "sync"
                         /\ Receipt(x).val = Desired(x)
      /\ Unwritten(x) \in Copies /\ Unwritten(x).by = "undo"
      /\ Unwritten(x).val = baseline[x].val
  <2>1. todo # {}
    BY DEF Placed, Copying
  <2> QED
    BY <2>1, Held, Types
<1>1. Typed'
  BY <1>0 DEF Typed, Placed, JobStages
<1>2. Counted'
  BY DEF Typed, Counted, Restarts
<1>3. Placed'
  BY <1>0 DEF Typed, Placed, Early, Ahead, Back, Copying
<1>4. Installed'
  BY <1>0 DEF Typed, Placed, Installed, Matches, Or, Receipt, Unwritten, Desired, Early, Ahead, Back, Copying
<1>5. Ours'
  BY <1>0 DEF Typed, Placed, Ours, Ahead, Back, Copying
<1>6. Guarded'
  BY DEF Typed, Guarded
<1> QED
  BY <1>1, <1>2, <1>3, <1>4, <1>5, <1>6

LEMMA WriteTornStep == ASSUME SyncIInv, WriteTorn PROVE SyncIInv'
<1> USE SyncAssumption DEF SyncIInv, WriteTorn, Fault, Enter, world, queue, plan, work, history, bounds
<1> DEFINE x == Lowest(todo)
<1>0. /\ x \in todo /\ x \in Targets
      /\ file[x] \in Copies /\ baseline[x] \in Copies
      /\ \A b \in BOOLEAN : [up |-> b, runs |-> file[x].val] \in Units
      /\ [service[x] EXCEPT !.up = FALSE] \in Units
      /\ gen \in Gens => /\ Desired(x) \in RenderedContents
                         /\ Receipt(x) \in Copies /\ Receipt(x).by = "sync"
                         /\ Receipt(x).val = Desired(x)
      /\ Unwritten(x) \in Copies /\ Unwritten(x).by = "undo"
      /\ Unwritten(x).val = baseline[x].val
  <2>1. todo # {}
    BY DEF Placed, Copying
  <2> QED
    BY <2>1, Held, Types
<1>1. Typed'
  BY <1>0 DEF Typed, Placed, JobStages
<1>2. Counted'
  BY DEF Typed, Counted, Restarts
<1>3. Placed'
  BY <1>0 DEF Typed, Placed, Early, Ahead, Back, Copying
<1>4. Installed'
  BY <1>0 DEF Typed, Placed, Installed, Matches, Or, Receipt, Unwritten, Desired, Early, Ahead, Back, Copying
<1>5. Ours'
  BY <1>0 DEF Typed, Placed, Ours, Ahead, Back, Copying
<1>6. Guarded'
  BY DEF Typed, Guarded
<1> QED
  BY <1>1, <1>2, <1>3, <1>4, <1>5, <1>6

LEMMA RestartStep == ASSUME SyncIInv, Restart PROVE SyncIInv'
<1> USE SyncAssumption DEF SyncIInv, Restart, Restarted, world, queue, plan, work, history, bounds
<1> DEFINE x == Lowest(todo)
<1>0. /\ x \in todo /\ x \in Targets
      /\ file[x] \in Copies /\ baseline[x] \in Copies
      /\ \A b \in BOOLEAN : [up |-> b, runs |-> file[x].val] \in Units
      /\ [service[x] EXCEPT !.up = FALSE] \in Units
      /\ gen \in Gens => /\ Desired(x) \in RenderedContents
                         /\ Receipt(x) \in Copies /\ Receipt(x).by = "sync"
                         /\ Receipt(x).val = Desired(x)
      /\ Unwritten(x) \in Copies /\ Unwritten(x).by = "undo"
      /\ Unwritten(x).val = baseline[x].val
  <2>1. todo # {}
    BY DEF Placed, Copying
  <2> QED
    BY <2>1, Held, Types
<1>1. Typed'
  <2>1. service' \in [Targets -> Units]
    BY <1>0 DEF Typed, Placed, Units
  <2> QED
    BY <1>0, <2>1 DEF Typed, Placed, JobStages
<1>2. Counted'
  BY DEF Typed, Counted, Restarts
<1>3. Placed'
  BY <1>0 DEF Typed, Placed, Early, Ahead, Back, Copying
<1>4. Installed'
  BY <1>0 DEF Typed, Placed, Installed, Matches, Or, Receipt, Unwritten, Desired, Early, Ahead, Back, Copying
<1>5. Ours'
  BY <1>0 DEF Typed, Placed, Ours, Ahead, Back, Copying
<1>6. Guarded'
  BY DEF Typed, Guarded
<1> QED
  BY <1>1, <1>2, <1>3, <1>4, <1>5, <1>6

LEMMA RestartFailsStep == ASSUME SyncIInv, RestartFails PROVE SyncIInv'
<1> USE SyncAssumption DEF SyncIInv, RestartFails, Restarted, Fault, Enter, world, queue, plan, work, history, bounds
<1> DEFINE x == Lowest(todo)
<1>0. /\ x \in todo /\ x \in Targets
      /\ file[x] \in Copies /\ baseline[x] \in Copies
      /\ \A b \in BOOLEAN : [up |-> b, runs |-> file[x].val] \in Units
      /\ [service[x] EXCEPT !.up = FALSE] \in Units
      /\ gen \in Gens => /\ Desired(x) \in RenderedContents
                         /\ Receipt(x) \in Copies /\ Receipt(x).by = "sync"
                         /\ Receipt(x).val = Desired(x)
      /\ Unwritten(x) \in Copies /\ Unwritten(x).by = "undo"
      /\ Unwritten(x).val = baseline[x].val
  <2>1. todo # {}
    BY DEF Placed, Copying
  <2> QED
    BY <2>1, Held, Types
<1>1. Typed'
  BY <1>0 DEF Typed, Placed, JobStages
<1>2. Counted'
  BY DEF Typed, Counted, Restarts
<1>3. Placed'
  BY <1>0 DEF Typed, Placed, Early, Ahead, Back, Copying
<1>4. Installed'
  BY <1>0 DEF Typed, Placed, Installed, Matches, Or, Receipt, Unwritten, Desired, Early, Ahead, Back, Copying
<1>5. Ours'
  BY <1>0 DEF Typed, Placed, Ours, Ahead, Back, Copying
<1>6. Guarded'
  BY DEF Typed, Guarded
<1> QED
  BY <1>1, <1>2, <1>3, <1>4, <1>5, <1>6

LEMMA UndoCheckStep == ASSUME SyncIInv, UndoCheck PROVE SyncIInv'
<1> USE SyncAssumption DEF SyncIInv, UndoCheck, Enter, world, queue, plan, work, history, bounds
<1> DEFINE x == Highest(todo)
<1>0. /\ x \in todo /\ x \in Targets
      /\ file[x] \in Copies /\ baseline[x] \in Copies
      /\ \A b \in BOOLEAN : [up |-> b, runs |-> file[x].val] \in Units
      /\ [service[x] EXCEPT !.up = FALSE] \in Units
      /\ gen \in Gens => /\ Desired(x) \in RenderedContents
                         /\ Receipt(x) \in Copies /\ Receipt(x).by = "sync"
                         /\ Receipt(x).val = Desired(x)
      /\ Unwritten(x) \in Copies /\ Unwritten(x).by = "undo"
      /\ Unwritten(x).val = baseline[x].val
  <2>1. todo # {}
    BY DEF Placed, Copying
  <2> QED
    BY <2>1, Held, Types
<1>1. Typed'
  BY <1>0 DEF Typed, Placed, JobStages
<1>2. Counted'
  BY DEF Typed, Counted, Restarts
<1>3. Placed'
  BY <1>0 DEF Typed, Placed, Early, Ahead, Back, Copying
<1>4. Installed'
  BY <1>0 DEF Typed, Placed, Installed, Matches, Or, Receipt, Unwritten, Desired, Early, Ahead, Back, Copying
<1>5. Ours'
  BY <1>0 DEF Typed, Placed, Ours, Ahead, Back, Copying
<1>6. Guarded'
  BY DEF Typed, Guarded
<1> QED
  BY <1>1, <1>2, <1>3, <1>4, <1>5, <1>6

LEMMA UnwriteStep == ASSUME SyncIInv, Unwrite PROVE SyncIInv'
<1> USE SyncAssumption DEF SyncIInv, Unwrite, Enter, world, queue, plan, work, history, bounds
<1> DEFINE x == Highest(todo)
<1>0. /\ x \in todo /\ x \in Targets
      /\ file[x] \in Copies /\ baseline[x] \in Copies
      /\ \A b \in BOOLEAN : [up |-> b, runs |-> file[x].val] \in Units
      /\ [service[x] EXCEPT !.up = FALSE] \in Units
      /\ gen \in Gens => /\ Desired(x) \in RenderedContents
                         /\ Receipt(x) \in Copies /\ Receipt(x).by = "sync"
                         /\ Receipt(x).val = Desired(x)
      /\ Unwritten(x) \in Copies /\ Unwritten(x).by = "undo"
      /\ Unwritten(x).val = baseline[x].val
  <2>1. todo # {}
    BY DEF Placed, Copying
  <2> QED
    BY <2>1, Held, Types
<1>1. Typed'
  BY <1>0 DEF Typed, Placed, JobStages
<1>2. Counted'
  BY DEF Typed, Counted, Restarts
<1>3. Placed'
  BY <1>0 DEF Typed, Placed, Early, Ahead, Back, Copying
<1>4. Installed'
  BY <1>0 DEF Typed, Placed, Installed, Matches, Or, Receipt, Unwritten, Desired, Early, Ahead, Back, Copying
<1>5. Ours'
  BY <1>0 DEF Typed, Placed, Ours, Ahead, Back, Copying
<1>6. Guarded'
  BY DEF Typed, Guarded
<1> QED
  BY <1>1, <1>2, <1>3, <1>4, <1>5, <1>6

LEMMA UnwriteFailsStep == ASSUME SyncIInv, UnwriteFails PROVE SyncIInv'
<1> USE SyncAssumption DEF SyncIInv, UnwriteFails, Fault, Enter, world, queue, plan, work, history, bounds
<1> DEFINE x == Highest(todo)
<1>0. /\ x \in todo /\ x \in Targets
      /\ file[x] \in Copies /\ baseline[x] \in Copies
      /\ \A b \in BOOLEAN : [up |-> b, runs |-> file[x].val] \in Units
      /\ [service[x] EXCEPT !.up = FALSE] \in Units
      /\ gen \in Gens => /\ Desired(x) \in RenderedContents
                         /\ Receipt(x) \in Copies /\ Receipt(x).by = "sync"
                         /\ Receipt(x).val = Desired(x)
      /\ Unwritten(x) \in Copies /\ Unwritten(x).by = "undo"
      /\ Unwritten(x).val = baseline[x].val
  <2>1. todo # {}
    BY DEF Placed, Copying
  <2> QED
    BY <2>1, Held, Types
<1>1. Typed'
  BY <1>0 DEF Typed, Placed, JobStages
<1>2. Counted'
  BY DEF Typed, Counted, Restarts
<1>3. Placed'
  BY <1>0 DEF Typed, Placed, Early, Ahead, Back, Copying
<1>4. Installed'
  BY <1>0 DEF Typed, Placed, Installed, Matches, Or, Receipt, Unwritten, Desired, Early, Ahead, Back, Copying
<1>5. Ours'
  BY <1>0 DEF Typed, Placed, Ours, Ahead, Back, Copying
<1>6. Guarded'
  BY DEF Typed, Guarded
<1> QED
  BY <1>1, <1>2, <1>3, <1>4, <1>5, <1>6

LEMMA UnreadStep == ASSUME SyncIInv, Unread PROVE SyncIInv'
<1> USE SyncAssumption DEF SyncIInv, Unread, Enter, world, queue, plan, work, history, bounds
<1> DEFINE x == Highest(todo)
<1>0. /\ x \in todo /\ x \in Targets
      /\ file[x] \in Copies /\ baseline[x] \in Copies
      /\ \A b \in BOOLEAN : [up |-> b, runs |-> file[x].val] \in Units
      /\ [service[x] EXCEPT !.up = FALSE] \in Units
      /\ gen \in Gens => /\ Desired(x) \in RenderedContents
                         /\ Receipt(x) \in Copies /\ Receipt(x).by = "sync"
                         /\ Receipt(x).val = Desired(x)
      /\ Unwritten(x) \in Copies /\ Unwritten(x).by = "undo"
      /\ Unwritten(x).val = baseline[x].val
  <2>1. todo # {}
    BY DEF Placed, Copying
  <2> QED
    BY <2>1, Held, Types
<1>1. Typed'
  <2>1. restored' \subseteq receipts /\ spoiled' \subseteq Targets /\ todo' \subseteq Targets
    BY <1>0 DEF Typed, Placed, Back
  <2> QED
    BY <2>1 DEF Typed, JobStages
<1>2. Counted'
  BY DEF Typed, Counted, Restarts
<1>3. Placed'
  BY <1>0 DEF Typed, Placed, Early, Ahead, Back, Copying
<1>4. Installed'
  BY <1>0 DEF Typed, Placed, Installed, Matches, Or, Receipt, Unwritten, Desired, Early, Ahead, Back, Copying
<1>5. Ours'
  BY <1>0 DEF Typed, Placed, Ours, Ahead, Back, Copying
<1>6. Guarded'
  BY DEF Typed, Guarded
<1> QED
  BY <1>1, <1>2, <1>3, <1>4, <1>5, <1>6

LEMMA UndoneStep == ASSUME SyncIInv, Undone PROVE SyncIInv'
<1> USE SyncAssumption DEF SyncIInv, Undone, Owed, Enter, world, queue, plan, work, history, bounds
<1>1. Typed'
  BY DEF Typed, Placed, JobStages
<1>2. Counted'
  BY DEF Typed, Counted, Restarts
<1>3. Placed'
  BY DEF Typed, Placed, Early, Ahead, Back, Copying
<1>4. Installed'
  BY DEF Typed, Placed, Installed, Matches, Or, Receipt, Unwritten, Desired, Early, Ahead, Back, Copying
<1>5. Ours'
  BY DEF Typed, Placed, Ours, Ahead, Back, Copying
<1>6. Guarded'
  BY DEF Typed, Guarded
<1> QED
  BY <1>1, <1>2, <1>3, <1>4, <1>5, <1>6

LEMMA ReviveStep == ASSUME SyncIInv, Revive PROVE SyncIInv'
<1> USE SyncAssumption DEF SyncIInv, Revive, Restarted, world, queue, plan, work, history, bounds
<1> DEFINE x == Lowest(todo)
<1>0. /\ x \in todo /\ x \in Targets
      /\ file[x] \in Copies /\ baseline[x] \in Copies
      /\ \A b \in BOOLEAN : [up |-> b, runs |-> file[x].val] \in Units
      /\ [service[x] EXCEPT !.up = FALSE] \in Units
      /\ gen \in Gens => /\ Desired(x) \in RenderedContents
                         /\ Receipt(x) \in Copies /\ Receipt(x).by = "sync"
                         /\ Receipt(x).val = Desired(x)
      /\ Unwritten(x) \in Copies /\ Unwritten(x).by = "undo"
      /\ Unwritten(x).val = baseline[x].val
  <2>1. todo # {}
    BY DEF Placed, Copying
  <2> QED
    BY <2>1, Held, Types
<1>1. Typed'
  BY <1>0 DEF Typed, Placed, JobStages
<1>2. Counted'
  BY DEF Typed, Counted, Restarts
<1>3. Placed'
  BY <1>0 DEF Typed, Placed, Early, Ahead, Back, Copying
<1>4. Installed'
  BY <1>0 DEF Typed, Placed, Installed, Matches, Or, Receipt, Unwritten, Desired, Early, Ahead, Back, Copying
<1>5. Ours'
  BY <1>0 DEF Typed, Placed, Ours, Ahead, Back, Copying
<1>6. Guarded'
  BY DEF Typed, Guarded
<1> QED
  BY <1>1, <1>2, <1>3, <1>4, <1>5, <1>6

LEMMA ReviveFailsStep == ASSUME SyncIInv, ReviveFails PROVE SyncIInv'
<1> USE SyncAssumption DEF SyncIInv, ReviveFails, Fault, world, queue, plan, work, history, bounds
<1> DEFINE x == Lowest(todo)
<1>0. /\ x \in todo /\ x \in Targets
      /\ file[x] \in Copies /\ baseline[x] \in Copies
      /\ \A b \in BOOLEAN : [up |-> b, runs |-> file[x].val] \in Units
      /\ [service[x] EXCEPT !.up = FALSE] \in Units
      /\ gen \in Gens => /\ Desired(x) \in RenderedContents
                         /\ Receipt(x) \in Copies /\ Receipt(x).by = "sync"
                         /\ Receipt(x).val = Desired(x)
      /\ Unwritten(x) \in Copies /\ Unwritten(x).by = "undo"
      /\ Unwritten(x).val = baseline[x].val
  <2>1. todo # {}
    BY DEF Placed, Copying
  <2> QED
    BY <2>1, Held, Types
<1>1. Typed'
  BY <1>0 DEF Typed, Placed, JobStages
<1>2. Counted'
  BY DEF Typed, Counted, Restarts
<1>3. Placed'
  BY <1>0 DEF Typed, Placed, Early, Ahead, Back, Copying
<1>4. Installed'
  BY <1>0 DEF Typed, Placed, Installed, Matches, Or, Receipt, Unwritten, Desired, Early, Ahead, Back, Copying
<1>5. Ours'
  BY <1>0 DEF Typed, Placed, Ours, Ahead, Back, Copying
<1>6. Guarded'
  BY DEF Typed, Guarded
<1> QED
  BY <1>1, <1>2, <1>3, <1>4, <1>5, <1>6

LEMMA PanelRestartStep == ASSUME SyncIInv, NEW hooked \in BOOLEAN, PanelRestart(hooked) PROVE SyncIInv'
<1> USE SyncAssumption DEF SyncIInv, PanelRestart, BySystemd, world, queue, plan, work, history, bounds
<1>1. Typed'
  <2>1. \A u \in Targets : [up |-> TRUE, runs |-> file[u].val] \in Units
    BY Types
  <2>2. service' \in [Targets -> Units]
    BY <2>1 DEF Typed
  <2>3. stirred' \subseteq Targets
    BY DEF Typed
  <2>4. panel' \in Panels
    BY DEF Typed, Panels
  <2>5. hooks' \in Nat
    BY FS_CardinalityType DEF Typed
  <2> QED
    BY <2>2, <2>3, <2>4, <2>5 DEF Typed, JobStages
<1>2. Counted'
  <2>1. panel.gen \in Nat /\ Restarts = panel.gen /\ Restarts' = panel.gen + 1
    BY DEF Typed, Panels, Restarts, Gens
  <2>2. Cardinality(Targets) \in Nat
    BY FS_CardinalityType
  <2>3. hooks' <= hooks + Cardinality(Targets)
    BY <2>2 DEF Typed
  <2>4. (panel.gen + 1) * Cardinality(Targets) = panel.gen * Cardinality(Targets) + Cardinality(Targets)
    BY <2>1, <2>2
  <2>5. panel.gen * Cardinality(Targets) \in Nat
    BY <2>1, <2>2
  <2>6. hooks' \in Nat /\ hooks' <= (panel.gen + 1) * Cardinality(Targets)
    BY <2>1, <2>2, <2>3, <2>4, <2>5 DEF Typed, Counted
  <2>7. panel.gen + 1 \in Gens
    BY <2>1 DEF Gens
  <2> QED
    BY <2>1, <2>6, <2>7 DEF Counted
<1>3. Placed'
  BY DEF Typed, Placed, Early, Ahead, Back, Copying
<1>4. Installed'
  BY DEF Typed, Placed, Installed, Matches, Or, Receipt, Unwritten, Desired, Early, Ahead, Back, Copying
<1>5. Ours'
  BY DEF Typed, Placed, Ours, Ahead, Back, Copying
<1>6. Guarded'
  BY DEF Typed, Guarded
<1> QED
  BY <1>1, <1>2, <1>3, <1>4, <1>5, <1>6

LEMMA PanelWritesStep == ASSUME SyncIInv, PanelWrites PROVE SyncIInv'
<1> USE SyncAssumption DEF SyncIInv, PanelWrites, world, queue, plan, work, history, bounds
<1>1. Typed'
  <2>1. panel' \in Panels
    BY DEF Typed, Panels, Counted, Restarts, Gens
  <2> QED
    BY <2>1 DEF Typed, Placed, JobStages
<1>2. Counted'
  <2>1. panel.gen \in Nat /\ Restarts' = Restarts
    BY DEF Typed, Panels, Restarts, Gens
  <2> QED
    BY <2>1 DEF Counted
<1>3. Placed'
  BY DEF Typed, Placed, Early, Ahead, Back, Copying
<1>4. Installed'
  BY DEF Typed, Placed, Installed, Matches, Or, Receipt, Unwritten, Desired, Early, Ahead, Back, Copying
<1>5. Ours'
  BY DEF Typed, Placed, Ours, Ahead, Back, Copying
<1>6. Guarded'
  BY DEF Typed, Guarded
<1> QED
  BY <1>1, <1>2, <1>3, <1>4, <1>5, <1>6

LEMMA PanelReadyStep == ASSUME SyncIInv, PanelReady PROVE SyncIInv'
<1> USE SyncAssumption DEF SyncIInv, PanelReady, world, queue, plan, work, history, bounds
<1>1. Typed'
  <2>1. panel' \in Panels
    BY DEF Typed, Panels, Counted, Restarts, Gens
  <2> QED
    BY <2>1 DEF Typed, Placed, JobStages
<1>2. Counted'
  BY DEF Typed, Counted, Restarts
<1>3. Placed'
  BY DEF Typed, Placed, Early, Ahead, Back, Copying
<1>4. Installed'
  BY DEF Typed, Placed, Installed, Matches, Or, Receipt, Unwritten, Desired, Early, Ahead, Back, Copying
<1>5. Ours'
  BY DEF Typed, Placed, Ours, Ahead, Back, Copying
<1>6. Guarded'
  BY DEF Typed, Guarded
<1> QED
  BY <1>1, <1>2, <1>3, <1>4, <1>5, <1>6

LEMMA ServiceFailsStep == ASSUME SyncIInv, NEW t \in Targets, ServiceFails(t) PROVE SyncIInv'
<1> USE SyncAssumption DEF SyncIInv, ServiceFails, BySystemd, Fault, world, queue, plan, work, history, bounds
<1>1. Typed'
  <2>1. \A u \in Targets : [up |-> TRUE, runs |-> file[u].val] \in Units
    BY Types
  <2>2. service' \in [Targets -> Units]
    BY <2>1 DEF Typed
  <2>3. stirred' \subseteq Targets
    BY DEF Typed
  <2> QED
    BY <2>2, <2>3 DEF Typed, JobStages
<1>2. Counted'
  BY DEF Typed, Counted, Restarts
<1>3. Placed'
  BY DEF Typed, Placed, Early, Ahead, Back, Copying
<1>4. Installed'
  BY DEF Typed, Placed, Installed, Matches, Or, Receipt, Unwritten, Desired, Early, Ahead, Back, Copying
<1>5. Ours'
  BY DEF Typed, Placed, Ours, Ahead, Back, Copying
<1>6. Guarded'
  BY DEF Typed, Guarded
<1> QED
  BY <1>1, <1>2, <1>3, <1>4, <1>5, <1>6

LEMMA EditStep == ASSUME SyncIInv, NEW t \in Targets, NEW v \in Foreign, Edit(t, v) PROVE SyncIInv'
<1> USE SyncAssumption DEF SyncIInv, Edit, world, queue, plan, work, history, bounds
<1>1. Typed'
  <2>1. [val |-> v, private |-> TRUE, by |-> "other"] \in Copies
    BY DEF Copies, Contents
  <2> QED
    BY <2>1 DEF Typed, JobStages
<1>2. Counted'
  BY DEF Typed, Counted, Restarts
<1>3. Placed'
  BY DEF Typed, Placed, Early, Ahead, Back, Copying
<1>4. Installed'
  BY DEF Typed, Placed, Installed, Matches, Or, Receipt, Unwritten, Desired, Early, Ahead, Back, Copying
<1>5. Ours'
  BY DEF Typed, Placed, Ours, Ahead, Back, Copying
<1>6. Guarded'
  BY DEF Typed, Guarded
<1> QED
  BY <1>1, <1>2, <1>3, <1>4, <1>5, <1>6

LEMMA EditStateStep == ASSUME SyncIInv, EditState PROVE SyncIInv'
<1> USE SyncAssumption DEF SyncIInv, EditState, world, queue, plan, work, history, bounds
<1>1. Typed'
  BY DEF Typed, Placed, JobStages
<1>2. Counted'
  BY DEF Typed, Counted, Restarts
<1>3. Placed'
  BY DEF Typed, Placed, Early, Ahead, Back, Copying
<1>4. Installed'
  BY DEF Typed, Placed, Installed, Matches, Or, Receipt, Unwritten, Desired, Early, Ahead, Back, Copying
<1>5. Ours'
  BY DEF Typed, Placed, Ours, Ahead, Back, Copying
<1>6. Guarded'
  BY DEF Typed, Guarded
<1> QED
  BY <1>1, <1>2, <1>3, <1>4, <1>5, <1>6

LEMMA EditPolicyStep == ASSUME SyncIInv, EditPolicy PROVE SyncIInv'
<1> USE SyncAssumption DEF SyncIInv, EditPolicy, world, queue, plan, work, history, bounds
<1>1. Typed'
  <2>1. panel' \in Panels
    BY DEF Typed, Panels, Counted, Restarts, Gens
  <2> QED
    BY <2>1 DEF Typed, Placed, JobStages
<1>2. Counted'
  BY DEF Typed, Counted, Restarts
<1>3. Placed'
  BY DEF Typed, Placed, Early, Ahead, Back, Copying
<1>4. Installed'
  BY DEF Typed, Placed, Installed, Matches, Or, Receipt, Unwritten, Desired, Early, Ahead, Back, Copying
<1>5. Ours'
  BY DEF Typed, Placed, Ours, Ahead, Back, Copying
<1>6. Guarded'
  BY DEF Typed, Guarded
<1> QED
  BY <1>1, <1>2, <1>3, <1>4, <1>5, <1>6

\* A job that leaves the lock when state.json and the copies agree again.
LEMMA LeaveStep ==
    ASSUME SyncIInv, Leave, Matches, UNCHANGED <<spoiled, bounds>>
    PROVE  SyncIInv'
<1> USE DEF SyncIInv, Leave, Enter, world, bounds
<1>1. Typed'
  BY SyncAssumption DEF Typed, JobStages
<1>2. Counted'
  BY DEF Typed, Counted, Restarts
<1>3. Placed'
  BY DEF Placed, Early, Ahead, Back, Copying
<1>4. Installed'
  BY DEF Installed, Matches, Early, Ahead, Back, Copying
<1>5. Ours'
  BY DEF Ours, Ahead, Back, Copying
<1>6. Guarded'
  BY DEF Typed, Guarded
<1> QED
  BY <1>1, <1>2, <1>3, <1>4, <1>5, <1>6

\* A job that turns to putting back what it has written.
LEMMA FailStep ==
    ASSUME SyncIInv, FailJob, stage \in Ahead \cup {"confirm"}, stage = "confirm" => saved.by # "sync",
           edits' = edits, faults' \in 0 .. MaxFaults
    PROVE  SyncIInv'
<1> USE DEF SyncIInv, FailJob, Enter, world, queue, plan, history
<1>1. Typed'
  BY DEF Typed, JobStages, Ahead, Copying
<1>2. Counted'
  BY DEF Typed, Counted, Restarts
<1>3. Placed'
  BY DEF Placed, Typed, Early, Ahead, Back, Copying
<1>4. Installed'
  BY DEF Typed, Placed, Installed, Or, Early, Ahead, Back, Copying
<1>5. Ours'
  <2>1. stage = "confirm" => saved.by = "other"
    BY DEF Typed, Installed
  <2> QED
    BY <2>1 DEF Typed, Ours, Ahead, Back, Copying
<1>6. Guarded'
  BY DEF Typed, Guarded
<1> QED
  BY <1>1, <1>2, <1>3, <1>4, <1>5, <1>6

LEMMA PrepareStep == ASSUME SyncIInv, Prepare PROVE SyncIInv'
<1> USE DEF SyncIInv, Prepare, Enter, world, queue, plan, work, bounds
<1>1. CASE LeaveFailed
  <2>1. Matches
    BY DEF Installed, Early
  <2> QED
    BY <1>1, <2>1, LeaveStep DEF LeaveFailed
<1>2. CASE Enter("settle") /\ UNCHANGED <<world, queue, plan, work, stirred, fresh, reported, moved>>
  <2>1. Typed'
    BY <1>2 DEF Typed, JobStages
  <2>2. Counted'
    BY <1>2 DEF Typed, Counted, Restarts
  <2>3. Placed'
    BY <1>2 DEF Placed, Early, Ahead, Back, Copying
  <2>4. Installed'
    BY <1>2 DEF Installed, Matches, Early, Ahead, Back, Copying
  <2>5. Ours'
    BY <1>2 DEF Ours, Ahead, Back, Copying
  <2>6. Guarded'
    BY <1>2 DEF Guarded
  <2> QED
    BY <2>1, <2>2, <2>3, <2>4, <2>5, <2>6
<1> QED
  BY <1>1, <1>2

LEMMA UnsettledStep == ASSUME SyncIInv, Unsettled PROVE SyncIInv'
<1>1. Matches
  BY DEF SyncIInv, Unsettled, Installed, Early
<1> QED
  BY <1>1, LeaveStep DEF Unsettled, LeaveFailed

LEMMA PlanStep == ASSUME SyncIInv, PlanCopies PROVE SyncIInv'
<1> USE DEF SyncIInv, PlanCopies, Enter, world, queue, plan, bounds
<1>0. Matches
  BY DEF Installed, Early
<1>1. CASE LeaveFailed
  BY <1>0, <1>1, LeaveStep DEF LeaveFailed
<1>2. CASE /\ Fenced /\ \A t \in Targets : Known(t) /\ Running(t)
           /\ baseline' = file /\ todo' = Writes
           /\ Enter("staged")
           /\ UNCHANGED <<world, queue, plan, receipts, touched, restored, stirred, fresh, reported,
                           moved>>
  <2>1. Typed'
    BY <1>2 DEF Typed, JobStages, Writes
  <2>2. Counted'
    BY <1>2 DEF Typed, Counted, Restarts
  <2>3. Placed'
    BY <1>2 DEF Placed, Early, Ahead, Back, Copying
  <2>4. Installed'
    BY <1>2 DEF Placed, Installed, Or, Writes, Desired, Early, Ahead, Back, Copying
  <2>5. Ours'
    <3> SUFFICES ASSUME saved.by # "other", NEW t \in Targets \ spoiled,
                        file[t].by # "other" \/ t \in Writes
                 PROVE  file[t].val = saved.hashes[t]
      BY <1>2 DEF Ours, Placed, Early
    <3>1. CASE file[t].by # "other"
      BY <3>1, <1>0 DEF Matches
    <3>2. CASE file[t].by = "other" /\ t \in Writes
      <4>1. file[t].val # Desired(t)
        BY <3>2 DEF Writes, Typed
      <4> QED
        BY <4>1, <1>2 DEF Known
    <3> QED
      BY <3>1, <3>2
  <2>6. Guarded'
    BY <1>2 DEF Guarded
  <2> QED
    BY <2>1, <2>2, <2>3, <2>4, <2>5, <2>6
<1> QED
  BY <1>1, <1>2

LEMMA RecheckStep == ASSUME SyncIInv, Recheck PROVE SyncIInv'
<1> USE DEF SyncIInv, Recheck, Enter, world, queue, plan, work, history, bounds
<1>1. CASE FailJob
  BY <1>1, FailStep DEF Ahead, Typed
<1>2. CASE /\ Enter(IF todo = {} THEN "restart" ELSE "check")
           /\ UNCHANGED <<world, queue, plan, work, history>>
  <2>1. Typed'
    BY <1>2 DEF Typed, JobStages
  <2>2. Counted'
    BY <1>2 DEF Typed, Counted, Restarts
  <2>3. Placed'
    BY <1>2 DEF Placed, Early, Ahead, Back, Copying
  <2>4. Installed'
    BY <1>2 DEF Placed, Installed, Or, Receipt, Desired, Early, Ahead, Back, Copying
  <2>5. Ours'
    BY <1>2 DEF Ours, Ahead, Back, Copying
  <2>6. Guarded'
    BY <1>2 DEF Guarded
  <2> QED
    BY <2>1, <2>2, <2>3, <2>4, <2>5, <2>6
<1> QED
  BY <1>1, <1>2

LEMMA CheckStep == ASSUME SyncIInv, Check PROVE SyncIInv'
<1> USE DEF SyncIInv, Check, Enter, world, queue, plan, work, history, bounds
<1>1. CASE FailJob
  BY <1>1, FailStep DEF Ahead, Copying, Typed
<1>2. CASE Enter("write") /\ UNCHANGED <<world, queue, plan, work, history>>
  <2>1. Typed'
    BY <1>2 DEF Typed, JobStages
  <2>2. Counted'
    BY <1>2 DEF Typed, Counted, Restarts
  <2>3. Placed'
    BY <1>2 DEF Placed, Early, Ahead, Back, Copying
  <2>4. Installed'
    BY <1>2 DEF Placed, Installed, Or, Receipt, Desired, Early, Ahead, Back, Copying
  <2>5. Ours'
    BY <1>2 DEF Ours, Ahead, Back, Copying
  <2>6. Guarded'
    BY <1>2 DEF Guarded
  <2> QED
    BY <2>1, <2>2, <2>3, <2>4, <2>5, <2>6
<1> QED
  BY <1>1, <1>2

LEMMA ReadbackStep == ASSUME SyncIInv, Readback PROVE SyncIInv'
<1> USE DEF SyncIInv, Readback, Enter, world, queue, plan, history, bounds
<1> DEFINE t == Lowest(todo) rest == todo \ {t}
<1>1. CASE FailJob
  BY <1>1, FailStep DEF Ahead, Copying, Typed
<1>2. CASE /\ todo' = IF rest = {} THEN ChangedContent ELSE rest
           /\ Enter(IF rest = {} THEN "restart" ELSE "check")
           /\ UNCHANGED <<world, queue, plan, baseline, receipts, touched, restored, history>>
  <2>0. /\ t \in todo /\ t \in receipts
        /\ ChangedContent \subseteq receipts /\ receipts \subseteq Targets
    <3>1. todo # {}
      BY DEF Placed, Copying
    <3> QED
      BY <3>1, Held DEF Placed, ChangedContent, Typed
  <2> HIDE DEF t
  <2>1. Typed'
    BY <1>2, <2>0 DEF Typed, JobStages
  <2>2. Counted'
    BY <1>2 DEF Typed, Counted, Restarts
  <2>3. Placed'
    BY <1>2, <2>0 DEF Placed, Early, Ahead, Back, Copying
  <2>4. Installed'
    BY <1>2, <2>0 DEF Placed, Installed, Or, Receipt, Desired, Early, Ahead, Back, Copying
  <2>5. Ours'
    BY <1>2, <2>0 DEF Ours, Ahead, Back, Copying
  <2>6. Guarded'
    BY <1>2 DEF Guarded
  <2> QED
    BY <2>1, <2>2, <2>3, <2>4, <2>5, <2>6
<1> QED
  BY <1>1, <1>2

LEMMA FinalStep == ASSUME SyncIInv, Final PROVE SyncIInv'
<1> USE DEF SyncIInv, Final, Enter, world, queue, plan, work, history, bounds
<1>1. CASE FailJob
  BY <1>1, FailStep DEF Ahead, Typed
<1>2. CASE Enter("commit") /\ UNCHANGED <<world, queue, plan, work, history>>
  <2>1. Typed'
    BY <1>2 DEF Typed, JobStages
  <2>2. Counted'
    BY <1>2 DEF Typed, Counted, Restarts
  <2>3. Placed'
    BY <1>2 DEF Placed, Early, Ahead, Back, Copying
  <2>4. Installed'
    BY <1>2 DEF Placed, Installed, Or, Receipt, Desired, Early, Ahead, Back, Copying
  <2>5. Ours'
    BY <1>2 DEF Ours, Ahead, Back, Copying
  <2>6. Guarded'
    BY <1>2 DEF Guarded
  <2> QED
    BY <2>1, <2>2, <2>3, <2>4, <2>5, <2>6
<1> QED
  BY <1>1, <1>2

LEMMA CommandFailsStep == ASSUME SyncIInv, CommandFails PROVE SyncIInv'
<1>1. stage \in Ahead /\ faults' \in 0 .. MaxFaults /\ edits' = edits
  BY SyncAssumption DEF SyncIInv, CommandFails, Fault, Ahead, Typed
<1> QED
  BY <1>1, FailStep DEF CommandFails, Ahead, Copying

LEMMA CommitStep == ASSUME SyncIInv, CommitState PROVE SyncIInv'
<1> USE DEF SyncIInv, CommitState, Enter, world, queue, plan, work, history, bounds
<1>1. CASE FailJob
  BY <1>1, FailStep DEF Ahead, Typed
<1>2. CASE Fenced /\ Enter("save") /\ UNCHANGED <<world, queue, plan, work, history>>
  <2>1. Typed'
    BY <1>2 DEF Typed, JobStages
  <2>2. Counted'
    BY <1>2 DEF Typed, Counted, Restarts
  <2>3. Placed'
    BY <1>2 DEF Placed, Early, Ahead, Back, Copying
  <2>4. Installed'
    BY <1>2 DEF Placed, Installed, Or, Receipt, Desired, Early, Ahead, Back, Copying
  <2>5. Ours'
    BY <1>2 DEF Ours, Ahead, Back, Copying
  <2>6. Guarded'
    BY <1>2 DEF Guarded, Fenced
  <2> QED
    BY <2>1, <2>2, <2>3, <2>4, <2>5, <2>6
<1> QED
  BY <1>1, <1>2

LEMMA RecordType ==
    ASSUME Typed, gen \in Gens, NEW by \in {"sync", "other"}
    PROVE  [Record EXCEPT !.by = by] \in
              [gen : Gens, hashes : [Targets -> RenderedContents], by : {"start", "sync", "other"}]
<1>1. \A t \in Targets : Desired(t) \in RenderedContents
  BY Types
<1> QED
  BY <1>1 DEF Record

LEMMA SaveStep == ASSUME SyncIInv, SaveState PROVE SyncIInv'
<1> USE DEF SyncIInv, SaveState, Record, Enter, queue, plan, work, history, bounds
<1>1. Typed'
  <2>1. \A t \in Targets : Desired(t) \in RenderedContents
    BY Types DEF Placed
  <2>2. saved' \in [gen : Gens, hashes : [Targets -> RenderedContents], by : {"start", "sync", "other"}]
    BY <2>1 DEF Placed
  <2> QED
    BY <2>2 DEF Typed, JobStages
<1>2. Counted'
  BY DEF Typed, Counted, Restarts
<1>3. Placed'
  BY DEF Placed, Early, Ahead, Back, Copying
<1>4. Installed'
  BY DEF Placed, Installed, Or, Receipt, Desired, Early, Ahead, Back, Copying
<1>5. Ours'
  BY DEF Ours, Ahead, Back, Copying
<1>6. Guarded'
  BY DEF Guarded
<1> QED
  BY <1>1, <1>2, <1>3, <1>4, <1>5, <1>6

LEMMA SaveTornStep == ASSUME SyncIInv, SaveTorn PROVE SyncIInv'
<1> USE SyncAssumption DEF SyncIInv, SaveTorn, Fault, Enter, queue, plan, history
<1>1. Typed'
  <2>1. saved' \in [gen : Gens, hashes : [Targets -> RenderedContents], by : {"start", "sync", "other"}]
    BY RecordType DEF Placed
  <2> QED
    BY <2>1 DEF Typed, JobStages
<1>2. Counted'
  BY DEF Typed, Counted, Restarts
<1>3. Placed'
  BY DEF Placed, Typed, Early, Ahead, Back, Copying
<1>4. Installed'
  BY DEF Typed, Placed, Installed, Or, Receipt, Desired, Early, Ahead, Back, Copying
<1>5. Ours'
  BY DEF Ours, Record, Ahead, Back, Copying
<1>6. Guarded'
  BY DEF Guarded
<1> QED
  BY <1>1, <1>2, <1>3, <1>4, <1>5, <1>6

\* What a job leaves that has gone through.
LEMMA Through ==
    ASSUME SyncIInv, stage = "confirm", NEW t \in Targets, file[t].by # "other"
    PROVE  file[t].val = saved.hashes[t]
<1>1. saved.hashes[t] = Desired(t)
  BY DEF SyncIInv, Installed
<1>2. CASE t \in receipts
  <2>1. file[t] = Receipt(t)
    BY <1>2 DEF SyncIInv, Installed, Or, Ahead
  <2> QED
    BY <1>1, <2>1 DEF Receipt
<1>3. CASE t \notin receipts
  BY <1>1, <1>3 DEF SyncIInv, Installed, Or
<1> QED
  BY <1>2, <1>3

LEMMA ConfirmStep == ASSUME SyncIInv, ConfirmState PROVE SyncIInv'
<1>1. CASE saved.by = "sync" /\ Leave /\ UNCHANGED <<spoiled, bounds>>
  <2>1. Matches
    BY Through DEF Matches, ConfirmState
  <2> QED
    BY <1>1, <2>1, LeaveStep
<1>2. CASE saved.by # "sync" /\ FailJob /\ UNCHANGED <<spoiled, bounds>>
  BY <1>2, FailStep DEF SyncIInv, Typed, ConfirmState, bounds
<1> QED
  BY <1>1, <1>2 DEF ConfirmState, bounds

\* What a job leaves that has put back its copies.
LEMMA PutBack ==
    ASSUME SyncIInv, stage = "revive", NEW t \in Targets \ spoiled, file[t].by # "other"
    PROVE  IF t \in receipts THEN t \in restored /\ file[t] = Unwritten(t)
           ELSE file[t] = baseline[t]
  BY DEF SyncIInv, Placed, Installed, Or, Back

LEMMA FailedStep == ASSUME SyncIInv, Failed PROVE SyncIInv'
<1>1. Matches
  <2> SUFFICES ASSUME saved.by # "other", NEW t \in Targets \ spoiled, file[t].by # "other"
               PROVE  file[t].val = saved.hashes[t]
    BY DEF Matches
  <2>1. file[t].val = baseline[t].val
    BY PutBack, Types DEF Failed, SyncIInv
  <2>2. baseline[t].by # "other" \/ t \in receipts
    BY PutBack DEF Failed
  <2> QED
    BY <2>1, <2>2 DEF SyncIInv, Ours, Failed, Back
<1> QED
  BY <1>1, LeaveStep DEF Failed, LeaveFailed

LEMMA SyncInitIInv == SyncInit => SyncIInv
<1> SUFFICES ASSUME SyncInit PROVE SyncIInv
  OBVIOUS
<1> USE SyncAssumption DEF SyncInit
<1>1. 0 \in Gens /\ 0 \in 0 .. MaxEdits /\ 0 \in 0 .. MaxFaults /\ 0 \in 0 .. MaxTries
  BY DEF Gens
<1>2. \A t \in Targets : Rendered[t][0] \in RenderedContents /\ Rendered[t][0] \in Contents
  BY <1>1 DEF RenderedContents, Contents
<1>3. file \in [Targets -> Copies] /\ service \in [Targets -> Units] /\ panel \in Panels
  BY <1>1, <1>2 DEF Copies, Units, Panels
<1>4. saved \in [gen : Gens, hashes : [Targets -> RenderedContents], by : {"start", "sync", "other"}]
  BY <1>1, <1>2
<1>5. \A t \in Targets : file[t].by = "start"
  OBVIOUS
<1>6. Typed
  BY <1>1, <1>3, <1>4, <1>5 DEF Typed, JobStages
<1>7. Counted
  BY <1>1, FS_CardinalityType DEF Counted, Restarts
<1>8. Placed
  BY DEF Placed, Early, Back, Copying
<1>9. Installed
  BY DEF Installed, Matches, Early, Ahead, Back, Copying
<1>10. Ours
  BY DEF Ours, Ahead, Back, Copying
<1>11. Guarded
  BY DEF Guarded
<1> QED
  BY <1>6, <1>7, <1>8, <1>9, <1>10, <1>11 DEF SyncIInv

LEMMA NextStep == ASSUME SyncIInv, [SyncNext]_syncVars PROVE SyncIInv'
<1>1. CASE UNCHANGED syncVars
  <2> USE <1>1 DEF syncVars, world, queue, plan, work, history, bounds
  <2>1. Typed' /\ Counted'
    BY DEF SyncIInv, Typed, Counted, Restarts
  <2>2. Placed' /\ Ours'
    BY DEF SyncIInv, Placed, Ours
  <2>3. Installed'
    BY DEF SyncIInv, Installed, Matches, Or, Receipt, Unwritten, Desired
  <2>4. Guarded'
    BY DEF SyncIInv, Guarded
  <2> QED
    BY <2>1, <2>2, <2>3, <2>4 DEF SyncIInv
<1>2. CASE Job
  BY <1>2, AcquireStep, PrepareStep, SettleStep, UnsettledStep, PlanStep, RecheckStep, CheckStep,
     CopyStep, ReadbackStep, RestartStep, FinalStep, CommitStep, SaveStep, ConfirmStep, UndoCheckStep,
     UnwriteStep, UnreadStep, UndoneStep, ReviveStep, FailedStep
     DEF Job
<1>3. CASE Faults
  BY <1>3, BusyStep, CommandFailsStep, SaveTornStep, WriteTornStep, RestartFailsStep, UnwriteFailsStep,
     ReviveFailsStep, ServiceFailsStep DEF Faults
<1>4. CASE Panel
  BY <1>4, PanelWritesStep, PanelReadyStep DEF Panel
<1>5. CASE Others
  BY <1>5, PanelRestartStep, EditStep, EditStateStep, EditPolicyStep DEF Others
<1> QED
  BY <1>1, <1>2, <1>3, <1>4, <1>5 DEF SyncNext

LEMMA Invariant == SyncSpec => []SyncIInv
  BY SyncInitIInv, NextStep, PTL DEF SyncSpec

-----------------------------------------------------------------------------
(* The services *)

LEMMA AcquireRuns == ASSUME SyncIInv, Services, NEW j \in Targets \cup {Hook}, TakeLock(j) PROVE Services'
  BY DEF TakeLock, Enter, world, queue, plan, work, history, bounds, SyncIInv, Typed, Placed,
     Services, Settled, InForce, Runs, ChangedContent, Desired, Early, Ahead, Back, Copying

LEMMA BusyRuns == ASSUME SyncIInv, Services, NEW j \in Targets \cup {Hook}, Busy(j) PROVE Services'
  BY DEF Busy, world, queue, plan, work, history, bounds, SyncIInv, Typed, Placed,
     Services, Settled, InForce, Runs, ChangedContent, Desired, Early, Ahead, Back, Copying

LEMMA SettleRuns == ASSUME SyncIInv, Services, Settle PROVE Services'
  BY DEF Settle, Enter, world, queue, plan, work, history, bounds, SyncIInv, Typed, Placed,
     Services, Settled, InForce, Runs, ChangedContent, Desired, Early, Ahead, Back, Copying

LEMMA WriteRuns == ASSUME SyncIInv, Services, Write PROVE Services'
<1> DEFINE x == Lowest(todo)
<1>1. x \in todo /\ x \in Targets
  <2>1. todo # {}
    BY DEF SyncIInv, Placed, Copying, Write
  <2> QED
    BY <2>1, Held DEF SyncIInv
<1> QED
  BY <1>1 DEF Write, Enter, world, queue, plan, work, history, bounds, SyncIInv, Typed, Placed,
     Services, Settled, InForce, Runs, ChangedContent, Desired, Early, Ahead, Back, Copying

LEMMA WriteTornRuns == ASSUME SyncIInv, Services, WriteTorn PROVE Services'
<1> DEFINE x == Lowest(todo)
<1>1. x \in todo /\ x \in Targets
  <2>1. todo # {}
    BY DEF SyncIInv, Placed, Copying, WriteTorn
  <2> QED
    BY <2>1, Held DEF SyncIInv
<1> QED
  BY <1>1 DEF WriteTorn, Enter, world, queue, plan, work, history, bounds, SyncIInv, Typed, Placed,
     Services, Settled, InForce, Runs, ChangedContent, Desired, Early, Ahead, Back, Copying

LEMMA RestartRuns == ASSUME SyncIInv, Services, Restart PROVE Services'
<1> DEFINE x == Lowest(todo)
<1>1. x \in todo /\ x \in Targets
  <2>1. todo # {}
    BY DEF SyncIInv, Placed, Copying, Restart
  <2> QED
    BY <2>1, Held DEF SyncIInv
<1> QED
  BY <1>1 DEF Restart, Restarted, world, queue, plan, work, history, bounds, SyncIInv, Typed, Placed,
     Services, Settled, InForce, Runs, ChangedContent, Desired, Early, Ahead, Back, Copying

LEMMA RestartFailsRuns == ASSUME SyncIInv, Services, RestartFails PROVE Services'
<1> DEFINE x == Lowest(todo)
<1>1. x \in todo /\ x \in Targets
  <2>1. todo # {}
    BY DEF SyncIInv, Placed, Copying, RestartFails
  <2> QED
    BY <2>1, Held DEF SyncIInv
<1> QED
  BY <1>1 DEF RestartFails, Restarted, Enter, world, queue, plan, work, history, bounds, SyncIInv, Typed, Placed,
     Services, Settled, InForce, Runs, ChangedContent, Desired, Early, Ahead, Back, Copying

LEMMA UndoCheckRuns == ASSUME SyncIInv, Services, UndoCheck PROVE Services'
<1> DEFINE x == Highest(todo)
<1>1. x \in todo /\ x \in Targets
  <2>1. todo # {}
    BY DEF SyncIInv, Placed, Copying, UndoCheck
  <2> QED
    BY <2>1, Held DEF SyncIInv
<1> QED
  BY <1>1 DEF UndoCheck, Enter, world, queue, plan, work, history, bounds, SyncIInv, Typed, Placed,
     Services, Settled, InForce, Runs, ChangedContent, Desired, Early, Ahead, Back, Copying

LEMMA UnwriteRuns == ASSUME SyncIInv, Services, Unwrite PROVE Services'
<1> DEFINE x == Highest(todo)
<1>1. x \in todo /\ x \in Targets
  <2>1. todo # {}
    BY DEF SyncIInv, Placed, Copying, Unwrite
  <2> QED
    BY <2>1, Held DEF SyncIInv
<1> QED
  BY <1>1 DEF Unwrite, Enter, world, queue, plan, work, history, bounds, SyncIInv, Typed, Placed,
     Services, Settled, InForce, Runs, ChangedContent, Desired, Early, Ahead, Back, Copying

LEMMA UnwriteFailsRuns == ASSUME SyncIInv, Services, UnwriteFails PROVE Services'
<1> DEFINE x == Highest(todo)
<1>1. x \in todo /\ x \in Targets
  <2>1. todo # {}
    BY DEF SyncIInv, Placed, Copying, UnwriteFails
  <2> QED
    BY <2>1, Held DEF SyncIInv
<1> QED
  BY <1>1 DEF UnwriteFails, Enter, world, queue, plan, work, history, bounds, SyncIInv, Typed, Placed,
     Services, Settled, InForce, Runs, ChangedContent, Desired, Early, Ahead, Back, Copying

LEMMA UnreadRuns == ASSUME SyncIInv, Services, Unread PROVE Services'
<1> DEFINE x == Highest(todo)
<1>1. x \in todo /\ x \in Targets
  <2>1. todo # {}
    BY DEF SyncIInv, Placed, Copying, Unread
  <2> QED
    BY <2>1, Held DEF SyncIInv
<1> QED
  BY <1>1 DEF Unread, Enter, world, queue, plan, work, history, bounds, SyncIInv, Typed, Placed,
     Services, Settled, InForce, Runs, ChangedContent, Desired, Early, Ahead, Back, Copying

LEMMA UndoneRuns == ASSUME SyncIInv, Services, Undone PROVE Services'
  BY DEF Undone, Owed, Enter, world, queue, plan, work, history, bounds, SyncIInv, Typed, Placed,
     Services, Settled, InForce, Runs, ChangedContent, Desired, Early, Ahead, Back, Copying

LEMMA ReviveRuns == ASSUME SyncIInv, Services, Revive PROVE Services'
<1> DEFINE x == Lowest(todo)
<1>1. x \in todo /\ x \in Targets
  <2>1. todo # {}
    BY DEF SyncIInv, Placed, Copying, Revive
  <2> QED
    BY <2>1, Held DEF SyncIInv
<1> QED
  BY <1>1 DEF Revive, Restarted, world, queue, plan, work, history, bounds, SyncIInv, Typed, Placed,
     Services, Settled, InForce, Runs, ChangedContent, Desired, Early, Ahead, Back, Copying

LEMMA ReviveFailsRuns == ASSUME SyncIInv, Services, ReviveFails PROVE Services'
<1> DEFINE x == Lowest(todo)
<1>1. x \in todo /\ x \in Targets
  <2>1. todo # {}
    BY DEF SyncIInv, Placed, Copying, ReviveFails
  <2> QED
    BY <2>1, Held DEF SyncIInv
<1> QED
  BY <1>1 DEF ReviveFails, world, queue, plan, work, history, bounds, SyncIInv, Typed, Placed,
     Services, Settled, InForce, Runs, ChangedContent, Desired, Early, Ahead, Back, Copying

LEMMA PanelRestartRuns == ASSUME SyncIInv, Services, NEW hooked \in BOOLEAN, PanelRestart(hooked) PROVE Services'
  BY DEF PanelRestart, BySystemd, world, queue, plan, work, history, bounds, SyncIInv, Typed, Placed,
     Services, Settled, InForce, Runs, ChangedContent, Desired, Early, Ahead, Back, Copying

LEMMA PanelWritesRuns == ASSUME SyncIInv, Services, PanelWrites PROVE Services'
  BY DEF PanelWrites, world, queue, plan, work, history, bounds, SyncIInv, Typed, Placed,
     Services, Settled, InForce, Runs, ChangedContent, Desired, Early, Ahead, Back, Copying

LEMMA PanelReadyRuns == ASSUME SyncIInv, Services, PanelReady PROVE Services'
  BY DEF PanelReady, world, queue, plan, work, history, bounds, SyncIInv, Typed, Placed,
     Services, Settled, InForce, Runs, ChangedContent, Desired, Early, Ahead, Back, Copying

LEMMA ServiceFailsRuns == ASSUME SyncIInv, Services, NEW t \in Targets, ServiceFails(t) PROVE Services'
  BY DEF ServiceFails, BySystemd, world, queue, plan, work, history, bounds, SyncIInv, Typed, Placed,
     Services, Settled, InForce, Runs, ChangedContent, Desired, Early, Ahead, Back, Copying

LEMMA EditRuns == ASSUME SyncIInv, Services, NEW t \in Targets, NEW v \in Foreign, Edit(t, v) PROVE Services'
  BY DEF Edit, world, queue, plan, work, history, bounds, SyncIInv, Typed, Placed,
     Services, Settled, InForce, Runs, ChangedContent, Desired, Early, Ahead, Back, Copying

LEMMA EditStateRuns == ASSUME SyncIInv, Services, EditState PROVE Services'
  BY DEF EditState, world, queue, plan, work, history, bounds, SyncIInv, Typed, Placed,
     Services, Settled, InForce, Runs, ChangedContent, Desired, Early, Ahead, Back, Copying

LEMMA EditPolicyRuns == ASSUME SyncIInv, Services, EditPolicy PROVE Services'
  BY DEF EditPolicy, world, queue, plan, work, history, bounds, SyncIInv, Typed, Placed,
     Services, Settled, InForce, Runs, ChangedContent, Desired, Early, Ahead, Back, Copying

LEMMA LeaveRuns ==
    ASSUME Leave, UNCHANGED spoiled, \A t \in Settled : InForce(t)
    PROVE  Services'
  BY DEF Leave, Enter, world, Services, Settled, InForce, Runs, Early

\* While a job puts copies back, a service it has not restarted is what counts.
LEMMA FailRuns ==
    ASSUME SyncIInv, Services, FailJob, stage \in Ahead \cup {"confirm"}
    PROVE  Services'
  BY DEF FailJob, Enter, world, queue, plan, history, Services, Settled, Runs, Early, Ahead, Back, Copying

LEMMA PrepareRuns == ASSUME SyncIInv, Services, Prepare PROVE Services'
<1>1. CASE LeaveFailed
  <2>1. \A t \in Settled : InForce(t)
    BY DEF Prepare, Services, Early
  <2> QED
    BY <1>1, <2>1, LeaveRuns DEF Prepare, LeaveFailed
<1>2. CASE Enter("settle") /\ UNCHANGED <<world, queue, plan, work, stirred, fresh, reported, moved>>
  BY <1>2 DEF Prepare, Enter, world, work, Services, Settled, InForce, Runs, Early
<1> QED
  BY <1>1, <1>2 DEF Prepare

LEMMA UnsettledRuns == ASSUME SyncIInv, Services, Unsettled PROVE Services'
<1>1. \A t \in Settled : InForce(t)
  BY DEF Unsettled, Services, Early
<1> QED
  BY <1>1, LeaveRuns DEF Unsettled, LeaveFailed

\* The copies that somebody else has written are not known, and the plan is given up.
LEMMA PlanRuns ==
    ASSUME SyncIInv, Services, PlanCopies, Foreign \cap RenderedContents = {}
    PROVE  Services'
<1>0. \A t \in Settled : InForce(t)
  BY DEF PlanCopies, Services, Early
<1>1. CASE LeaveFailed
  BY <1>0, <1>1, LeaveRuns DEF PlanCopies, LeaveFailed
<1>2. CASE /\ Fenced /\ \A t \in Targets : Known(t) /\ Running(t)
           /\ baseline' = file /\ todo' = Writes
           /\ Enter("staged")
           /\ UNCHANGED <<world, queue, plan, receipts, touched, restored, stirred, fresh, reported,
                           moved>>
  <2>1. ASSUME NEW t \in Targets PROVE file[t].by # "other"
    <3>1. saved.hashes[t] \in RenderedContents /\ Desired(t) \in RenderedContents
      BY Types DEF SyncIInv, Typed, Placed, PlanCopies
    <3>2. file[t].val \in RenderedContents
      BY <1>2, <3>1 DEF Known
    <3> QED
      BY <3>2 DEF SyncIInv, Typed
  <2> QED
    BY <1>0, <1>2, <2>1 DEF PlanCopies, Enter, world, Services, Settled, InForce, Runs, Early
<1> QED
  BY <1>1, <1>2 DEF PlanCopies

LEMMA RecheckRuns == ASSUME SyncIInv, Services, Recheck PROVE Services'
<1> USE DEF Recheck, Enter, world, work, history, SyncIInv
<1>1. CASE FailJob
  BY <1>1, FailRuns DEF Ahead
<1>2. CASE /\ Enter(IF todo = {} THEN "restart" ELSE "check")
           /\ UNCHANGED <<world, queue, plan, work, history>>
  BY <1>2 DEF Placed, Services, Settled, InForce, Runs, ChangedContent, Early, Copying
<1> QED
  BY <1>1, <1>2

LEMMA CheckRuns == ASSUME SyncIInv, Services, Check PROVE Services'
<1> USE DEF Check, Enter, world, work, history
<1>1. CASE FailJob
  BY <1>1, FailRuns DEF Ahead, Copying
<1>2. CASE Enter("write") /\ UNCHANGED <<world, queue, plan, work, history>>
  BY <1>2 DEF Services, Settled, InForce, Runs, Early
<1> QED
  BY <1>1, <1>2

LEMMA ReadbackRuns == ASSUME SyncIInv, Services, Readback PROVE Services'
<1> USE DEF Readback, Enter, world, plan, history
<1> DEFINE rest == todo \ {Lowest(todo)}
<1>1. CASE FailJob
  BY <1>1, FailRuns DEF Ahead, Copying
<1>2. CASE /\ todo' = IF rest = {} THEN ChangedContent ELSE rest
           /\ Enter(IF rest = {} THEN "restart" ELSE "check")
           /\ UNCHANGED <<world, queue, plan, baseline, receipts, touched, restored, history>>
  BY <1>2 DEF SyncIInv, Placed, Services, Settled, InForce, Runs, ChangedContent, Desired, Early, Copying
<1> QED
  BY <1>1, <1>2

LEMMA FinalRuns == ASSUME SyncIInv, Services, Final PROVE Services'
<1> USE DEF Final, Enter, world, plan, work, history
<1>1. CASE FailJob
  BY <1>1, FailRuns DEF Ahead
<1>2. CASE Enter("commit") /\ UNCHANGED <<world, queue, plan, work, history>>
  BY <1>2 DEF Services, Settled, InForce, Runs, ChangedContent, Desired, Early
<1> QED
  BY <1>1, <1>2

LEMMA CommitRuns == ASSUME SyncIInv, Services, CommitState PROVE Services'
<1> USE DEF CommitState, Enter, world, plan, work, history
<1>1. CASE FailJob
  BY <1>1, FailRuns DEF Ahead
<1>2. CASE Enter("save") /\ UNCHANGED <<world, queue, plan, work, history>>
  BY <1>2 DEF Services, Settled, InForce, Runs, ChangedContent, Desired, Early
<1> QED
  BY <1>1, <1>2

LEMMA SaveRuns == ASSUME SyncIInv, Services, SaveState PROVE Services'
  BY DEF SaveState, Enter, plan, work, history, Services, Settled, InForce, Runs, ChangedContent,
     Desired, Early

LEMMA SaveTornRuns == ASSUME SyncIInv, Services, SaveTorn PROVE Services'
  BY DEF SaveTorn, Enter, plan, history, Services, Settled, Runs, Early, Ahead, Back, Copying

\* When a job has gone through its loops, every service runs what is in its file.
LEMMA AllRun ==
    ASSUME SyncIInv, Services, stage \in {"commit", "save", "confirm"}, NEW t \in Settled
    PROVE  InForce(t)
<1>1. t \in Targets /\ stage \in Ahead \cup {"confirm"} /\ stage \notin Early /\ todo = {}
  BY DEF Settled, Ahead, Early, SyncIInv, Placed
<1>2. CASE t \in touched
  BY <1>2 DEF Services
<1>3. CASE t \notin touched /\ t \in receipts
  <2>1. baseline[t].val = Desired(t)
    BY <1>1, <1>3 DEF Services, ChangedContent
  <2>2. Runs(t, baseline[t].val)
    BY <1>1, <1>3 DEF Services
  <2>3. Or(t, Receipt(t))
    BY <1>1, <1>3 DEF SyncIInv, Installed
  <2> QED
    BY <2>1, <2>2, <2>3 DEF Or, Receipt, InForce
<1>4. CASE t \notin touched /\ t \notin receipts
  <2>1. Runs(t, baseline[t].val)
    BY <1>1, <1>4 DEF Services
  <2>2. Or(t, baseline[t])
    BY <1>1, <1>4 DEF SyncIInv, Installed
  <2> QED
    BY <2>1, <2>2 DEF Or, InForce
<1> QED
  BY <1>2, <1>3, <1>4

LEMMA ConfirmRuns == ASSUME SyncIInv, Services, ConfirmState PROVE Services'
<1>1. CASE saved.by = "sync" /\ Leave /\ UNCHANGED spoiled
  <2>1. \A t \in Settled : InForce(t)
    BY AllRun DEF ConfirmState
  <2> QED
    BY <1>1, <2>1, LeaveRuns
<1>2. CASE FailJob
  BY <1>2, FailRuns DEF ConfirmState
<1> QED
  BY <1>1, <1>2 DEF ConfirmState

LEMMA FailedRuns == ASSUME SyncIInv, Services, Failed PROVE Services'
<1>1. ASSUME NEW t \in Settled, file[t].by # "other" PROVE Runs(t, file[t].val)
  <2>1. t \in Targets \ spoiled /\ stage = "revive" /\ todo = {} /\ stage \notin Early
    BY DEF Settled, Failed, Early
  <2>2. file[t].val = baseline[t].val
    BY <1>1, <2>1, PutBack, Types DEF SyncIInv
  <2>3. CASE t \in touched
    <3>1. t \in restored
      BY <1>1, <2>1, <2>3, PutBack DEF SyncIInv, Typed
    <3> QED
      BY <1>1, <2>1, <2>3, <3>1 DEF Services, InForce
  <2>4. CASE t \notin touched
    BY <1>1, <2>1, <2>2, <2>4 DEF Services
  <2> QED
    BY <2>3, <2>4
<1>2. \A t \in Settled : InForce(t)
  BY <1>1 DEF InForce
<1> QED
  BY <1>2, LeaveRuns DEF Failed, LeaveFailed

LEMMA InitRuns == SyncInit => Services
  BY DEF SyncInit, Services, Settled, InForce, Runs, Early

LEMMA NextRuns ==
    ASSUME SyncIInv, Services, [SyncNext]_syncVars, Foreign \cap RenderedContents = {}
    PROVE  Services'
<1>1. CASE UNCHANGED syncVars
  BY <1>1 DEF syncVars, world, plan, work, history, Services, Settled, InForce, Runs, ChangedContent, Desired
<1>2. CASE Job
  BY <1>2, AcquireRuns, PrepareRuns, SettleRuns, UnsettledRuns, PlanRuns, RecheckRuns, CheckRuns,
     WriteRuns, ReadbackRuns, RestartRuns, FinalRuns, CommitRuns, SaveRuns, ConfirmRuns, UndoCheckRuns,
     UnwriteRuns, UnreadRuns, UndoneRuns, ReviveRuns, FailedRuns
     DEF Job
<1>3. CASE Faults
  <2>1. CASE CommandFails
    BY <2>1, FailRuns DEF CommandFails, Ahead
  <2> QED
    BY <1>3, <2>1, BusyRuns, SaveTornRuns, WriteTornRuns, RestartFailsRuns, UnwriteFailsRuns, ReviveFailsRuns,
       ServiceFailsRuns DEF Faults
<1>4. CASE Panel
  BY <1>4, PanelWritesRuns, PanelReadyRuns DEF Panel
<1>5. CASE Others
  BY <1>5, PanelRestartRuns, EditRuns, EditStateRuns, EditPolicyRuns DEF Others
<1> QED
  BY <1>1, <1>2, <1>3, <1>4, <1>5 DEF SyncNext

LEMMA ServicesInvariant ==
    ASSUME Foreign \cap RenderedContents = {}
    PROVE  SyncSpec => []Services
  BY Invariant, InitRuns, NextRuns, PTL DEF SyncSpec

-----------------------------------------------------------------------------

(***************************************************************************)
(* The types of NaiveSync, for any targets, restarts, writes of others and *)
(* faults; in particular no reload starts more jobs than it has targets.   *)
(***************************************************************************)
THEOREM SyncTypes == SyncSpec => []SyncTypeOK
<1>1. SyncIInv => SyncTypeOK
  BY CountFact DEF SyncIInv
<1> QED
  BY Invariant, <1>1, PTL

(***************************************************************************)
(* synchronize_managed_naive goes through or puts back what it has         *)
(* written: between two jobs state.json has the digest of every copy that  *)
(* nobody else wrote and that no failed job gave up.                       *)
(***************************************************************************)
THEOREM StateAndFilesAgree == SyncSpec => []StateMatchesFiles
<1>1. SyncIInv => StateMatchesFiles
  BY DEF SyncIInv, Typed, Installed, Matches, StateMatchesFiles, Early
<1> QED
  BY Invariant, <1>1, PTL

(***************************************************************************)
(* And the services run what is in their files, as long as others do not   *)
(* put into a copy what the panel renders.  A job takes a copy with such   *)
(* contents for its own; when it then fails and puts them back, the        *)
(* service still runs what it ran before they were written.                *)
(***************************************************************************)
THEOREM SyncInvariant ==
    ASSUME Foreign \cap RenderedContents = {}
    PROVE  SyncSpec => []Inv
<1>1. Services /\ Typed => ServicesRunFiles
  BY DEF Services, Typed, Settled, InForce, Runs, ServicesRunFiles, Early
<1>2. SyncIInv => Typed
  BY DEF SyncIInv
<1> QED
  BY Invariant, ServicesInvariant, SyncTypes, StateAndFilesAgree, <1>1, <1>2, PTL DEF Inv

(***************************************************************************)
(* save_state records a generation only when its copies are in place and   *)
(* the services run them; and when it is the one of the panel and replaces *)
(* the state.json the job has read, unless one of the two was written in   *)
(* the moment between the fence and save_state.                            *)
(***************************************************************************)
THEOREM RecordsRunning ==
    ASSUME Foreign \cap RenderedContents = {}
    PROVE  SyncSpec => RecordsWhatRuns
<1>1. ASSUME SyncIInv, Services, [SyncNext]_syncVars, saved'.by = "sync", saved' # saved
      PROVE  /\ moved \/ (panel.gen = saved'.gen /\ saved = sealed)
             /\ \A t \in Targets : file[t].by # "other" =>
                   /\ file[t].val = saved'.hashes[t]
                   /\ service[t].up /\ t \notin spoiled \cup stirred => service[t].runs = file[t].val
  <2>1. SaveState
    <3>1. Leave => saved' = saved
      BY DEF Leave, world
    <3>2. FailJob => saved' = saved
      BY DEF FailJob, world
    <3>3. Job => SaveState \/ saved' = saved
      BY <3>1, <3>2 DEF Job, world, TakeLock, LeaveFailed, Prepare, Settle, Unsettled, PlanCopies, Recheck, Check,
         Write, Readback, Restart, Final, CommitState, ConfirmState, UndoCheck, Unwrite, Unread, Undone, Revive, Failed
    <3>4. Faults => saved' = saved \/ saved'.by = "other"
      <4>1. SaveTorn => saved'.by = "other"
        BY DEF SaveTorn, Record
      <4> QED
        BY <3>2, <4>1 DEF Faults, world, Busy, CommandFails, WriteTorn, RestartFails, UnwriteFails,
           ReviveFails, ServiceFails
    <3>5. Panel => saved' = saved
      BY DEF Panel, PanelWrites, PanelReady
    <3>6. Others => saved' = saved \/ saved'.by = "other"
      <4>1. EditState => saved'.by = "other"
        BY <1>1 DEF EditState, SyncIInv, Typed
      <4> QED
        BY <4>1 DEF Others, PanelRestart, Edit, EditPolicy
    <3> QED
      BY <1>1, <3>3, <3>4, <3>5, <3>6 DEF SyncNext, syncVars, world
  <2>2. /\ stage = "save" /\ saved'.gen = gen
        /\ \A t \in Targets : saved'.hashes[t] = Desired(t)
    BY <2>1 DEF SaveState, Record
  <2>5. moved \/ (panel.gen = gen /\ saved = sealed)
    BY <1>1, <2>2 DEF SyncIInv, Guarded
  <2>3. ASSUME NEW t \in Targets, file[t].by # "other" PROVE file[t].val = Desired(t)
    <3>1. CASE t \in receipts
      <4>1. file[t] = Receipt(t)
        BY <1>1, <2>2, <2>3, <3>1 DEF SyncIInv, Installed, Or, Ahead
      <4> QED
        BY <4>1 DEF Receipt
    <3>2. CASE t \notin receipts
      BY <1>1, <2>2, <2>3, <3>2 DEF SyncIInv, Installed, Or, Ahead
    <3> QED
      BY <3>1, <3>2
  <2>4. ASSUME NEW t \in Settled PROVE InForce(t)
    BY <1>1, <2>2, <2>4, AllRun
  <2> QED
    BY <2>2, <2>3, <2>4, <2>5 DEF Settled, InForce, Runs
<1>2. SyncIInv /\ Services /\ [SyncNext]_syncVars =>
        [saved'.by = "sync" /\ saved' # saved =>
            /\ moved \/ (panel.gen = saved'.gen /\ saved = sealed)
            /\ \A t \in Targets : file[t].by # "other" =>
                  /\ file[t].val = saved'.hashes[t]
                  /\ service[t].up /\ t \notin spoiled \cup stirred => service[t].runs = file[t].val]_syncVars
  BY <1>1
<1> QED
  BY Invariant, ServicesInvariant, <1>2, PTL DEF SyncSpec, RecordsWhatRuns

=============================================================================
