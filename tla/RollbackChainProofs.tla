------------------------- MODULE RollbackChainProofs -------------------------
(***************************************************************************)
(* Proofs about RollbackChain for any files, fields, plans and orders of   *)
(* the entries, any number of edits and any number of interrupted          *)
(* rollbacks.                                                              *)
(*                                                                         *)
(* A rollback goes back over several runs, so the invariant is about every *)
(* link of the chain: what a run found (its frame) is what state.json, as  *)
(* its backup holds it, says of the run below (Consistent), but for paths  *)
(* that others have touched in between.  It never changes once the run has *)
(* started.  For the top of the chain the same holds of what is there now. *)
(***************************************************************************)
EXTENDS RollbackChain, WellFoundedInduction, TLAPS

\* Where run s.run has neither a copy nor a receipt, what it found is still there.
Explains(s, cur, E) ==
    s.run # 0 =>
      \A x \in Paths \ E :
        \/ x \in DOMAIN backups[s.run].files
        \/ x \in DOMAIN s.receipts /\ s.receipts[x].old = frames[s.run].now[x]
        \/ x \notin DOMAIN s.receipts /\ cur[x] = frames[s.run].now[x]

Holds(r, cur, E) == \A c \in DOMAIN r \ E : cur[c] = r[c].new

Hashed(s, cur, E) == \A f \in DOMAIN s.hashes \ E : cur[f] = s.hashes[f]

\* The paths that nobody has touched are as s, a state.json, has left them.
Consistent(s, cur, E) ==
    /\ Explains(s, cur, E)
    /\ Holds(s.receipts, cur, E)
    /\ faults = 0 => Hashed(s, cur, E)

Receipts(r) == DOMAIN r \subseteq Cells /\ \A c \in DOMAIN r : r[c].old \in Contents

Shape(s) == s.run \in Nat /\ DOMAIN s.hashes \subseteq Files /\ Receipts(s.receipts)

FrameSet == [now : [Paths -> Contents], edited : SUBSET Paths]

Backup(k) ==
    /\ Shape(backups[k].state) /\ backups[k].state.run < k /\ backups[k].state.run <= runs
    /\ DOMAIN backups[k].files \subseteq Files
    /\ \A f \in DOMAIN backups[k].files : backups[k].files[f] = frames[k].now[f]
    /\ Consistent(backups[k].state, frames[k].now, frames[k].edited)

Links == DOMAIN backups = Runs /\ frames \in [Runs -> FrameSet] /\ \A k \in Runs : Backup(k)

Resting == stage = "idle" => todo = {} /\ receipts = <<>> /\ Consistent(state, now, edited)

\* While a run is at work it can still be undone by its receipts.
Working ==
    Applying =>
      /\ todo = {} /\ runs \in Runs /\ backups[runs].state = state
      /\ DOMAIN backups[runs].files = DOMAIN Plans[runs].writes \cup doomed
      /\ stage = "publish" => receipts = <<>>
      /\ Receipts(receipts) /\ Holds(receipts, now, edited)
      /\ \A x \in Paths \ edited :
           (IF x \in DOMAIN receipts THEN receipts[x].old ELSE now[x]) = frames[runs].now[x]

\* A rollback will give back what the run found.
Undoing ==
    stage \in {"restore", "services"} =>
      /\ undoing \in 1 .. runs
      /\ todo \subseteq DOMAIN backups[undoing].files \cup {StateFile}
      /\ stage = "services" => todo = {} /\ receipts = <<>>
      /\ Receipts(receipts) /\ Holds(receipts, now, edited)
      /\ since \subseteq edited /\ frames[undoing].edited \subseteq edited
      /\ IF StateFile \in todo THEN state.run = undoing /\ state.receipts = receipts
                               ELSE state = backups[undoing].state
      /\ \A x \in Paths \ since : Due[x] = frames[undoing].now[x]

IInv == TypeOK /\ Shape(state) /\ Links /\ Resting /\ Working /\ Undoing

-----------------------------------------------------------------------------
(* What does not change *)

LEMMA None == DOMAIN <<>> = {}
OBVIOUS

LEMMA NoStateIs == NoState.run = 0 /\ DOMAIN NoState.hashes = {} /\ DOMAIN NoState.receipts = {}
BY None DEF NoState

\* Only what has been touched since has to be looked at again.
LEMMA ConsistentKeep ==
    ASSUME NEW s, NEW cur, NEW E, Consistent(s, cur, E),
           UNCHANGED <<backups, frames>>, faults' = 0 => faults = 0
    PROVE  /\ s.run # 0 =>
                \A x \in Paths \ E :
                  \/ x \in DOMAIN backups'[s.run].files
                  \/ x \in DOMAIN s.receipts /\ s.receipts[x].old = frames'[s.run].now[x]
                  \/ x \notin DOMAIN s.receipts /\ cur[x] = frames'[s.run].now[x]
           /\ Holds(s.receipts, cur, E)
           /\ faults' = 0 => Hashed(s, cur, E)
BY DEF Consistent, Explains

LEMMA LinksKeep ==
    ASSUME Links, UNCHANGED <<backups, frames, runs>>, faults' = 0 => faults = 0
    PROVE  Links'
<1>1. ASSUME NEW k \in Runs PROVE Backup(k)'
  <2>1. Backup(k)
    BY DEF Links
  <2> QED
    BY <2>1, ConsistentKeep DEF Backup, Consistent, Explains, Holds, Hashed
<1> QED
  BY <1>1 DEF Links

LEMMA RestingKeep ==
    ASSUME Resting, UNCHANGED <<state, now, edited, stage, todo, receipts, backups, frames>>,
           faults' = 0 => faults = 0
    PROVE  Resting'
BY ConsistentKeep DEF Resting, Consistent, Explains, Holds, Hashed

-----------------------------------------------------------------------------
(* The beginning, and a run *)

LEMMA InitIInv == Init => IInv
<1> SUFFICES ASSUME Init PROVE IInv
  OBVIOUS
<1>1. DOMAIN receipts = {} /\ DOMAIN NoBackup.files = {} /\ NoBackup.state = NoState
  BY None DEF Init, NoBackup
<1>2. Shape(NoState)
  BY NoStateIs DEF Shape, Receipts
<1>3. \A cur, E : Consistent(NoState, cur, E)
  BY NoStateIs DEF Consistent, Explains, Holds, Hashed
<1>4. Nothing \in [Paths -> Contents] /\ now \in [Paths -> Contents]
  BY ConstantsAssumption DEF Nothing, Contents, Init
<1>5. Links
  <2>1. DOMAIN backups = Runs /\ \A k \in Runs : backups[k] = NoBackup
    BY DEF Init
  <2>2. frames \in [Runs -> FrameSet]
    BY <1>4 DEF Init, FrameSet
  <2>3. ASSUME NEW k \in Runs PROVE Backup(k)
    <3>1. k > 0 /\ NoState.run = 0 /\ runs = 0
      BY NoStateIs DEF Runs, Init
    <3> QED
      BY <1>1, <1>2, <1>3, <2>1, <3>1 DEF Backup
  <2> QED
    BY <2>1, <2>2, <2>3 DEF Links
<1>6. TypeOK
  <2>1. state.run = 0 /\ DOMAIN state.hashes = {}
    BY NoStateIs DEF Init
  <2>2. \A k \in Runs : backups[k].state.run < k
    BY <1>5 DEF Links, Backup
  <2>3. 0 \in 0 .. Len(Plans) /\ 0 \in 0 .. MaxEdits /\ 0 \in 0 .. MaxFaults /\ 0 \in 0 .. 0
    BY ConstantsAssumption
  <2> QED
    BY <1>1, <1>4, <2>1, <2>2, <2>3 DEF TypeOK, Init, Stages
<1>7. Resting /\ Working /\ Undoing
  BY <1>3 DEF Init, Resting, Working, Applying, Undoing
<1> QED
  BY <1>2, <1>5, <1>6, <1>7 DEF IInv, Init

LEMMA StartStep == ASSUME IInv, Start PROVE IInv'
<1> DEFINE k == runs + 1
<1>1. /\ k \in Runs /\ runs' = k /\ runs \in Nat /\ stage = "idle" /\ stage' = "publish"
      /\ backups' = [backups EXCEPT ![k] = [files |-> [f \in Targets(k) |-> now[f]], state |-> state]]
      /\ frames' = [frames EXCEPT ![k] = [now |-> now, edited |-> edited]]
      /\ doomed' = Removable(k) /\ edited' = {} /\ receipts' = <<>>
      /\ UNCHANGED <<now, state, undoing, todo, forced, outcome, since, stranded, edits, faults>>
  BY ConstantsAssumption DEF Start, IInv, TypeOK, Runs, bounds
<1>2. Targets(k) \subseteq Files
  BY <1>1, ConstantsAssumption DEF Targets, Removable, IInv, Shape
<1>3. Links'
  <2>1. frames' \in [Runs -> FrameSet] /\ DOMAIN backups' = Runs
    <3>1. [now |-> now, edited |-> edited] \in FrameSet
      BY DEF FrameSet, IInv, TypeOK
    <3> QED
      BY <1>1, <3>1 DEF IInv, Links
  <2>2. \A j \in Runs : j # k => backups'[j] = backups[j] /\ frames'[j] = frames[j]
    BY <1>1 DEF IInv, Links
  <2>3. /\ backups'[k] = [files |-> [f \in Targets(k) |-> now[f]], state |-> state]
        /\ frames'[k] = [now |-> now, edited |-> edited]
    BY <1>1 DEF IInv, Links
  <2>4. ASSUME NEW j \in Runs, NEW s, NEW cur, NEW E, Consistent(s, cur, E), s.run \in 0 .. runs
        PROVE  /\ s.run # 0 =>
                    \A x \in Paths \ E :
                      \/ x \in DOMAIN backups'[s.run].files
                      \/ x \in DOMAIN s.receipts /\ s.receipts[x].old = frames'[s.run].now[x]
                      \/ x \notin DOMAIN s.receipts /\ cur[x] = frames'[s.run].now[x]
               /\ Holds(s.receipts, cur, E)
               /\ faults' = 0 => Hashed(s, cur, E)
    <3>1. s.run # 0 => s.run \in Runs /\ s.run # k
      BY <1>1, <2>4 DEF Runs
    <3> QED
      BY <1>1, <2>2, <2>4, <3>1 DEF Consistent, Explains
  <2>5. ASSUME NEW j \in Runs PROVE Backup(j)'
    <3>1. CASE j = k
      <4>1. Consistent(state, now, edited) /\ state.run \in 0 .. runs /\ Shape(state)
        BY <1>1 DEF IInv, Resting, TypeOK
      <4>2. Consistent(backups[j].state, frames[j].now, frames[j].edited)'
        BY <1>1, <2>3, <2>4, <3>1, <4>1 DEF Consistent, Explains, Holds, Hashed
      <4> QED
        BY <1>1, <1>2, <2>3, <3>1, <4>1, <4>2 DEF Backup, Shape, Receipts
    <3>2. CASE j # k
      <4>1. Backup(j) /\ backups'[j] = backups[j] /\ frames'[j] = frames[j]
        BY <2>2, <3>2 DEF IInv, Links
      <4>2. backups[j].state.run \in 0 .. runs /\ backups[j].state.run <= runs'
        BY <1>1, <4>1 DEF Backup, Shape
      <4> DEFINE s == backups[j].state
                 cur == frames[j].now
                 E == frames[j].edited
      <4>3. Consistent(s, cur, E) /\ s.run \in 0 .. runs
        BY <4>1, <4>2 DEF Backup
      <4>4. s = backups'[j].state /\ cur = frames'[j].now /\ E = frames'[j].edited
        BY <4>1
      <4> HIDE DEF s, cur, E
      <4>5. /\ s.run # 0 =>
                  \A x \in Paths \ E :
                    \/ x \in DOMAIN backups'[s.run].files
                    \/ x \in DOMAIN s.receipts /\ s.receipts[x].old = frames'[s.run].now[x]
                    \/ x \notin DOMAIN s.receipts /\ cur[x] = frames'[s.run].now[x]
            /\ Holds(s.receipts, cur, E)
            /\ faults' = 0 => Hashed(s, cur, E)
        BY <2>4, <4>3
      <4>6. Consistent(backups[j].state, frames[j].now, frames[j].edited)'
        BY <4>4, <4>5 DEF Consistent, Explains, Holds, Hashed
      <4> QED
        BY <4>1, <4>2, <4>6 DEF Backup, Shape, Receipts
    <3> QED
      BY <3>1, <3>2
  <2> QED
    BY <2>1, <2>5 DEF Links
<1>4. TypeOK'
  <2>1. \A j \in Runs : backups'[j].state.run < j
    BY <1>3 DEF Links, Backup
  <2>2. DOMAIN receipts' = {} /\ state'.run \in 0 .. runs' /\ runs' \in 0 .. Len(Plans) /\ undoing' \in 0 .. runs'
    BY <1>1, None DEF IInv, TypeOK, Runs
  <2>3. doomed' \subseteq Files
    BY <1>1, <1>2 DEF Targets
  <2> QED
    BY <1>1, <2>1, <2>2, <2>3 DEF IInv, TypeOK, Stages
<1>5. Working'
  <2>1. backups'[k] = [files |-> [f \in Targets(k) |-> now[f]], state |-> state] /\ frames'[k].now = now
    BY <1>1 DEF IInv, Links
  <2>2. DOMAIN backups'[k].files = DOMAIN Plans[k].writes \cup doomed' /\ backups'[k].state = state
    BY <1>1, <2>1 DEF Targets
  <2>3. todo = {} /\ DOMAIN receipts' = {}
    BY <1>1, None DEF IInv, Resting
  <2>4. Receipts(receipts)' /\ Holds(receipts, now, edited)'
    BY <2>3 DEF Receipts, Holds
  <2>5. \A x \in Paths : (IF x \in DOMAIN receipts' THEN receipts'[x].old ELSE now'[x]) = frames'[k].now[x]
    BY <1>1, <2>1, <2>3
  <2> QED
    BY <1>1, <2>2, <2>3, <2>4, <2>5 DEF Working
<1>6. Resting' /\ Undoing' /\ Shape(state)'
  BY <1>1 DEF Resting, Undoing, IInv, Shape, Receipts
<1> QED
  BY <1>3, <1>4, <1>5, <1>6 DEF IInv

\* The fields of a plan are fields, its files are files.
LEMMA PlanParts ==
    ASSUME NEW k \in Runs
    PROVE  /\ DOMAIN Plans[k].writes \subseteq Files /\ DOMAIN Plans[k].sets \subseteq Cells
           /\ \A f \in DOMAIN Plans[k].writes : Plans[k].writes[f] \in Contents /\ f \notin Cells
           /\ \A c \in DOMAIN Plans[k].sets : Plans[k].sets[c] \in Contents
BY ConstantsAssumption DEF Contents

LEMMA PublishStep == ASSUME IInv, Publish PROVE IInv'
<1> DEFINE sets == Plans[runs].sets
           changed == {c \in DOMAIN sets : now[c] # sets[c]}
<1>1. /\ stage = "publish" /\ stage' = "deploy"
      /\ receipts' = [c \in changed |-> [old |-> now[c], new |-> sets[c]]]
      /\ now' = [x \in Paths |-> IF x \in changed THEN sets[x] ELSE now[x]]
      /\ UNCHANGED <<state, backups, runs, doomed, undoing, todo, forced, outcome, frames, edited, since,
                     stranded, edits, faults>>
  BY DEF Publish, apply, rollback, history, bounds
<1>2. /\ todo = {} /\ runs \in Runs /\ backups[runs].state = state /\ receipts = <<>>
      /\ DOMAIN backups[runs].files = DOMAIN Plans[runs].writes \cup doomed
      /\ \A x \in Paths \ edited : now[x] = frames[runs].now[x]
  <2>1. DOMAIN receipts = {} /\ Applying
    BY <1>1, None DEF IInv, Working, Applying
  <2> QED
    BY <1>1, <2>1 DEF IInv, Working
<1>3. changed \subseteq Cells /\ changed \subseteq Paths /\ now \in [Paths -> Contents]
  BY <1>2, PlanParts DEF IInv, TypeOK, Paths
<1>4. now' \in [Paths -> Contents]
  BY <1>1, <1>2, <1>3, PlanParts
<1>5. Links'
  BY <1>1, LinksKeep DEF IInv
<1>6. TypeOK'
  BY <1>1, <1>3, <1>4 DEF IInv, TypeOK, Stages
<1>7. Working'
  <2>1. DOMAIN receipts' = changed /\ \A c \in changed : receipts'[c].old = now[c] /\ receipts'[c].new = sets[c]
    BY <1>1
  <2>2. \A c \in changed : now'[c] = sets[c] /\ now[c] \in Contents
    BY <1>1, <1>3
  <2>3. \A x \in Paths \ changed : now'[x] = now[x]
    BY <1>1
  <2> HIDE DEF changed
  <2>4. Receipts(receipts)' /\ Holds(receipts, now, edited)'
    BY <1>3, <2>1, <2>2 DEF Receipts, Holds
  <2>5. \A x \in Paths \ edited' :
          (IF x \in DOMAIN receipts' THEN receipts'[x].old ELSE now'[x]) = frames'[runs'].now[x]
    BY <1>1, <1>2, <2>1, <2>3
  <2> QED
    BY <1>1, <1>2, <2>4, <2>5 DEF Working
<1>8. Resting' /\ Undoing' /\ Shape(state)'
  BY <1>1 DEF Resting, Undoing, IInv, Shape, Receipts
<1> QED
  BY <1>5, <1>6, <1>7, <1>8 DEF IInv

LEMMA DeployStep == ASSUME IInv, Deploy PROVE IInv'
<1> DEFINE writes == Plans[runs].writes
           W == Written(runs)
<1>1. /\ stage = "deploy" /\ stage' = "idle" /\ receipts' = <<>>
      /\ now' = [x \in Paths |-> IF x \in W THEN writes[x] ELSE IF x \in doomed THEN Absent ELSE now[x]]
      /\ state' = [run |-> runs, receipts |-> receipts, hashes |-> [f \in W |-> writes[f]]]
      /\ UNCHANGED <<backups, runs, doomed, undoing, todo, forced, outcome, frames, edited, since,
                     stranded, edits, faults>>
  BY DEF Deploy, apply, rollback, history, bounds
<1>2. /\ todo = {} /\ runs \in Runs /\ Receipts(receipts) /\ Holds(receipts, now, edited)
      /\ DOMAIN backups[runs].files = DOMAIN Plans[runs].writes \cup doomed
      /\ \A x \in Paths \ edited :
           (IF x \in DOMAIN receipts THEN receipts[x].old ELSE now[x]) = frames[runs].now[x]
  BY <1>1 DEF IInv, Working, Applying
<1>3. /\ W \subseteq DOMAIN backups[runs].files /\ doomed \subseteq DOMAIN backups[runs].files
      /\ DOMAIN backups[runs].files \subseteq Files /\ W \subseteq DOMAIN writes
  BY <1>2 DEF Written, IInv, Links, Backup
<1> HIDE DEF W
<1>4. now' \in [Paths -> Contents]
  <2>1. Absent \in Contents /\ \A f \in W : writes[f] \in Contents
    BY <1>2, <1>3, PlanParts DEF Contents
  <2> QED
    BY <1>1, <2>1 DEF IInv, TypeOK
<1>5. Links'
  BY <1>1, LinksKeep DEF IInv
<1>6. state'.run = runs /\ state'.receipts = receipts /\ DOMAIN state'.hashes = W
      /\ \A f \in W : state'.hashes[f] = writes[f]
  BY <1>1
<1>7. TypeOK' /\ Shape(state)'
  <2>1. DOMAIN receipts' = {} /\ runs \in Nat /\ runs \in 0 .. runs
    BY <1>1, <1>2, None DEF Runs
  <2> QED
    BY <1>1, <1>2, <1>3, <1>4, <1>6, <2>1 DEF IInv, TypeOK, Stages, Shape, Links, Backup
<1>8. Resting'
  <2>1. \A x \in Paths \ DOMAIN backups[runs].files : now'[x] = now[x]
    BY <1>1, <1>3
  <2>2. \A c \in DOMAIN receipts : c \in Paths \ DOMAIN backups[runs].files
    BY <1>2, <1>3, ConstantsAssumption DEF Receipts, Paths
  <2>3. Explains(state, now, edited)'
    BY <1>1, <1>2, <1>6, <2>1, <2>2 DEF Explains
  <2>4. Holds(state.receipts, now, edited)'
    BY <1>1, <1>2, <1>6, <2>1, <2>2 DEF Holds
  <2>5. Hashed(state, now, edited)'
    <3>1. \A f \in W : f \in Paths /\ now'[f] = writes[f]
      BY <1>1, <1>3 DEF Paths
    <3> QED
      BY <1>6, <3>1 DEF Hashed
  <2> QED
    BY <1>1, <1>2, <2>3, <2>4, <2>5 DEF Resting, Consistent
<1>9. Working' /\ Undoing'
  BY <1>1 DEF Working, Applying, Undoing
<1> QED
  BY <1>5, <1>7, <1>8, <1>9 DEF IInv

\* What agrees with the frame of run k, but for what has been touched, agrees with
\* what the run found in its backup.
LEMMA Back ==
    ASSUME Links, NEW k \in Runs, NEW cur, NEW E,
           \A x \in Paths \ E : cur[x] = frames[k].now[x], frames[k].edited \subseteq E
    PROVE  Consistent(backups[k].state, cur, E)
<1> DEFINE s == backups[k].state
<1>1. Consistent(s, frames[k].now, frames[k].edited) /\ Shape(s)
  BY DEF Links, Backup
<1>2. \A x \in Paths \ E : x \notin frames[k].edited /\ cur[x] = frames[k].now[x]
  OBVIOUS
<1>3. DOMAIN s.receipts \subseteq Paths /\ DOMAIN s.hashes \subseteq Paths
  BY <1>1 DEF Shape, Receipts, Paths
<1> HIDE DEF s
<1>4. Explains(s, cur, E)
  BY <1>1, <1>2 DEF Consistent, Explains
<1>5. Holds(s.receipts, cur, E) /\ (faults = 0 => Hashed(s, cur, E))
  BY <1>1, <1>2, <1>3 DEF Consistent, Holds, Hashed
<1> QED
  BY <1>4, <1>5 DEF Consistent, s

LEMMA AbortStep == ASSUME IInv, Abort PROVE IInv'
<1> DEFINE lost == IF Matching THEN {} ELSE Ours
<1>1. /\ Applying /\ stage' = "idle" /\ receipts' = <<>>
      /\ now' = IF Matching THEN Unpublished ELSE now
      /\ stranded' = stranded \cup lost /\ edited' = edited \cup frames[runs].edited \cup lost
      /\ UNCHANGED <<state, backups, runs, doomed, undoing, todo, forced, outcome, frames, since,
                     edits, faults>>
  BY DEF Abort, Strand, Applying, apply, rollback, bounds
<1>2. /\ todo = {} /\ runs \in Runs /\ Receipts(receipts) /\ Holds(receipts, now, edited)
      /\ backups[runs].state = state
      /\ \A x \in Paths \ edited :
           (IF x \in DOMAIN receipts THEN receipts[x].old ELSE now[x]) = frames[runs].now[x]
  BY <1>1 DEF IInv, Working
<1>3. lost \subseteq Paths /\ frames[runs].edited \subseteq Paths
  BY <1>2 DEF Ours, Receipts, Paths, IInv, Links, FrameSet
<1>4. now' \in [Paths -> Contents]
  BY <1>1, <1>2 DEF Unpublished, Receipts, IInv, TypeOK
<1>5. Links'
  BY <1>1, LinksKeep DEF IInv
<1>6. TypeOK' /\ Shape(state)'
  <2>1. DOMAIN receipts' = {}
    BY <1>1, None
  <2> QED
    BY <1>1, <1>2, <1>3, <1>4, <2>1 DEF IInv, TypeOK, Stages, Shape, Receipts
<1>7. \A x \in Paths \ edited' : now'[x] = frames[runs].now[x]
  <2>1. CASE Matching
    BY <1>1, <1>2, <2>1 DEF Unpublished
  <2>2. CASE ~Matching
    <3>1. \A x \in Paths \ edited' : x \notin edited /\ x \notin Ours
      BY <1>1, <2>2
    <3>2. \A x \in Paths \ edited' : x \notin DOMAIN receipts
      BY <1>2, <3>1 DEF Holds, Ours
    <3> QED
      BY <1>1, <1>2, <2>2, <3>1, <3>2
  <2> QED
    BY <2>1, <2>2
<1>8. Consistent(state, now, edited)'
  <2>1. frames[runs].edited \subseteq edited'
    BY <1>1
  <2>2. Consistent(state, now', edited')
    BY <1>2, <1>7, <2>1, Back DEF IInv
  <2> QED
    BY <1>1, <2>2, ConsistentKeep DEF Consistent, Explains, Holds, Hashed
<1>9. Resting' /\ Working' /\ Undoing'
  BY <1>1, <1>2, <1>8 DEF Resting, Working, Applying, Undoing
<1> QED
  BY <1>5, <1>6, <1>9 DEF IInv

-----------------------------------------------------------------------------
(* A rollback *)

LEMMA BeginStep == ASSUME IInv, NEW force, force \in BOOLEAN, Begin(force) PROVE IInv'
<1> DEFINE k == state.run
<1>1. /\ stage = "idle" /\ k # 0 /\ undoing' = k /\ stage' = "restore" /\ outcome' = "none" /\ forced' = force
      /\ todo' = DOMAIN backups[k].files \cup {StateFile}
      /\ receipts' = state.receipts /\ since' = edited /\ edited' = edited \cup frames[k].edited
      /\ UNCHANGED <<now, state, backups, runs, doomed, frames, stranded, edits, faults>>
  BY DEF Begin, disk, apply, bounds
<1>2. k \in 1 .. runs /\ k \in Runs /\ runs \in Nat
  BY <1>1 DEF IInv, TypeOK, Shape, Runs
<1>3. /\ Backup(k) /\ frames[k] \in FrameSet
      /\ Receipts(state.receipts) /\ Consistent(state, now, edited)
  BY <1>1, <1>2 DEF IInv, Links, Resting, Shape
<1>4. Links'
  BY <1>1, LinksKeep DEF IInv
<1>5. TypeOK' /\ Shape(state)'
  <2>1. undoing' \in 0 .. runs' /\ frames[k].edited \subseteq Paths /\ todo' \subseteq Files \cup {StateFile}
    BY <1>1, <1>2, <1>3 DEF Backup, FrameSet
  <2> QED
    BY <1>1, <1>3, <2>1 DEF IInv, TypeOK, Stages, Shape, Receipts
<1>6. \A x \in Paths \ since' : Due'[x] = frames'[undoing'].now[x]
  <2>1. SUFFICES ASSUME NEW x \in Paths, x \notin edited
                 PROVE  Due'[x] = frames[k].now[x]
    BY <1>1
  <2>2. StateFile \notin Paths /\ (x \in DOMAIN state.receipts => x \notin Files)
    BY <1>3, ConstantsAssumption DEF Receipts
  <2>3. Due'[x] = IF x \in DOMAIN backups[k].files THEN backups[k].files[x]
                  ELSE IF x \in DOMAIN state.receipts THEN state.receipts[x].old ELSE now[x]
    BY <1>1, <2>1, <2>2 DEF Due
  <2>4. CASE x \in DOMAIN backups[k].files
    BY <1>3, <2>3, <2>4 DEF Backup
  <2>5. CASE x \notin DOMAIN backups[k].files
    BY <1>1, <1>3, <2>1, <2>3, <2>5 DEF Consistent, Explains
  <2> QED
    BY <2>4, <2>5
<1>7. Undoing'
  <2>1. Holds(receipts, now, edited)'
    BY <1>1, <1>3 DEF Consistent, Holds
  <2>2. Receipts(receipts)'
    BY <1>1, <1>3 DEF Receipts
  <2> QED
    BY <1>1, <1>2, <1>6, <2>1, <2>2 DEF Undoing
<1>8. Resting' /\ Working'
  BY <1>1 DEF Resting, Working, Applying
<1> QED
  BY <1>4, <1>5, <1>7, <1>8 DEF IInv

\* The same of what is restored, whatever is left to do.
LEMMA UndoingFacts ==
    ASSUME IInv, stage \in {"restore", "services"}
    PROVE  /\ undoing \in 1 .. runs /\ undoing \in Runs /\ Backup(undoing)
           /\ todo \subseteq DOMAIN backups[undoing].files \cup {StateFile}
           /\ todo \subseteq Files \cup {StateFile}
           /\ Receipts(receipts) /\ Holds(receipts, now, edited)
           /\ since \subseteq edited /\ frames[undoing].edited \subseteq edited
           /\ StateFile \in todo => state.run = undoing /\ state.receipts = receipts
           /\ StateFile \notin todo => state = backups[undoing].state
           /\ \A x \in Paths \ since : Due[x] = frames[undoing].now[x]
<1>1. undoing \in 1 .. runs /\ runs \in 0 .. Len(Plans) /\ Len(Plans) \in Nat
  BY ConstantsAssumption DEF IInv, Undoing, TypeOK
<1>2. undoing \in Runs
  BY <1>1 DEF Runs
<1> QED
  BY <1>1, <1>2 DEF IInv, Undoing, Links, TypeOK

LEMMA RestoreStep == ASSUME IInv, NEW y \in Files \cup {StateFile}, Restore(y) PROVE IInv'
<1>1. /\ stage = "restore" /\ y \in todo /\ todo' = todo \ {y}
      /\ y = StateFile => state' = backups[undoing].state /\ now' = now
      /\ y # StateFile => now' = [now EXCEPT ![y] = backups[undoing].files[y]] /\ state' = state
      /\ UNCHANGED <<backups, runs, doomed, stage, receipts, undoing, forced, outcome, frames, edited, since,
                     stranded, edits, faults>>
  BY DEF Restore, apply, history, bounds
<1>2. /\ undoing \in 1 .. runs /\ undoing \in Runs /\ Backup(undoing)
      /\ todo \subseteq DOMAIN backups[undoing].files \cup {StateFile}
      /\ Receipts(receipts) /\ Holds(receipts, now, edited)
      /\ since \subseteq edited /\ frames[undoing].edited \subseteq edited
      /\ StateFile \in todo => state.run = undoing /\ state.receipts = receipts
      /\ StateFile \notin todo => state = backups[undoing].state
      /\ \A x \in Paths \ since : Due[x] = frames[undoing].now[x]
  BY <1>1, UndoingFacts
<1>3. StateFile \notin Paths /\ now \in [Paths -> Contents] /\ \A c \in Cells : c \notin Files /\ c \in Paths
  BY ConstantsAssumption DEF IInv, TypeOK, Paths
<1>4. y # StateFile => /\ y \in DOMAIN backups[undoing].files /\ y \in Files /\ y \in Paths
                       /\ backups[undoing].files[y] \in Contents
  BY <1>1, <1>2 DEF Backup, Paths, IInv, Links, FrameSet
<1>5. Due' = Due
  <2>1. ASSUME NEW x \in Paths PROVE Due'[x] = Due[x]
    <3>1. CASE x \in todo /\ x # y
      BY <1>1, <2>1, <3>1 DEF Due
    <3>2. CASE x = y
      <4>1. y # StateFile /\ (x \notin DOMAIN receipts)
        BY <1>2, <1>3, <1>4, <2>1, <3>2 DEF Receipts
      <4>2. now'[x] = backups[undoing].files[x]
        BY <1>1, <1>3, <3>2, <4>1
      <4> QED
        BY <1>1, <2>1, <3>2, <4>1, <4>2 DEF Due
    <3>3. CASE x \notin todo
      <4>1. now'[x] = now[x]
        BY <1>1, <1>3, <3>3
      <4> QED
        BY <1>1, <2>1, <3>3, <4>1 DEF Due
    <3> QED
      BY <3>1, <3>2, <3>3
  <2>2. Due = [x \in Paths |-> Due[x]] /\ Due' = [x \in Paths |-> Due'[x]]
    BY DEF Due
  <2> QED
    BY <2>1, <2>2
<1>6. now' \in [Paths -> Contents] /\ \A c \in Cells : now'[c] = now[c]
  BY <1>1, <1>3, <1>4
<1>7. Links'
  BY <1>1, LinksKeep DEF IInv
<1>8. Shape(state)' /\ state'.run \in 0 .. runs'
  <2>1. state' = state \/ state' = backups[undoing].state
    BY <1>1
  <2>2. Shape(state) /\ state.run \in 0 .. runs
    BY DEF IInv, TypeOK
  <2>3. Shape(backups[undoing].state) /\ backups[undoing].state.run \in 0 .. runs
    BY <1>2 DEF Backup, Shape
  <2> QED
    BY <1>1, <2>1, <2>2, <2>3 DEF Shape, Receipts
<1>9. TypeOK'
  BY <1>1, <1>6, <1>8 DEF IInv, TypeOK, Stages, Shape
<1>10. Undoing'
  <2>1. Holds(receipts, now, edited)'
    BY <1>1, <1>2, <1>6 DEF Receipts, Holds
  <2>2. IF StateFile \in todo' THEN state'.run = undoing' /\ state'.receipts = receipts'
                               ELSE state' = backups'[undoing'].state
    BY <1>1, <1>2
  <2>3. Receipts(receipts)'
    BY <1>1, <1>2 DEF Receipts
  <2> QED
    BY <1>1, <1>2, <1>5, <2>1, <2>2, <2>3 DEF Undoing
<1>11. Resting' /\ Working'
  BY <1>1 DEF Resting, Working, Applying
<1> QED
  BY <1>7, <1>8, <1>9, <1>10, <1>11 DEF IInv

LEMMA UnpublishStep == ASSUME IInv, Unpublish PROVE IInv'
<1>1. /\ stage = "restore" /\ todo = {} /\ Matching /\ now' = Unpublished /\ receipts' = <<>> /\ stage' = "services"
      /\ UNCHANGED <<state, backups, runs, doomed, undoing, todo, forced, outcome, frames, edited, since,
                     stranded, edits, faults>>
  BY DEF Unpublish, apply, rollback, history, bounds
<1>2. /\ undoing \in 1 .. runs /\ Receipts(receipts)
      /\ since \subseteq edited /\ frames[undoing].edited \subseteq edited
      /\ state = backups[undoing].state
      /\ \A x \in Paths \ since : Due[x] = frames[undoing].now[x]
  BY <1>1, UndoingFacts
<1>3. DOMAIN receipts' = {}
  BY <1>1, None
<1>4. now' \in [Paths -> Contents]
  BY <1>1, <1>2 DEF Unpublished, Receipts, IInv, TypeOK
<1>5. Due' = now' /\ Due = Unpublished
  <2>1. Due = Unpublished
    BY <1>1 DEF Due, Unpublished
  <2>2. Due' = [x \in Paths |-> now'[x]]
    BY <1>1 DEF Due
  <2> QED
    BY <1>4, <2>1, <2>2
<1>6. Links'
  BY <1>1, LinksKeep DEF IInv
<1>7. TypeOK' /\ Shape(state)'
  BY <1>1, <1>3, <1>4 DEF IInv, TypeOK, Stages, Shape, Receipts
<1>8. Undoing'
  <2>1. Receipts(receipts)' /\ Holds(receipts, now, edited)'
    BY <1>3 DEF Receipts, Holds
  <2> QED
    BY <1>1, <1>2, <1>5, <2>1 DEF Undoing
<1>9. Resting' /\ Working'
  BY <1>1 DEF Resting, Working, Applying
<1> QED
  BY <1>6, <1>7, <1>8, <1>9 DEF IInv

\* However a rollback ends, what it leaves agrees with the state.json that it leaves.
LEMMA Ending ==
    ASSUME IInv, stage \in {"restore", "services"}, NEW lost, lost \subseteq Paths,
           stage' = "idle" /\ todo' = {} /\ receipts' = <<>> /\ edited' = edited \cup lost,
           UNCHANGED <<now, state, backups, runs, frames>>, faults' = 0 => faults = 0,
           StateFile \notin todo => \A x \in Paths \ (edited \cup lost) : Due[x] = now[x],
           StateFile \in todo => faults' # 0 /\ stage = "restore"
    PROVE  Resting' /\ Working' /\ Undoing' /\ Links' /\ Shape(state)'
<1>1. /\ undoing \in Runs /\ Backup(undoing)
      /\ todo \subseteq DOMAIN backups[undoing].files \cup {StateFile}
      /\ Receipts(receipts) /\ Holds(receipts, now, edited)
      /\ since \subseteq edited /\ frames[undoing].edited \subseteq edited
      /\ StateFile \in todo => state.run = undoing /\ state.receipts = receipts
      /\ StateFile \notin todo => state = backups[undoing].state
      /\ \A x \in Paths \ since : Due[x] = frames[undoing].now[x]
  BY UndoingFacts
<1>2. \A x \in Paths \ edited' : x \notin since /\ x \notin edited
  BY <1>1
<1>3. CASE StateFile \notin todo
  <2>1. \A x \in Paths \ edited' : now[x] = frames[undoing].now[x]
    BY <1>1, <1>2, <1>3
  <2>2. Consistent(state, now, edited')
    BY <1>1, <1>3, <2>1, Back DEF IInv
  <2> QED
    BY <2>2, ConsistentKeep, LinksKeep
       DEF Consistent, Explains, Holds, Hashed, Resting, Working, Applying, Undoing, IInv, Shape, Receipts
<1>4. CASE StateFile \in todo
  <2>1. state.run = undoing /\ state.receipts = receipts /\ stage = "restore" /\ faults' # 0
    BY <1>1, <1>4
  <2>2. ASSUME NEW x \in Paths \ edited', x \notin DOMAIN backups[undoing].files
        PROVE  (IF x \in DOMAIN receipts THEN receipts[x].old ELSE now[x]) = frames[undoing].now[x]
    <3>1. x \notin todo /\ x \notin since
      BY <1>1, <1>2, <2>2, ConstantsAssumption
    <3> QED
      BY <1>1, <2>1, <3>1 DEF Due
  <2>3. Explains(state, now, edited)'
    BY <2>1, <2>2 DEF Explains
  <2>4. Holds(state.receipts, now, edited)'
    BY <1>1, <2>1 DEF Holds
  <2>5. Resting'
    BY <2>1, <2>3, <2>4 DEF Resting, Consistent
  <2> QED
    BY <2>5, LinksKeep DEF Working, Applying, Undoing, IInv, Shape, Receipts
<1> QED
  BY <1>3, <1>4

LEMMA InterruptStep == ASSUME IInv, Interrupt PROVE IInv'
<1> DEFINE lost == IF StateFile \in todo THEN {} ELSE todo \cup Ours
<1>1. /\ stage = "restore" /\ faults' = faults + 1 /\ faults < MaxFaults
      /\ stranded' = stranded \cup lost /\ edited' = edited \cup lost
      /\ outcome' = "failed" /\ todo' = {} /\ receipts' = <<>> /\ stage' = "idle"
      /\ UNCHANGED <<now, state, backups, runs, doomed, undoing, forced, frames, since, edits>>
  BY DEF Interrupt, Strand, GiveUp, disk, apply
<1>2. todo \subseteq Files \cup {StateFile} /\ Receipts(receipts) /\ Holds(receipts, now, edited)
  BY <1>1, UndoingFacts
<1>3. lost \subseteq Paths
  BY <1>2 DEF Ours, Receipts, Paths
<1>4. faults' \in 0 .. MaxFaults /\ faults' # 0
  BY <1>1, ConstantsAssumption DEF IInv, TypeOK
<1>5. ASSUME StateFile \notin todo, NEW x \in Paths, x \notin edited, x \notin lost PROVE Due[x] = now[x]
  <2>1. x \notin todo /\ x \notin DOMAIN receipts
    BY <1>2, <1>5 DEF Holds, Ours
  <2> QED
    BY <2>1 DEF Due
<1>6. TypeOK'
  <2>1. DOMAIN receipts' = {}
    BY <1>1, None
  <2> QED
    BY <1>1, <1>3, <1>4, <2>1 DEF IInv, TypeOK, Stages
<1> HIDE DEF lost
<1>7. Resting' /\ Working' /\ Undoing' /\ Links' /\ Shape(state)'
  BY <1>1, <1>3, <1>4, <1>5, Ending
<1> QED
  BY <1>6, <1>7 DEF IInv

LEMMA UnpublishRefusedStep == ASSUME IInv, UnpublishRefused PROVE IInv'
<1>1. /\ stage = "restore" /\ todo = {}
      /\ stranded' = stranded \cup Ours /\ edited' = edited \cup Ours
      /\ outcome' = "failed" /\ todo' = {} /\ receipts' = <<>> /\ stage' = "idle"
      /\ UNCHANGED <<now, state, backups, runs, doomed, undoing, forced, frames, since, edits, faults>>
  BY DEF UnpublishRefused, Strand, GiveUp, disk, apply, bounds
<1>2. Receipts(receipts) /\ Holds(receipts, now, edited)
  BY <1>1, UndoingFacts
<1>3. Ours \subseteq Paths
  BY <1>2 DEF Ours, Receipts, Paths
<1>4. ASSUME NEW x \in Paths, x \notin edited, x \notin Ours PROVE Due[x] = now[x]
  <2>1. x \notin DOMAIN receipts
    BY <1>2, <1>4 DEF Holds, Ours
  <2> QED
    BY <1>1, <2>1 DEF Due
<1>5. TypeOK'
  <2>1. DOMAIN receipts' = {}
    BY <1>1, None
  <2> QED
    BY <1>1, <1>3, <2>1 DEF IInv, TypeOK, Stages
<1>6. Resting' /\ Working' /\ Undoing' /\ Links' /\ Shape(state)'
  BY <1>1, <1>3, <1>4, Ending
<1> QED
  BY <1>5, <1>6 DEF IInv

LEMMA ServicesStep == ASSUME IInv, Done \/ Unhealthy PROVE IInv'
<1>1. /\ stage = "services" /\ stage' = "idle" /\ outcome' \in {"done", "failed"}
      /\ UNCHANGED <<now, state, backups, runs, doomed, undoing, forced, frames, edited, since, stranded,
                     edits, faults>>
  BY DEF Done, Unhealthy, GiveUp, disk, apply, history, bounds
<1>2. todo = {} /\ receipts = <<>>
  BY <1>1 DEF IInv, Undoing
<1>3. todo' = {} /\ receipts' = <<>>
  BY <1>2 DEF Done, Unhealthy, GiveUp
<1>4. \A x \in Paths : Due[x] = now[x]
  BY <1>1, <1>2 DEF Due
<1>5. TypeOK'
  BY <1>1, <1>2, <1>3 DEF IInv, TypeOK, Stages
<1>6. edited' = edited \cup {}
  BY <1>1
<1>7. Resting' /\ Working' /\ Undoing' /\ Links' /\ Shape(state)'
  BY <1>1, <1>2, <1>3, <1>4, <1>6, Ending
<1> QED
  BY <1>5, <1>7 DEF IInv

-----------------------------------------------------------------------------
(* Others *)

LEMMA TouchStep ==
    ASSUME IInv, NEW y \in Paths, NEW v \in Contents,
           now' = [now EXCEPT ![y] = v], edited' = edited \cup {y}, since' = since \cup {y},
           UNCHANGED <<state, backups, runs, doomed, stage, receipts, undoing, todo, frames, faults>>
    PROVE  Resting' /\ Working' /\ Undoing' /\ Links' /\ Shape(state)' /\ now' \in [Paths -> Contents]
<1>1. now' \in [Paths -> Contents] /\ \A x \in Paths : x # y => now'[x] = now[x]
  BY DEF IInv, TypeOK
<1>2. Links'
  BY LinksKeep DEF IInv
<1>3. Shape(state)' /\ Shape(state)
  BY DEF IInv, Shape, Receipts
<1>4. DOMAIN state.receipts \subseteq Paths /\ DOMAIN state.hashes \subseteq Paths
  BY <1>3 DEF Shape, Receipts, Paths
<1>5. Resting'
  <2>1. SUFFICES ASSUME stage = "idle" PROVE Resting'
    BY DEF Resting
  <2>2. Consistent(state, now, edited) /\ todo = {} /\ receipts = <<>>
    BY <2>1 DEF IInv, Resting
  <2>3. Explains(state, now, edited)'
    BY <1>1, <2>2 DEF Consistent, Explains
  <2>4. Holds(state.receipts, now, edited)' /\ (faults' = 0 => Hashed(state, now, edited)')
    BY <1>1, <1>4, <2>2 DEF Consistent, Holds, Hashed
  <2> QED
    BY <2>2, <2>3, <2>4 DEF Resting, Consistent
<1>6. ASSUME Receipts(receipts), Holds(receipts, now, edited)
      PROVE  Receipts(receipts)' /\ Holds(receipts, now, edited)'
  BY <1>1, <1>6 DEF Receipts, Holds, Paths
<1>7. Working'
  BY <1>1, <1>6 DEF IInv, Working, Applying
<1>8. Undoing'
  <2>1. SUFFICES ASSUME stage \in {"restore", "services"} PROVE Undoing'
    BY DEF Undoing
  <2>2. \A x \in Paths : x # y => Due'[x] = Due[x]
    BY <1>1 DEF Due
  <2>3. \A x \in Paths \ since' : Due'[x] = frames'[undoing'].now[x]
    BY <2>1, <2>2 DEF IInv, Undoing
  <2> QED
    BY <1>6, <2>1, <2>3 DEF IInv, Undoing
<1> QED
  BY <1>1, <1>2, <1>3, <1>5, <1>7, <1>8

LEMMA OthersStep ==
    ASSUME IInv, SetDns \/ (\E x \in EditPaths, v \in EditVals : Edit(x, v)) PROVE IInv'
<1>1. CASE SetDns
  <2>1. DnsFile \in Paths /\ DnsVal \in Contents
    BY ConstantsAssumption DEF Paths, Contents
  <2>2. Resting' /\ Working' /\ Undoing' /\ Links' /\ Shape(state)' /\ now' \in [Paths -> Contents]
    BY <1>1, <2>1, TouchStep DEF SetDns, apply, bounds
  <2>3. TypeOK'
    BY <1>1, <2>1, <2>2 DEF SetDns, IInv, TypeOK, apply, bounds
  <2> QED
    BY <2>2, <2>3 DEF IInv
<1>2. ASSUME NEW x \in EditPaths, NEW v \in EditVals, Edit(x, v) PROVE IInv'
  <2>1. x \in Paths /\ v \in Contents
    BY ConstantsAssumption
  <2>2. Resting' /\ Working' /\ Undoing' /\ Links' /\ Shape(state)' /\ now' \in [Paths -> Contents]
    BY <1>2, <2>1, TouchStep DEF Edit, apply, rollback
  <2>3. edits' \in 0 .. MaxEdits
    BY <1>2, ConstantsAssumption DEF Edit, IInv, TypeOK
  <2>4. TypeOK'
    BY <1>2, <2>1, <2>2, <2>3 DEF Edit, IInv, TypeOK, apply, rollback
  <2> QED
    BY <2>2, <2>4 DEF IInv
<1> QED
  BY <1>1, <1>2

LEMMA StutterStep == ASSUME IInv, Refuse \/ UNCHANGED vars PROVE IInv'
<1>1. /\ UNCHANGED <<now, state, backups, stage, runs, doomed, receipts, undoing, todo, forced, frames, edited,
                     since, stranded, edits, faults>>
      /\ outcome' \in {outcome, "refused"}
  BY DEF Refuse, vars, disk, apply, rollback, history, bounds
<1>2. TypeOK'
  BY <1>1 DEF IInv, TypeOK
<1>3. Links' /\ Resting' /\ Shape(state)'
  BY <1>1, LinksKeep, RestingKeep DEF IInv, Shape, Receipts
<1>4. Working'
  BY <1>1 DEF IInv, Working, Applying, Receipts, Holds
<1>5. Due' = Due
  BY <1>1 DEF Due
<1>6. Undoing'
  BY <1>1, <1>5 DEF IInv, Undoing, Receipts, Holds
<1> QED
  BY <1>2, <1>3, <1>4, <1>6 DEF IInv

LEMMA IInvStep == ASSUME IInv, [Next]_vars PROVE IInv'
BY StartStep, PublishStep, DeployStep, AbortStep, BeginStep, RestoreStep, InterruptStep, UnpublishStep,
   UnpublishRefusedStep, ServicesStep, OthersStep, StutterStep DEF Next

LEMMA IInvMeans == IInv => Inv
<1> SUFFICES ASSUME IInv PROVE Inv
  OBVIOUS
<1>1. Returned
  <2>1. SUFFICES ASSUME stage = "services" PROVE Returned
    BY DEF Returned
  <2>2. todo = {} /\ StateFile \notin todo
    BY <2>1 DEF IInv, Undoing
  <2>3. state = backups[undoing].state /\ \A x \in Paths \ since : Due[x] = frames[undoing].now[x]
    BY <2>1, <2>2, UndoingFacts
  <2>4. \A x \in Paths : Due[x] = now[x]
    BY <2>1, <2>2 DEF Due
  <2> QED
    BY <2>3, <2>4 DEF Returned
<1> QED
  BY <1>1 DEF IInv, Inv

LEMMA Invariance == Spec => []IInv
<1>1. IInv /\ [Next]_vars => IInv'
  BY IInvStep
<1> QED
  BY <1>1, InitIInv, PTL DEF Spec

(***************************************************************************)
(* However many applies, failed ones, edits and interrupted rollbacks came *)
(* before: a rollback that has restored its files and its receipts has     *)
(* given back what the run it undoes had found, in its backup or not, but  *)
(* for what others have touched or failures have left behind since, and    *)
(* the state.json of the run below.                                        *)
(***************************************************************************)
THEOREM RollbackReturns == Spec => []Inv
BY Invariance, IInvMeans, PTL

(***************************************************************************)
(* Undoing runs leaves the one below as it was installed: as long as no    *)
(* rollback was interrupted, an unforced one is refused only for a file    *)
(* that somebody else has touched.                                         *)
(***************************************************************************)
THEOREM RefusalHasCause == Spec => RefusedOnlyAfterEdits
<1>1. ASSUME IInv, [Next]_vars, outcome' = "refused", outcome # "refused"
      PROVE  Changed \cap edited # {} \/ faults > 0
  <2>1. Refuse
    BY <1>1 DEF Next, Start, Publish, Deploy, Abort, Begin, Restore, Interrupt, Unpublish, UnpublishRefused,
                Done, Unhealthy, GiveUp, SetDns, Edit, rollback, vars
  <2>2. Consistent(state, now, edited) /\ faults \in Nat
    BY <1>1, <2>1, ConstantsAssumption DEF IInv, Resting, Refuse, TypeOK
  <2>3. PICK f \in DOMAIN state.hashes : now[f] # state.hashes[f]
    BY <2>1 DEF Refuse, Changed
  <2>4. faults = 0 => f \in edited
    BY <2>2, <2>3 DEF Consistent, Hashed
  <2> QED
    BY <2>2, <2>3, <2>4 DEF Changed
<1>2. IInv /\ [Next]_vars =>
        [outcome' = "refused" /\ outcome # "refused" => Changed \cap edited # {} \/ faults > 0]_vars
  BY <1>1
<1> QED
  BY <1>2, Invariance, PTL DEF Spec, RefusedOnlyAfterEdits

-----------------------------------------------------------------------------
(* The chain of the frames *)

LEMMA Least == ASSUME NEW S, S \subseteq Nat, S # {} PROVE \E n \in S : \A m \in S : n <= m
<1> DEFINE R == OpToRel(<, Nat)
<1>1. IsWellFoundedOn(R, Nat)
  BY NatLessThanWellFounded
<1> HIDE DEF R
<1>2. PICK n \in S : \A m \in S : ~ (<<m, n>> \in R)
  BY <1>1, WFMin
<1> USE DEF R
<1>3. \A m \in S : ~ (m < n)
  BY <1>2 DEF OpToRel
<1> QED
  BY <1>3

\* g is a chain of the frames fr up to the run m, in which b holds the backups.
Unrolls(g, m, b, fr) ==
    /\ g \in [0 .. m -> Seq(FrameSet)]
    /\ g[0] = <<>>
    /\ \A k \in 1 .. m : g[k] = Append(g[b[k].state.run], fr[k])

\* Every backup of b is of an earlier run.
Earlier(b, fr) ==
    \A k \in Runs : b[k].state.run \in Nat /\ b[k].state.run < k /\ fr[k] \in FrameSet

LEMMA ChainExists ==
    ASSUME NEW b, NEW fr, Earlier(b, fr), NEW m \in Nat, m <= Len(Plans)
    PROVE  \E g : Unrolls(g, m, b, fr)
<1> DEFINE S == {n \in 0 .. Len(Plans) : ~ \E g : Unrolls(g, n, b, fr)}
<1>1. SUFFICES ASSUME S # {} PROVE FALSE
  BY ConstantsAssumption
<1>2. S \subseteq Nat
  BY ConstantsAssumption
<1> HIDE DEF S
<1>3. PICK n \in S : \A j \in S : n <= j
  BY <1>1, <1>2, Least
<1>4. n \in 0 .. Len(Plans) /\ Len(Plans) \in Nat /\ ~ \E g : Unrolls(g, n, b, fr)
  BY ConstantsAssumption DEF S
<1>5. n # 0
  <2> DEFINE g == [k \in 0 .. 0 |-> <<>>]
  <2>1. g \in [0 .. 0 -> Seq(FrameSet)] /\ g[0] = <<>> /\ \A k \in 1 .. 0 : g[k] = Append(g[b[k].state.run], fr[k])
    OBVIOUS
  <2>2. Unrolls(g, 0, b, fr)
    BY <2>1 DEF Unrolls
  <2> QED
    BY <1>4, <2>2
<1>6. n - 1 \in 0 .. Len(Plans) /\ n - 1 \notin S /\ n \in Runs
  BY <1>3, <1>4, <1>5 DEF Runs
<1>7. PICK g : Unrolls(g, n - 1, b, fr)
  BY <1>6 DEF S
<1>8. b[n].state.run \in 0 .. n - 1 /\ fr[n] \in FrameSet
  BY <1>4, <1>6 DEF Earlier
<1> DEFINE top == Append(g[b[n].state.run], fr[n])
           h == [k \in 0 .. n |-> IF k = n THEN top ELSE g[k]]
<1>9. top \in Seq(FrameSet)
  BY <1>7, <1>8 DEF Unrolls
<1>10. \A k \in 0 .. n - 1 : h[k] = g[k] /\ k \in 0 .. n
  BY <1>4
<1>11. h[n] = top
  <2>1. n \in 0 .. n
    BY <1>4
  <2> HIDE DEF top
  <2> QED
    BY <2>1
<1>12. h \in [0 .. n -> Seq(FrameSet)]
  <2>1. ASSUME NEW k \in 0 .. n, k # n PROVE k \in 0 .. n - 1
    BY <1>4, <2>1
  <2> HIDE DEF top
  <2> QED
    BY <1>7, <1>9, <2>1 DEF Unrolls
<1> HIDE DEF h
<1>13. h[0] = <<>>
  <2>1. 0 \in 0 .. n - 1
    BY <1>4, <1>5
  <2>2. h[0] = g[0]
    BY <1>10, <2>1
  <2>3. g[0] = <<>>
    BY <1>7 DEF Unrolls
  <2> QED
    BY <2>2, <2>3
<1>14. ASSUME NEW k \in 1 .. n PROVE h[k] = Append(h[b[k].state.run], fr[k])
  <2>1. CASE k = n
    BY <1>8, <1>10, <1>11, <2>1
  <2>2. CASE k # n
    <3>1. k \in 1 .. n - 1 /\ k \in Runs /\ k \in 0 .. n - 1
      BY <1>4, <2>2 DEF Runs
    <3>2. b[k].state.run \in 0 .. n - 1
      BY <1>4, <3>1 DEF Earlier
    <3> QED
      BY <1>7, <1>10, <3>1, <3>2 DEF Unrolls
  <2> QED
    BY <2>1, <2>2
<1>15. Unrolls(h, n, b, fr)
  BY <1>12, <1>13, <1>14 DEF Unrolls
<1> QED
  BY <1>4, <1>15

SameLinks(m, b, fr, c, gr) == \A k \in 1 .. m : c[k].state.run = b[k].state.run /\ gr[k] = fr[k]

SameChain(m, g, h) == \A k \in 0 .. m : h[k] = g[k]

\* Chains agree as far as the backups and the frames do.
LEMMA ChainsAgree ==
    ASSUME NEW b, NEW fr, NEW c, NEW gr, Earlier(b, fr), NEW m \in 0 .. Len(Plans),
           SameLinks(m, b, fr, c, gr),
           NEW g, NEW h, Unrolls(g, Len(Plans), b, fr), Unrolls(h, Len(Plans), c, gr)
    PROVE  SameChain(m, g, h)
<1> DEFINE S == {n \in 0 .. m : h[n] # g[n]}
<1>1. SUFFICES ASSUME S # {} PROVE FALSE
  BY DEF SameChain
<1>2. Len(Plans) \in Nat /\ m \in Nat /\ m <= Len(Plans)
  BY ConstantsAssumption
<1>3. S \subseteq Nat
  BY <1>2
<1> HIDE DEF S
<1>4. PICK n \in S : \A j \in S : n <= j
  BY <1>1, <1>3, Least
<1>5. n \in 0 .. m /\ h[n] # g[n]
  BY DEF S
<1>6. n # 0
  BY <1>5 DEF Unrolls
<1>7. n \in 1 .. m /\ n \in 1 .. Len(Plans) /\ n \in Runs
  BY <1>2, <1>5, <1>6 DEF Runs
<1>8. b[n].state.run \in 0 .. m /\ ~ (n <= b[n].state.run)
  BY <1>2, <1>7 DEF Earlier
<1>9. h[b[n].state.run] = g[b[n].state.run]
  BY <1>4, <1>8 DEF S
<1>10. c[n].state.run = b[n].state.run /\ gr[n] = fr[n]
  BY <1>7 DEF SameLinks
<1>11. h[n] = Append(h[c[n].state.run], gr[n]) /\ g[n] = Append(g[b[n].state.run], fr[n])
  BY <1>7 DEF Unrolls
<1> QED
  BY <1>5, <1>9, <1>10, <1>11

Trace(b, fr) ==
    CHOOSE g : g = [k \in 0 .. Len(Plans) |-> IF k = 0 THEN <<>> ELSE Append(g[b[k].state.run], fr[k])]

LEMMA TraceUnrolls ==
    ASSUME NEW b, NEW fr, Earlier(b, fr)
    PROVE  Unrolls(Trace(b, fr), Len(Plans), b, fr)
<1> DEFINE Body(g) == [k \in 0 .. Len(Plans) |-> IF k = 0 THEN <<>> ELSE Append(g[b[k].state.run], fr[k])]
<1>1. Len(Plans) \in Nat
  BY ConstantsAssumption
<1>2. PICK g : Unrolls(g, Len(Plans), b, fr)
  BY <1>1, ChainExists
<1>3. g = Body(g)
  <2>1. \A k \in 0 .. Len(Plans) : g[k] = IF k = 0 THEN <<>> ELSE Append(g[b[k].state.run], fr[k])
    BY <1>1, <1>2 DEF Unrolls
  <2>2. g = [k \in 0 .. Len(Plans) |-> g[k]]
    BY <1>2 DEF Unrolls
  <2> QED
    BY <2>1, <2>2
<1> DEFINE t == Trace(b, fr)
<1>4. t = Body(t)
  BY <1>3 DEF Trace
<1> HIDE DEF t
<1>5. /\ DOMAIN t = 0 .. Len(Plans) /\ t = [k \in 0 .. Len(Plans) |-> t[k]] /\ t[0] = <<>>
      /\ \A k \in 1 .. Len(Plans) : t[k] = Append(t[b[k].state.run], fr[k])
  <2>1. \A k \in 1 .. Len(Plans) : k \in 0 .. Len(Plans) /\ k # 0
    BY <1>1
  <2>2. 0 \in 0 .. Len(Plans)
    BY <1>1
  <2> QED
    BY <1>4, <2>1, <2>2
<1> DEFINE S == {n \in 0 .. Len(Plans) : t[n] \notin Seq(FrameSet)}
<1>6. ASSUME S # {} PROVE FALSE
  <2>1. S \subseteq Nat
    BY <1>1
  <2>2. PICK n \in S : \A j \in S : n <= j
    BY <1>6, <2>1, Least
  <2>3. n # 0
    BY <1>5
  <2>4. n \in 1 .. Len(Plans) /\ n \in Runs
    BY <1>1, <2>3 DEF Runs
  <2>5. b[n].state.run \in 0 .. Len(Plans) /\ ~ (n <= b[n].state.run) /\ fr[n] \in FrameSet
    BY <1>1, <2>4 DEF Earlier
  <2>6. t[b[n].state.run] \in Seq(FrameSet)
    BY <2>2, <2>5
  <2>7. t[n] = Append(t[b[n].state.run], fr[n])
    BY <1>5, <2>4
  <2>8. t[n] \in Seq(FrameSet)
    BY <2>5, <2>6, <2>7
  <2> QED
    BY <2>8
<1>7. t \in [0 .. Len(Plans) -> Seq(FrameSet)]
  BY <1>5, <1>6
<1>8. Unrolls(t, Len(Plans), b, fr)
  BY <1>5, <1>7 DEF Unrolls
<1> QED
  BY <1>8 DEF t

LEMMA LinksEarlier == Links => Earlier(backups, frames)
BY DEF Links, Backup, Shape, Earlier

LEMMA ChainUnrolls == ASSUME Links PROVE Unrolls(Chain, Len(Plans), backups, frames)
<1>1. Chain = Trace(backups, frames)
  BY DEF Chain, Trace
<1> QED
  BY <1>1, LinksEarlier, TraceUnrolls

LEMMA ChainUnrollsNext == ASSUME Links' PROVE Unrolls(Chain', Len(Plans), backups', frames')
<1>1. Chain' = Trace(backups', frames')
  BY DEF Chain, Trace
<1>2. Earlier(backups', frames')
  BY DEF Links, Backup, Shape, Earlier
<1> QED
  BY <1>1, <1>2, TraceUnrolls

-----------------------------------------------------------------------------
(* The refinement *)

LEMMA ChainFacts ==
    ASSUME Links
    PROVE  /\ \A k \in 0 .. Len(Plans) : Chain[k] \in Seq(FrameSet)
           /\ Chain[0] = <<>>
           /\ \A k \in Runs : Chain[k] = Append(Chain[backups[k].state.run], frames[k])
BY ChainUnrolls DEF Unrolls, Runs

\* A run changes nothing of the chain below it.
LEMMA ChainBelow ==
    ASSUME Links, Links', NEW m \in 0 .. Len(Plans),
           \A k \in 1 .. m : backups'[k] = backups[k] /\ frames'[k] = frames[k]
    PROVE  \A k \in 0 .. m : Chain'[k] = Chain[k]
<1>1. /\ Unrolls(Chain, Len(Plans), backups, frames)
      /\ Unrolls(Chain', Len(Plans), backups', frames')
  BY ChainUnrolls, ChainUnrollsNext
<1>2. Earlier(backups, frames)
  BY LinksEarlier
<1>3. SameLinks(m, backups, frames, backups', frames')
  BY DEF SameLinks
<1> HIDE DEF Chain
<1>4. SameChain(m, Chain, Chain')
  BY <1>1, <1>2, <1>3, ChainsAgree
<1> QED
  BY <1>4 DEF SameChain

LEMMA ChainSame ==
    ASSUME Links, Links', UNCHANGED <<backups, frames>>
    PROVE  \A k \in 0 .. Len(Plans) : Chain'[k] = Chain[k]
BY ConstantsAssumption, ChainBelow

LEMMA WithoutLast ==
    ASSUME NEW s \in Seq(FrameSet), NEW e
    PROVE  /\ Append(s, e) # <<>> /\ Append(s, e)[Len(Append(s, e))] = e
           /\ SubSeq(Append(s, e), 1, Len(Append(s, e)) - 1) = s
OBVIOUS

\* The runs that the mapping looks up.
LEMMA InChain ==
    ASSUME IInv
    PROVE  /\ state.run \in 0 .. Len(Plans) /\ runs \in 0 .. Len(Plans)
           /\ state.run # 0 => state.run \in Runs
           /\ StateFile \in todo => stage = "restore" /\ undoing \in Runs
           /\ stage \in {"restore", "services"} =>
                undoing \in Runs /\ backups[undoing].state.run \in 0 .. Len(Plans)
           /\ StateFile \notin Paths /\ Files \cap Cells = {} /\ now \in [Paths -> Contents]
           /\ faults \in Nat /\ edited \subseteq Paths
<1>1. TypeOK /\ Len(Plans) \in Nat /\ MaxFaults \in Nat
  BY ConstantsAssumption DEF IInv
<1>2. state.run \in 0 .. Len(Plans) /\ runs \in 0 .. Len(Plans) /\ (state.run # 0 => state.run \in Runs)
  BY <1>1 DEF TypeOK, Runs
<1>3. stage \in {"restore", "services"} => undoing \in Runs
  BY <1>1, <1>2 DEF IInv, Undoing, TypeOK, Runs
<1>4. ASSUME undoing \in Runs PROVE backups[undoing].state.run \in 0 .. Len(Plans)
  BY <1>1, <1>4 DEF IInv, Links, Backup, Shape, Runs
<1>5. StateFile \in todo => stage = "restore"
  BY <1>1 DEF TypeOK
<1> QED
  BY <1>1, <1>2, <1>3, <1>4, <1>5, ConstantsAssumption DEF TypeOK, Paths

Typed == Due \in [Paths -> Contents]

LEMMA DueType == IInv => Typed
<1> SUFFICES ASSUME IInv PROVE Due \in [Paths -> Contents]
  BY DEF Typed
<1>1. now \in [Paths -> Contents] /\ StateFile \notin Paths
  BY InChain
<1>2. ASSUME NEW x \in Paths, x \in todo PROVE backups[undoing].files[x] \in Contents
  <2>1. stage = "restore"
    BY <1>2 DEF IInv, TypeOK
  <2>2. undoing \in Runs /\ x \in DOMAIN backups[undoing].files
    BY <1>1, <1>2, <2>1, InChain DEF IInv, Undoing
  <2>3. backups[undoing].files[x] = frames[undoing].now[x] /\ frames[undoing] \in FrameSet
    BY <2>2 DEF IInv, Links, Backup
  <2> QED
    BY <2>3 DEF FrameSet
<1>3. ASSUME NEW x \in DOMAIN receipts, stage = "restore" PROVE receipts[x].old \in Contents
  BY <1>3 DEF IInv, Undoing, Receipts
<1> QED
  BY <1>1, <1>2, <1>3 DEF Due

\* At rest and in an apply, what is there is what counts.
LEMMA DueNow ==
    ASSUME IInv, stage # "restore"
    PROVE  todo = {} /\ Due = now
<1>1. todo = {}
  BY DEF IInv, TypeOK
<1>2. now = [x \in Paths |-> now[x]]
  BY InChain
<1> QED
  BY <1>1, <1>2 DEF Due

\* ... and at rest, the chain from state.json on.
LEMMA PastRest ==
    ASSUME IInv, stage \in {"idle", "services"}
    PROVE  ~ Applying /\ Past = Chain[state.run]
<1>1. todo = {} /\ ~ Applying
  BY DueNow DEF Applying
<1> HIDE DEF Chain
<1> QED
  BY <1>1 DEF Past, Reached

LEMMA PastWork ==
    ASSUME IInv, Applying
    PROVE  Past = Append(Chain[state.run], frames[runs])
BY DEF Past

LEMMA RefineInit ==
    ASSUME Init
    PROVE  Saved!Init
<1>1. IInv
  BY InitIInv
<1>2. Due \in [Paths -> Contents]
  BY <1>1, DueType DEF Typed
<1>3. Past = <<>>
  <2>1. state.run = 0
    BY NoStateIs DEF Init
  <2>2. Past = Chain[state.run]
    BY <1>1, PastRest DEF Init
  <2> QED
    BY <1>1, <2>1, <2>2, ChainFacts DEF IInv
<1>4. Applying = FALSE /\ edited = {} /\ Broken = FALSE
  BY DEF Init, Applying, Broken
<1> QED
  BY <1>2, <1>3, <1>4 DEF Saved!Init

\* Nothing is broken, before a step and after it.
Whole == stranded = {} /\ faults = 0

LEMMA WholeIs == ASSUME IInv, ~ Broken PROVE Whole /\ Broken = FALSE
BY InChain DEF Broken, Whole

LEMMA RefineStart ==
    ASSUME IInv, IInv', Start, ~ Broken, ~ Broken'
    PROVE  Saved!Save
<1>1. /\ Due = now /\ ~ Applying /\ Past = Chain[state.run]
  BY DueNow, PastRest DEF Start
<1>2. Due' = now' /\ Applying' /\ runs' = runs + 1 /\ state' = state /\ now' = now
  <2>1. todo' = {} /\ stage' # "restore" /\ Applying'
    BY DueNow DEF Start, Applying
  <2>2. now' = [x \in Paths |-> now'[x]]
    BY InChain DEF Start
  <2> QED
    BY <2>1, <2>2 DEF Due, Start
<1>3. runs + 1 \in Runs /\ state.run \in 0 .. runs /\ runs \in 0 .. Len(Plans)
  BY InChain, ConstantsAssumption DEF Start, Runs, IInv, TypeOK
<1>4. frames'[runs + 1] = [now |-> now, edited |-> edited]
  BY <1>3 DEF Start, IInv, Links
<1>5. \A k \in 1 .. state.run : backups'[k] = backups[k] /\ frames'[k] = frames[k]
  <2>1. ASSUME NEW k \in 1 .. state.run PROVE k \in Runs /\ k # runs + 1
    BY <1>3, ConstantsAssumption DEF Runs
  <2> QED
    BY <2>1 DEF Start, IInv, Links
<1>6. Chain'[state.run] = Chain[state.run]
  <2>1. state.run \in 0 .. Len(Plans) /\ state.run \in 0 .. state.run
    BY <1>3, ConstantsAssumption
  <2> HIDE DEF Chain
  <2> QED
    BY <1>5, <2>1, ChainBelow DEF IInv
<1> HIDE DEF Chain
<1>7. Past' = Append(Chain'[state.run], [now |-> now, edited |-> edited])
  BY <1>2, <1>4 DEF Past
<1>8. Applying' = TRUE /\ Broken' = Broken
  BY <1>2 DEF Broken, Applying
<1>9. edited' = {}
  BY DEF Start
<1> QED
  BY <1>1, <1>2, <1>6, <1>7, <1>8, <1>9 DEF Saved!Save

LEMMA RefinePublish ==
    ASSUME IInv, IInv', Typed', Publish, ~ Broken, ~ Broken'
    PROVE  Saved!Work
<1>1. Applying = TRUE /\ Applying' = TRUE
  BY DEF Publish, Applying
<1>2. state' = state /\ runs' = runs /\ edited' = edited /\ UNCHANGED <<backups, frames>>
  BY DEF Publish, apply, history
<1>3. Chain'[state.run] = Chain[state.run]
  <2> HIDE DEF Chain
  <2> QED
    BY <1>2, ChainSame, InChain DEF IInv
<1> HIDE DEF Chain
<1>4. Past' = Past
  BY <1>1, <1>2, <1>3 DEF Past
<1>5. Broken' = Broken
  BY DEF Broken
<1> QED
  BY <1>1, <1>2, <1>4, <1>5 DEF Saved!Work, Typed

LEMMA RefineDeploy ==
    ASSUME IInv, IInv', Typed', Deploy, ~ Broken, ~ Broken'
    PROVE  Saved!Commit
<1>1. Applying = TRUE /\ Applying' = FALSE
  BY DEF Deploy, Applying
<1>2. /\ runs' = runs /\ edited' = edited /\ state'.run = runs /\ todo' = {}
      /\ UNCHANGED <<backups, frames>>
  BY DueNow DEF Deploy, apply, history, rollback
<1>3. runs \in Runs /\ backups[runs].state = state
  BY <1>1 DEF IInv, Working
<1>4. Chain'[runs] = Chain[runs]
  <2> HIDE DEF Chain
  <2> QED
    BY <1>2, ChainSame, InChain DEF IInv
<1>5. Chain[runs] = Append(Chain[state.run], frames[runs])
  <2>1. Chain[runs] = Append(Chain[backups[runs].state.run], frames[runs])
    BY <1>3, ChainFacts DEF IInv
  <2> HIDE DEF Chain
  <2> QED
    BY <1>3, <2>1
<1> HIDE DEF Chain
<1>6. Past' = Past
  BY <1>1, <1>2, <1>4, <1>5 DEF Past, Reached
<1>7. Broken' = Broken
  BY DEF Broken
<1> QED
  BY <1>1, <1>2, <1>6, <1>7 DEF Saved!Commit, Typed

LEMMA RefineAbort ==
    ASSUME IInv, IInv', Typed', Abort, ~ Broken, ~ Broken'
    PROVE  Saved!Undo
<1>1. Applying /\ ~ Applying' /\ todo = {}
  BY DueNow DEF Abort, Applying
<1>2. /\ state' = state /\ todo' = {} /\ UNCHANGED <<backups, frames>> /\ runs \in Runs
  BY <1>1 DEF Abort, apply, rollback, IInv, Working
<1>3. Past = Append(Chain[state.run], frames[runs]) /\ Chain[state.run] \in Seq(FrameSet)
  BY <1>1, PastWork, InChain, ChainFacts DEF IInv
<1>4. Chain'[state.run] = Chain[state.run]
  <2> HIDE DEF Chain
  <2> QED
    BY <1>2, ChainSame, InChain DEF IInv
<1> HIDE DEF Chain
<1>5. Past # <<>> /\ Past[Len(Past)] = frames[runs] /\ SubSeq(Past, 1, Len(Past) - 1) = Chain[state.run]
  BY <1>3, WithoutLast
<1>6. Past' = Chain[state.run]
  BY <1>1, <1>2, <1>4 DEF Past, Reached
<1>7. ~ Matching => Ours = {}
  BY WholeIs DEF Abort, Strand, Broken
<1>8. edited' = edited \cup frames[runs].edited
  BY <1>7 DEF Abort
<1>9. ASSUME NEW x \in Paths \ edited PROVE Due'[x] = frames[runs].now[x]
  <2>1. Due'[x] = now'[x]
    BY <1>2 DEF Due, Abort
  <2>2. (IF x \in DOMAIN receipts THEN receipts[x].old ELSE now[x]) = frames[runs].now[x]
    BY <1>1 DEF IInv, Working
  <2>3. CASE Matching
    BY <2>1, <2>2, <2>3 DEF Abort, Unpublished
  <2>4. CASE ~ Matching
    <3>1. x \notin DOMAIN receipts
      BY <1>1, <1>7, <2>4 DEF Ours, IInv, Working, Holds
    <3> QED
      BY <2>1, <2>2, <2>4, <3>1 DEF Abort
  <2> QED
    BY <2>3, <2>4
<1>10. Applying' = FALSE /\ Broken' = Broken
  BY <1>1 DEF Broken, Applying
<1> QED
  BY <1>5, <1>6, <1>8, <1>9, <1>10 DEF Saved!Undo, Typed

LEMMA RefineBegin ==
    ASSUME IInv, IInv', Typed', NEW force, Begin(force), ~ Broken, ~ Broken'
    PROVE  Saved!Undo
<1>1. stage = "idle" /\ stage' = "restore" /\ ~ Applying' /\ Past = Chain[state.run]
  BY PastRest DEF Begin, Applying
<1> DEFINE r == state.run
<1>2. r \in Runs /\ undoing' = r /\ StateFile \in todo' /\ UNCHANGED <<backups, frames>>
  BY InChain DEF Begin, disk
<1>3. /\ Chain[r] = Append(Chain[backups[r].state.run], frames[r])
      /\ backups[r].state.run \in 0 .. Len(Plans)
  <2>1. Chain[r] = Append(Chain[backups[r].state.run], frames[r])
    BY <1>2, ChainFacts DEF IInv
  <2>2. backups[r].state.run \in 0 .. Len(Plans)
    BY <1>2, ConstantsAssumption DEF IInv, Links, Backup, Shape, Runs
  <2> QED
    BY <2>1, <2>2
<1> DEFINE s == Chain[backups[r].state.run]
<1>4. s \in Seq(FrameSet)
  BY <1>3, ChainFacts DEF IInv
<1>5. Chain'[backups[r].state.run] = s
  <2> HIDE DEF Chain
  <2> QED
    BY <1>2, <1>3, ChainSame DEF IInv
<1>6. Past = Append(s, frames[r])
  BY <1>1, <1>3
<1>7. Past' = s
  <2> HIDE DEF Chain
  <2> QED
    BY <1>1, <1>2, <1>5 DEF Past, Reached
<1> HIDE DEF s
<1>8. Past # <<>> /\ Past[Len(Past)] = frames[r] /\ SubSeq(Past, 1, Len(Past) - 1) = s
  BY <1>4, <1>6, WithoutLast
<1>9. edited' = edited \cup frames[r].edited
  BY DEF Begin
<1>10. \A x \in Paths \ edited : Due'[x] = frames[r].now[x]
  BY <1>1, <1>2 DEF Begin, IInv, Undoing
<1>11. Applying' = FALSE /\ Broken' = Broken
  BY <1>1 DEF Broken, Applying
<1> QED
  BY <1>7, <1>8, <1>9, <1>10, <1>11 DEF Saved!Undo, Typed

\* What keeps the chain and the run it is read from keeps the past.
LEMMA PastSame ==
    ASSUME IInv, IInv', UNCHANGED <<backups, frames>>, ~ Applying, ~ Applying',
           Reached' = Reached, Reached \in 0 .. Len(Plans)
    PROVE  Past' = Past
<1>1. Chain'[Reached] = Chain[Reached]
  <2> HIDE DEF Chain, Reached
  <2> QED
    BY ChainSame DEF IInv
<1> HIDE DEF Chain, Reached
<1> QED
  BY <1>1 DEF Past

LEMMA RefineRestore ==
    ASSUME IInv, IInv', NEW y \in Files \cup {StateFile}, Restore(y), ~ Broken, ~ Broken'
    PROVE  UNCHANGED Saved!vars
<1>1. /\ stage = "restore" /\ stage' = "restore" /\ y \in todo /\ todo' = todo \ {y}
      /\ UNCHANGED <<backups, frames, undoing, receipts, edited>>
  BY DEF Restore, history
<1>2. /\ undoing \in Runs /\ backups[undoing].state.run \in 0 .. Len(Plans)
      /\ StateFile \notin Paths /\ Files \cap Cells = {} /\ now \in [Paths -> Contents]
      /\ DOMAIN receipts \subseteq Cells /\ todo \subseteq Files \cup {StateFile}
  BY <1>1, InChain DEF IInv, TypeOK
<1>3. \A x \in Paths : Due'[x] = Due[x]
  <2> TAKE x \in Paths
  <2>1. CASE x = y
    <3>1. x \notin DOMAIN receipts /\ x # StateFile /\ x \notin todo'
      BY <1>1, <1>2, <2>1
    <3>2. now'[x] = backups[undoing].files[x]
      BY <1>2, <2>1, <3>1 DEF Restore
    <3> QED
      BY <1>1, <2>1, <3>1, <3>2 DEF Due
  <2>2. CASE x # y
    <3>1. now'[x] = now[x] /\ (x \in todo' <=> x \in todo)
      BY <1>1, <1>2, <2>2 DEF Restore
    <3> QED
      BY <1>1, <3>1 DEF Due
  <2> QED
    BY <2>1, <2>2
<1>4. Due' = Due
  BY <1>3 DEF Due
<1>5. Reached' = Reached /\ Reached \in 0 .. Len(Plans)
  <2>1. CASE y = StateFile
    BY <1>1, <1>2, <2>1 DEF Reached, Restore
  <2>2. CASE y # StateFile
    <3>1. state' = state /\ (StateFile \in todo' <=> StateFile \in todo)
      BY <1>1, <2>2 DEF Restore
    <3> QED
      BY <1>1, <1>2, <3>1, InChain DEF Reached
  <2> QED
    BY <2>1, <2>2
<1>6. ~ Applying /\ ~ Applying' /\ Applying' = Applying /\ Broken' = Broken
  BY <1>1 DEF Applying, Broken
<1>7. Past' = Past
  BY <1>1, <1>5, <1>6, PastSame
<1> QED
  BY <1>1, <1>4, <1>6, <1>7 DEF Saved!vars

\* The end of a rollback: everything has been restored, and what is there counts.
LEMMA ReachedEnd ==
    ASSUME IInv, todo = {}
    PROVE  Reached = state.run /\ Reached \in 0 .. Len(Plans)
BY InChain DEF Reached

LEMMA RefineUnpublish ==
    ASSUME IInv, IInv', Unpublish, ~ Broken, ~ Broken'
    PROVE  UNCHANGED Saved!vars
<1>1. /\ stage = "restore" /\ stage' = "services" /\ todo = {} /\ todo' = {} /\ state' = state
      /\ UNCHANGED <<backups, frames, edited>>
  BY DEF Unpublish, rollback, history
<1>2. Due' = Due
  BY <1>1 DEF Due, Unpublish, Unpublished
<1>3. Reached' = Reached /\ Reached \in 0 .. Len(Plans)
  BY <1>1, ReachedEnd DEF Reached
<1>4. ~ Applying /\ ~ Applying' /\ Applying' = Applying /\ Broken' = Broken
  BY <1>1 DEF Applying, Broken
<1>5. Past' = Past
  BY <1>1, <1>3, <1>4, PastSame
<1> QED
  BY <1>1, <1>2, <1>4, <1>5 DEF Saved!vars

LEMMA RefineServices ==
    ASSUME IInv, IInv', Done \/ Unhealthy, ~ Broken, ~ Broken'
    PROVE  UNCHANGED Saved!vars
<1>1. /\ stage = "services" /\ stage' = "idle" /\ todo = {} /\ todo' = {}
      /\ UNCHANGED <<now, state, backups, frames, edited>>
  BY DueNow DEF Done, Unhealthy, GiveUp, disk, history
<1>2. Due' = Due
  BY <1>1 DEF Due
<1>3. Reached' = Reached /\ Reached \in 0 .. Len(Plans)
  BY <1>1, ReachedEnd DEF Reached
<1>4. ~ Applying /\ ~ Applying' /\ Applying' = Applying /\ Broken' = Broken
  BY <1>1 DEF Applying, Broken
<1>5. Past' = Past
  BY <1>1, <1>3, <1>4, PastSame
<1> QED
  BY <1>1, <1>2, <1>4, <1>5 DEF Saved!vars

LEMMA RefineStutter ==
    ASSUME IInv, IInv', Refuse \/ UNCHANGED vars
    PROVE  UNCHANGED Saved!vars
<1>1. UNCHANGED <<now, state, backups, stage, runs, receipts, undoing, todo, frames, edited,
                  stranded, faults>>
  BY DEF Refuse, vars, disk, apply, rollback, history, bounds
<1>2. Due' = Due /\ Applying' = Applying /\ Broken' = Broken
  BY <1>1 DEF Due, Applying, Broken
<1>3. Past' = Past
  BY <1>1 DEF Past, Applying, Reached, Chain
<1> QED
  BY <1>1, <1>2, <1>3 DEF Saved!vars

\* Receipts that no longer match a single field are of fields that others have touched.
LEMMA RefineUnpublishRefused ==
    ASSUME IInv, IInv', Typed', UnpublishRefused, ~ Broken, ~ Broken'
    PROVE  \E S \in SUBSET Paths : Saved!Edit(S)
<1>1. /\ stage = "restore" /\ stage' = "idle" /\ todo = {} /\ todo' = {}
      /\ UNCHANGED <<now, state, backups, frames>>
  BY DEF UnpublishRefused, GiveUp, disk
<1>2. Ours = {}
  BY DEF UnpublishRefused, Strand, Broken
<1>3. DOMAIN receipts \subseteq edited /\ DOMAIN receipts \subseteq Paths
  <2>1. Holds(receipts, now, edited) /\ DOMAIN receipts \subseteq Cells
    BY <1>1 DEF IInv, Undoing, TypeOK
  <2> QED
    BY <1>2, <2>1 DEF Holds, Ours, Paths
<1>4. edited' = edited \cup DOMAIN receipts
  BY <1>2, <1>3 DEF UnpublishRefused
<1>5. \A x \in Paths \ DOMAIN receipts : Due'[x] = Due[x]
  BY <1>1 DEF Due
<1>6. Reached' = Reached /\ Reached \in 0 .. Len(Plans)
  BY <1>1, ReachedEnd DEF Reached
<1>7. ~ Applying /\ ~ Applying' /\ Applying' = Applying /\ Broken' = Broken
  BY <1>1 DEF Applying, Broken
<1>8. Past' = Past
  BY <1>1, <1>6, <1>7, PastSame
<1>9. Saved!Edit(DOMAIN receipts)
  BY <1>4, <1>5, <1>7, <1>8 DEF Saved!Edit, Typed
<1> QED
  BY <1>3, <1>9

LEMMA RefineOthers ==
    ASSUME IInv, IInv', Typed', NEW x \in Paths, NEW v, ~ Broken, ~ Broken',
           (SetDns /\ x = DnsFile) \/ Edit(x, v)
    PROVE  \E S \in SUBSET Paths : Saved!Edit(S)
<1>1. /\ now' = [now EXCEPT ![x] = now'[x]] /\ edited' = edited \cup {x}
      /\ UNCHANGED <<state, backups, stage, runs, receipts, undoing, todo, frames>>
  BY InChain DEF SetDns, Edit, apply, rollback
<1>2. \A y \in Paths \ {x} : Due'[y] = Due[y]
  <2>1. \A y \in Paths \ {x} : now'[y] = now[y]
    BY <1>1, InChain
  <2> QED
    BY <1>1, <2>1 DEF Due
<1>3. Applying' = Applying /\ Broken' = Broken
  BY <1>1 DEF Applying, Broken
<1>4. Past' = Past
  BY <1>1 DEF Past, Applying, Reached, Chain
<1>5. Saved!Edit({x})
  BY <1>1, <1>2, <1>3, <1>4 DEF Saved!Edit, Typed
<1> QED
  BY <1>5

LEMMA RefineStep ==
    ASSUME IInv, IInv', Typed', [Next]_vars
    PROVE  [Saved!Next]_(Saved!vars)
<1>1. CASE Broken \/ Broken'
  BY <1>1 DEF Saved!Next, Saved!Break
<1>2. CASE ~ Broken /\ ~ Broken'
  <2>1. CASE Start
    BY <1>2, <2>1, RefineStart DEF Saved!Next
  <2>2. CASE Publish
    BY <1>2, <2>2, RefinePublish DEF Saved!Next
  <2>3. CASE Deploy
    BY <1>2, <2>3, RefineDeploy DEF Saved!Next
  <2>4. CASE Abort
    BY <1>2, <2>4, RefineAbort DEF Saved!Next
  <2>5. CASE \E force \in BOOLEAN : Begin(force)
    <3>1. PICK force \in BOOLEAN : Begin(force)
      BY <2>5
    <3>2. Saved!Undo
      BY <1>2, <3>1, RefineBegin
    <3> QED
      BY <3>2 DEF Saved!Next
  <2>6. CASE \E y \in Files \cup {StateFile} : Restore(y)
    <3>1. PICK y \in Files \cup {StateFile} : Restore(y)
      BY <2>6
    <3> QED
      BY <1>2, <3>1, RefineRestore
  <2>7. CASE Interrupt
    <3>1. faults' = faults + 1 /\ faults \in Nat
      BY <2>7, InChain DEF Interrupt
    <3> QED
      BY <1>2, <3>1 DEF Broken
  <2>8. CASE Unpublish
    BY <1>2, <2>8, RefineUnpublish
  <2>9. CASE UnpublishRefused
    BY <1>2, <2>9, RefineUnpublishRefused DEF Saved!Next
  <2>10. CASE Done \/ Unhealthy
    BY <1>2, <2>10, RefineServices
  <2>11. CASE Refuse \/ UNCHANGED vars
    BY <2>11, RefineStutter
  <2>12. CASE SetDns
    <3>1. DnsFile \in Paths
      BY ConstantsAssumption DEF Paths
    <3>2. \E S \in SUBSET Paths : Saved!Edit(S)
      BY <1>2, <2>12, <3>1, RefineOthers
    <3> QED
      BY <3>2 DEF Saved!Next
  <2>13. CASE \E x \in EditPaths, v \in EditVals : Edit(x, v)
    <3>1. PICK x \in EditPaths, v \in EditVals : Edit(x, v)
      BY <2>13
    <3>2. x \in Paths
      BY <3>1, ConstantsAssumption
    <3>3. \E S \in SUBSET Paths : Saved!Edit(S)
      BY <1>2, <3>1, <3>2, RefineOthers
    <3> QED
      BY <3>3 DEF Saved!Next
  <2> QED
    BY <2>1, <2>2, <2>3, <2>4, <2>5, <2>6, <2>7, <2>8, <2>9, <2>10, <2>11, <2>12, <2>13 DEF Next
<1> QED
  BY <1>1, <1>2

(***************************************************************************)
(* Applies and rollbacks over files, receipts, backups and state.json do   *)
(* what SavePoints promises: every apply saves what is there, and undoing  *)
(* it gives back the saved value of every path that nobody else has        *)
(* touched since, one save point after the other, until an undo has        *)
(* stopped half way.                                                       *)
(***************************************************************************)
THEOREM KeepsPoints == Spec => KeepsSavePoints
<1>1. Init => Saved!Init
  BY RefineInit
<1>2. IInv /\ IInv' /\ Typed' /\ [Next]_vars => [Saved!Next]_(Saved!vars)
  BY RefineStep
<1>3. IInv => Typed
  BY DueType
<1> QED
  BY <1>1, <1>2, <1>3, Invariance, PTL DEF Spec, KeepsSavePoints, Saved!Spec

=============================================================================
