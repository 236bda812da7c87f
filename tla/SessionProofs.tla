---------------------------- MODULE SessionProofs ----------------------------
(***************************************************************************)
(* Proofs about two sessions: ForegroundSession, that of the processes in  *)
(* the foreground, for any number of processes, roles and reused process   *)
(* ids, and Dialogs, that of a person, for any panel, answers,             *)
(* certificates and bounds.                                                *)
(*                                                                         *)
(* ForegroundSession.  A signal goes to the life that the pidfd holds.     *)
(* Lives only grow, so the reading of the identity after the pidfd was     *)
(* opened shows that it holds the first life, that of a member (Aimed).    *)
(* Process ids only grow too: a child is behind its parent, and a scan of  *)
(* /proc that has found no member so far has only passed ids without one   *)
(* (Scanned).                                                              *)
(*                                                                         *)
(* The second invariant, WInv, is about the wait: a socket is held by one  *)
(* frontend and the processes that have it by fork (Kin, Socket), and its  *)
(* number is not given twice, so that what is read about the sockets that  *)
(* were read first (Reading) is true of them as long as they last, and so  *)
(* is the comparison with what is expected (Verdict).                      *)
(*                                                                         *)
(* Dialogs.  Every manifest in play, saved, failed, left for "check        *)
(* again", in the file or on the screen, was made with addresses that its  *)
(* dialog has read, or that the plan itself gives (KnownAddresses): the    *)
(* second is what a run that failed after it had published leaves.         *)
(* Admission compares the facts with the panel, so a run replaces no       *)
(* address that was not read.  In a move to another zone every domain is   *)
(* the address of the plan, moved (MovedTo).  Applied ends with the audit  *)
(* of what it has read back, which is the agreement of panel and manifest; *)
(* nothing that leaves the panel alone disturbs it, because what the other *)
(* steps change in the saved manifest names nothing (SameNames).  Sites of *)
(* the decoys are missing only for inbounds that shared a domain (Sited).  *)
(***************************************************************************)
EXTENDS ForegroundSession, Dialogs, FiniteSetTheorems, WellFoundedInduction, TLAPS

Member(p) == Exists(p) /\ proc[p].owned

Typed ==
    /\ DOMAIN proc = Pids
    /\ \A p \in Pids :
         /\ {"state", "owned", "parent", "life"} \subseteq DOMAIN proc[p]
         /\ proc[p].life \in 0 .. 2
         /\ Exists(p) => proc[p].life > 0
         /\ Member(p) => proc[p].life = 1
         /\ Exists(p) /\ proc[p].life = 1 => Member(p)

\* Process ids are given out in their order.
InOrder == \A p, q \in Pids : q < p /\ proc[p].life > 0 => proc[q].life > 0

Read == \A p \in DOMAIN members : p \in Pids /\ members[p].life = 1

Aimed ==
    /\ aim \in [pid : Pids \cup {0}, fd : 0 .. 2]
    /\ stage \in {"open", "verify", "send"} => aim.pid \in DOMAIN members
    /\ stage = "verify" => aim.fd > 0 /\ aim.fd <= proc[aim.pid].life
    /\ stage = "send" => aim.fd = 1

Scanned ==
    /\ cursor \in Nat
    /\ stage \in {"scan", "decide"} /\ DOMAIN members = {} =>
         \A p \in Pids : Member(p) => stage = "scan" /\ p > cursor

Watching == {"entered", "identity", "waiting", "members", "sockets", "again", "recheck", "ready"}

Cleaning == {"cleanup", "scan", "decide", "check", "open", "verify", "send"}

Ended ==
    /\ stage \in Watching \cup Cleaning \cup {"done"}
    /\ ~harmed
    /\ complete => stage = "done" /\ \A p \in Pids : ~Member(p)

IInv == Typed /\ InOrder /\ Read /\ Aimed /\ Scanned /\ Ended

LEMMA PidsAreNumbers == Pids \subseteq Nat /\ 0 \notin Pids
  BY ConstantsAssumption DEF Pids

LEMMA InitIInv == Init => IInv
<1> SUFFICES ASSUME Init PROVE IInv
  OBVIOUS
<1>1. \A p \in Pids : proc[p] = Unused /\ ~Exists(p)
  BY DEF Init, Exists, Unused
<1>2. Typed /\ InOrder
  BY <1>1 DEF Init, Typed, InOrder, Member, Exists, Unused
<1>3. Read /\ Aimed /\ Scanned /\ Ended
  BY <1>1 DEF Init, Read, Aimed, Scanned, Ended, Watching, NoMembers, NoAim, Member
<1> QED
  BY <1>2, <1>3 DEF IInv

-----------------------------------------------------------------------------
(* What processes do *)

\* Nobody appears, and who is there is who it was.
Quiet ==
    /\ DOMAIN proc' = Pids
    /\ \A p \in Pids :
         /\ {"state", "owned", "parent", "life"} \subseteq DOMAIN proc'[p]
         /\ proc'[p].life = proc[p].life /\ proc'[p].owned = proc[p].owned
         /\ Exists(p)' => Exists(p)

LEMMA QuietKeeps ==
    ASSUME Typed, InOrder, Quiet
    PROVE  Typed' /\ InOrder' /\ \A p \in Pids : Member(p)' => Member(p)
<1>1. \A p \in Pids : Member(p)' => Member(p)
  BY DEF Quiet, Member
<1>2. InOrder'
  BY DEF InOrder, Quiet
<1>3. Typed'
  BY DEF Typed, Quiet, Member
<1> QED
  BY <1>1, <1>2, <1>3

LEMMA SameQuiet == ASSUME Typed, proc' = proc PROVE Quiet
  BY DEF Typed, Quiet, Exists

LEMMA GoneQuiet == ASSUME Typed, NEW p \in Pids, Live(p), proc' = Gone(p) PROVE Quiet
  BY DEF Typed, Quiet, Gone, Exists, Live

LEMMA FreedQuiet ==
    ASSUME Typed, NEW P,
           proc' = [p \in Pids |-> IF p \in P THEN [proc[p] EXCEPT !.state = "free"] ELSE proc[p]]
    PROVE  Quiet
  BY DEF Typed, Quiet, Exists

\* The session does not see it.
LEMMA QuietStep ==
    ASSUME IInv, Quiet, UNCHANGED <<stage, reading, aim, ending>>
    PROVE  IInv'
<1>1. Typed' /\ InOrder' /\ \A p \in Pids : Member(p)' => Member(p)
  BY QuietKeeps DEF IInv
<1>2. Aimed'
  BY PidsAreNumbers DEF IInv, Aimed, Quiet, Read, reading
<1> QED
  BY <1>1, <1>2 DEF IInv, Read, Scanned, Ended, reading, ending

LEMMA Spawned ==
    ASSUME Typed, InOrder, NEW q \in Pids, Fresh(q), NEW parent, NEW origin,
           proc' = Spawn(q, parent, origin)
    PROVE  /\ Typed' /\ InOrder' /\ \A p \in Pids : Member(p)' => Member(p) \/ p = q
           /\ \A p \in Pids : proc[p].life > 0 => p < q
           /\ \A p \in Pids : proc'[p].life >= proc[p].life
<1>1. /\ proc'[q].state = "live" /\ proc'[q].owned /\ proc'[q].life = 1 /\ proc[q].life = 0
      /\ {"state", "owned", "parent", "life"} \subseteq DOMAIN proc'[q]
      /\ DOMAIN proc' = Pids /\ \A p \in Pids \ {q} : proc'[p] = proc[p]
  BY DEF Typed, Spawn, Fresh
<1>2. Typed' /\ \A p \in Pids : Member(p)' => Member(p) \/ p = q
  BY <1>1 DEF Typed, Member, Exists
<1>3. \A p \in Pids : proc[p].life > 0 => p < q
  BY <1>1, PidsAreNumbers DEF InOrder, Typed
<1>4. InOrder'
  BY <1>1, PidsAreNumbers DEF InOrder, Fresh
<1>5. \A p \in Pids : proc'[p].life >= proc[p].life
  BY <1>1 DEF Typed
<1> QED
  BY <1>2, <1>3, <1>4, <1>5

\* The pidfd of the signal at hand holds no later life than its process.
LEMMA LivesGrow ==
    ASSUME Typed, Typed', Read, Aimed, UNCHANGED <<stage, members, aim>>,
           \A p \in Pids : proc'[p].life >= proc[p].life
    PROVE  Aimed'
<1>1. stage = "verify" => aim.fd <= proc'[aim.pid].life
  <2> SUFFICES ASSUME stage = "verify" PROVE aim.fd <= proc'[aim.pid].life
    OBVIOUS
  <2>1. aim.pid \in Pids /\ aim.fd <= proc[aim.pid].life /\ aim.fd \in Nat
    BY DEF Aimed, Read
  <2>2. proc[aim.pid].life \in Nat /\ proc'[aim.pid].life \in Nat
    BY <2>1 DEF Typed
  <2> QED
    BY <2>1, <2>2
<1> QED
  BY <1>1 DEF Aimed

\* A child is behind its parent, which the scan has not passed.
LEMMA ForkStep == ASSUME IInv, NEW p \in Pids, NEW q \in Pids, Fork(p, q) PROVE IInv'
<1>1. Member(p) /\ stage # "done" /\ UNCHANGED <<stage, reading, aim, ending>>
  BY DEF Fork, Live, Member, Exists, killing
<1>2. /\ Typed' /\ InOrder' /\ (\A r \in Pids : Member(r)' => Member(r) \/ r = q)
      /\ p < q /\ \A r \in Pids : proc'[r].life >= proc[r].life
  BY <1>1, Spawned DEF Fork, IInv, Typed, Member
<1>3. Aimed'
  BY <1>1, <1>2, LivesGrow DEF IInv, reading
<1>4. Scanned'
  <2> SUFFICES ASSUME stage \in {"scan", "decide"}, DOMAIN members = {}, NEW r \in Pids, Member(r)'
               PROVE  stage = "scan" /\ r > cursor
    BY <1>1 DEF IInv, Scanned, reading
  <2>1. stage = "scan" /\ p > cursor /\ cursor \in Nat
    BY <1>1 DEF IInv, Scanned
  <2>2. CASE Member(r)
    BY <2>2 DEF IInv, Scanned
  <2>3. CASE r = q
    BY <1>2, <2>1, <2>3, PidsAreNumbers
  <2> QED
    BY <1>2, <2>1, <2>2, <2>3
<1> QED
  BY <1>1, <1>2, <1>3, <1>4 DEF IInv, Read, Ended, reading, ending

LEMMA ReuseStep == ASSUME IInv, NEW p \in Pids, Reuse(p) PROVE IInv'
<1>1. /\ proc'[p].state = "live" /\ ~proc'[p].owned /\ proc'[p].life = 2 /\ proc[p].life = 1
      /\ {"state", "owned", "parent", "life"} \subseteq DOMAIN proc'[p]
      /\ DOMAIN proc' = Pids /\ \A q \in Pids \ {p} : proc'[q] = proc[q]
  BY DEF Reuse, IInv, Typed
<1>2. stage # "done" /\ UNCHANGED <<stage, reading, aim, ending>>
  BY DEF Reuse, killing
<1>3. \A q \in Pids : Member(q)' => Member(q)
  BY <1>1 DEF Member, Exists
<1>4. Typed' /\ InOrder'
  BY <1>1 DEF IInv, Typed, InOrder, Member, Exists
<1>5. Aimed'
  <2>1. \A q \in Pids : proc'[q].life >= proc[q].life
    BY <1>1 DEF IInv, Typed
  <2> QED
    BY <1>2, <2>1, <1>4, LivesGrow DEF IInv, reading
<1> QED
  BY <1>2, <1>3, <1>4, <1>5 DEF IInv, Read, Scanned, Ended, reading, ending

LEMMA WorldSteps ==
    ASSUME IInv, NEW p \in Pids,
           \/ Exit(p) \/ ReapedByParent(p) \/ Reuse(p) \/ (\E q \in Pids : Fork(p, q))
           \/ (\E a \in Addresses : Bind(p, a))
    PROVE  IInv'
<1>1. CASE Exit(p)
  BY <1>1, GoneQuiet, QuietStep DEF Exit, IInv, killing
<1>2. CASE ReapedByParent(p)
  <2>1. proc' = [q \in Pids |-> IF q \in {p} THEN [proc[q] EXCEPT !.state = "free"] ELSE proc[q]]
    BY <1>2 DEF ReapedByParent, IInv, Typed
  <2> QED
    BY <1>2, <2>1, FreedQuiet, QuietStep DEF ReapedByParent, IInv, killing
<1>3. CASE \E a \in Addresses : Bind(p, a)
  BY <1>3, SameQuiet, QuietStep DEF Bind, IInv, killing
<1> QED
  BY <1>1, <1>2, <1>3, ReuseStep, ForkStep

-----------------------------------------------------------------------------
(* Until the cleanup *)

LEMMA WatchKeeps ==
    ASSUME IInv, stage \in Watching, stage' \in Watching \cup {"cleanup"},
           Typed', InOrder', Read', UNCHANGED <<cursor, aim, ending>>
    PROVE  IInv'
<1>1. ~complete
  BY DEF IInv, Ended, Watching
<1> QED
  BY <1>1 DEF IInv, Aimed, Scanned, Ended, Watching, Cleaning, ending

LEMMA WatchSteps ==
    ASSUME IInv,
           \/ Identified \/ ReadListeners \/ ReadMembers \/ Compare \/ ReadAgain \/ Recheck \/ Probe
           \/ Abort \/ \E p \in Pids : ReadSockets(p)
    PROVE  IInv'
<1>1. stage \in Watching
  BY DEF Identified, ReadListeners, ReadMembers, Compare, ReadAgain, Recheck, Probe, Abort,
         ReadSockets, Goto, Watching, Cleaning, IInv, Ended
<1>2. stage' \in Watching \cup {"cleanup"}
  BY DEF Identified, ReadListeners, ReadMembers, Compare, ReadAgain, Recheck, Probe, Abort,
         ReadSockets, Goto, Raise, Watching
<1>3. UNCHANGED <<proc, cursor, aim, ending>>
  BY DEF Identified, ReadListeners, ReadMembers, Compare, ReadAgain, Recheck, Probe, Abort,
         ReadSockets, world, reading, killing
<1>4. Typed' /\ InOrder'
  BY <1>3, SameQuiet, QuietKeeps DEF IInv
<1>5. members' \in {members, NoMembers} \/ ReadMembers
  BY DEF Identified, ReadListeners, Compare, ReadAgain, Recheck, Probe, Abort, ReadSockets,
         Raise, Forget, reading
<1>6. Read'
  <2>1. CASE members' \in {members, NoMembers}
    BY <2>1 DEF Read, NoMembers, IInv
  <2>2. CASE ReadMembers
    <3>1. members' = NoMembers \/
          members' = [p \in Group |-> [life |-> proc[p].life, parent |-> proc[p].parent, dead |-> ~Live(p)]]
      BY <2>2 DEF ReadMembers, Raise, Forget
    <3> QED
      BY <3>1 DEF Read, NoMembers, Group, IInv, Typed, Member
  <2> QED
    BY <1>5, <2>1, <2>2
<1> QED
  BY <1>1, <1>2, <1>3, <1>4, <1>6, WatchKeeps

LEMMA StartStep == ASSUME IInv, NEW p \in Pids, Start(p) PROVE IInv'
<1>1. /\ stage = "entered" /\ stage' = "identity"
      /\ UNCHANGED <<members, cursor, aim, ending>>
  BY DEF Start, reading, killing
<1>2. Typed' /\ InOrder'
  BY Spawned DEF Start, IInv
<1> QED
  BY <1>1, <1>2, WatchKeeps DEF Watching, IInv, Read

-----------------------------------------------------------------------------
(* The cleanup *)

LEMMA ReapStep == ASSUME IInv, Reap PROVE IInv'
<1>1. /\ stage = "cleanup" /\ stage' = "scan" /\ members' = NoMembers /\ cursor' = 0
      /\ UNCHANGED <<aim, ending>>
  BY DEF Reap, Goto, killing
<1>2. Quiet
  <2> DEFINE P == {p \in Pids : proc[p].state = "zombie" /\ proc[p].owned /\ proc[p].parent = Coordinator}
  <2>1. proc' = [p \in Pids |-> IF p \in P THEN [proc[p] EXCEPT !.state = "free"] ELSE proc[p]]
    BY DEF Reap
  <2> HIDE DEF P
  <2> QED
    BY <2>1, FreedQuiet DEF IInv
<1>3. Typed' /\ InOrder'
  BY <1>2, QuietKeeps DEF IInv
<1> QED
  BY <1>1, <1>3, PidsAreNumbers DEF IInv, Read, NoMembers, Aimed, Scanned, Ended, Cleaning, ending

\* An id that is passed has no process, or one that is not a member.
LEMMA ScanStep == ASSUME IInv, NEW p \in Pids, Scan(p) PROVE IInv'
<1>1. /\ stage = "scan" /\ stage' = stage /\ cursor' = p /\ p > cursor /\ Exists(p)
      /\ \A q \in cursor + 1 .. p - 1 : ~Exists(q)
      /\ UNCHANGED <<proc, aim, ending>>
  BY DEF Scan, world, killing
<1>2. Typed' /\ InOrder' /\ \A q \in Pids : Member(q)' => Member(q)
  BY <1>1, SameQuiet, QuietKeeps DEF IInv
<1>3. CASE proc[p].owned
  <2>1. members' = [q \in DOMAIN members \cup {p} |->
                      IF q = p THEN [life |-> proc[p].life, dead |-> ~Live(p)] ELSE members[q]]
    BY <1>3 DEF Scan
  <2>2. Read' /\ DOMAIN members' # {}
    BY <1>1, <1>3, <2>1 DEF IInv, Read, Typed, Member
  <2> QED
    BY <1>1, <1>2, <2>2, PidsAreNumbers DEF IInv, Aimed, Scanned, Ended, ending
<1>4. CASE ~proc[p].owned
  <2>1. members' = members
    BY <1>4 DEF Scan
  <2>2. Scanned'
    <3> SUFFICES ASSUME DOMAIN members = {}, NEW q \in Pids, Member(q) PROVE q > p
      BY <1>1, <1>2, <2>1, PidsAreNumbers DEF Scanned
    <3>1. q > cursor /\ cursor \in Nat
      BY <1>1 DEF IInv, Scanned
    <3>2. q # p /\ q \notin cursor + 1 .. p - 1
      BY <1>1, <1>4 DEF Member
    <3> QED
      BY <3>1, <3>2, PidsAreNumbers
  <2> QED
    BY <1>1, <1>2, <2>1, <2>2 DEF IInv, Read, Aimed, Ended, ending
<1> QED
  BY <1>3, <1>4

\* Steps of the cleanup that leave the processes and drop at most members.
LEMMA CleanKeeps ==
    ASSUME IInv, UNCHANGED proc, cursor' \in {cursor, 0},
           stage' \in {"decide", "cleanup", "check", "open", "done"}, stage # "done",
           stage' = "decide" => stage = "scan" /\ members' = members
                                /\ \A q \in Pids : q > cursor => ~Exists(q),
           Read', aim' \in [pid : Pids \cup {0}, fd : 0 .. 2],
           stage' = "open" => aim'.pid \in DOMAIN members',
           harmed' = harmed, complete' => stage' = "done" /\ \A p \in Pids : ~Member(p)
    PROVE  IInv'
<1>1. Typed' /\ InOrder' /\ \A q \in Pids : Member(q)' => Member(q)
  BY SameQuiet, QuietKeeps DEF IInv
<1>2. Aimed'
  BY DEF Aimed
<1>3. Scanned'
  BY <1>1 DEF IInv, Scanned, Member
<1> QED
  BY <1>1, <1>2, <1>3 DEF IInv, Ended, Cleaning

LEMMA DropKeeps == ASSUME Read, NEW p, Drop(p) PROVE Read'
  BY DEF Read, Drop

LEMMA RoundSteps ==
    ASSUME IInv, ScanEnds \/ Confirm \/ Decide \/ Round \/ Late
    PROVE  IInv'
<1>0. \/ UNCHANGED <<world, members, killing, ending>> /\ cursor' = 0 /\ ScanEnds
      \/ UNCHANGED <<world, reading, harmed>> /\ aim' = NoAim /\ (Confirm \/ Late)
      \/ UNCHANGED <<world, reading, aim, ending>> /\ (Decide \/ Round)
  <2>1. Confirm => UNCHANGED <<world, reading, harmed>> /\ aim' = NoAim
    BY Zenon DEF Confirm, Restore
  <2>2. Late => UNCHANGED <<world, reading, harmed>> /\ aim' = NoAim
    BY DEF Late, Fail, Restore
  <2>3. ScanEnds => UNCHANGED <<world, members, killing, ending>> /\ cursor' = 0
    BY DEF ScanEnds
  <2>4. Decide \/ Round => UNCHANGED <<world, reading, aim, ending>>
    BY DEF Decide, Round, killing
  <2> QED
    BY <2>1, <2>2, <2>3, <2>4
<1>1. UNCHANGED <<proc, members, harmed>> /\ Read'
  BY <1>0 DEF world, reading, ending, IInv, Read
<1>2. aim' \in {aim, NoAim} /\ aim' \in [pid : Pids \cup {0}, fd : 0 .. 2] /\ cursor' \in {cursor, 0}
  BY <1>0 DEF reading, killing, IInv, Aimed, NoAim
<1>3. stage \in Cleaning /\ (stage # "done" => ~complete)
  BY DEF ScanEnds, Confirm, Decide, Round, Late, Cleaning, IInv, Ended
<1>4. CASE ScanEnds
  BY <1>1, <1>2, <1>3, <1>4, CleanKeeps DEF ScanEnds, ending, Cleaning
<1>5. CASE Confirm
  <2>1. \A p \in Pids : ~Member(p)
    BY <1>5 DEF Confirm, IInv, Scanned
  <2> QED
    BY <1>1, <1>2, <1>5, <2>1, CleanKeeps DEF Confirm, Restore
<1>6. CASE Decide \/ Round
  BY <1>1, <1>2, <1>3, <1>6, CleanKeeps DEF Decide, Round, ending, Cleaning
<1>7. CASE Late
  BY <1>1, <1>2, <1>7, CleanKeeps DEF Late, Fail, Restore
<1> QED
  BY <1>4, <1>5, <1>6, <1>7

\* A signal that is given up: what is left are members, and no aim.
LEMMA GivenUp ==
    ASSUME IInv, UNCHANGED <<proc, cursor, harmed>>, stage \in Cleaning, Read',
           \/ stage' = "check" /\ aim' \in {aim, NoAim} /\ complete' = complete
           \/ stage' = "done" /\ aim' = NoAim /\ complete' = FALSE
    PROVE  IInv'
<1>1. aim' \in [pid : Pids \cup {0}, fd : 0 .. 2]
  BY DEF IInv, Aimed, NoAim
<1>2. ~complete' /\ stage # "done"
  BY DEF IInv, Ended, Cleaning
<1> QED
  BY <1>1, <1>2, CleanKeeps

LEMMA CheckStep == ASSUME IInv, NEW p \in Pids, CheckIdentity(p) PROVE IInv'
<1>1. stage = "check" /\ p \in DOMAIN members /\ UNCHANGED <<proc, cursor>> /\ stage \in Cleaning
  BY DEF CheckIdentity, Next1, Targets, world, Cleaning
<1>2. CASE Same(p)
  <2>1. stage' = "open" /\ aim' = [pid |-> p, fd |-> 0] /\ members' = members /\ UNCHANGED <<complete, harmed>>
    BY <1>2 DEF CheckIdentity, Same, ending
  <2>2. Read' /\ ~complete
    BY <1>1, <2>1 DEF IInv, Read, Ended
  <2> QED
    BY <1>1, <2>1, <2>2, CleanKeeps
<1>3. CASE ~Same(p) /\ ~Exists(p)
  <2>1. Drop(p) /\ UNCHANGED <<stage, aim, complete, harmed>>
    BY <1>3 DEF CheckIdentity, ending
  <2> QED
    BY <1>1, <2>1, DropKeeps, GivenUp DEF IInv
<1>4. CASE ~Same(p) /\ Exists(p)
  <2>1. Fail /\ members' = members
    BY <1>4 DEF CheckIdentity
  <2>2. Read'
    BY <2>1 DEF IInv, Read
  <2> QED
    BY <1>1, <2>1, <2>2, GivenUp DEF Fail, Restore
<1> QED
  BY <1>2, <1>3, <1>4

LEMMA OpenStep == ASSUME IInv, OpenPidfd PROVE IInv'
<1>1. /\ stage = "open" /\ stage \in Cleaning /\ UNCHANGED <<proc, cursor, ending>>
      /\ aim.pid \in DOMAIN members /\ aim.pid \in Pids
  BY DEF OpenPidfd, world, Cleaning, IInv, Aimed, Read
<1>2. CASE Exists(aim.pid)
  <2>1. stage' = "verify" /\ aim' = [aim EXCEPT !.fd = proc[aim.pid].life] /\ members' = members
    BY <1>2 DEF OpenPidfd
  <2>2. aim'.pid = aim.pid /\ aim'.fd = proc[aim.pid].life /\ aim' \in [pid : Pids \cup {0}, fd : 0 .. 2]
    BY <1>1, <2>1 DEF IInv, Aimed, Typed
  <2>3. Aimed'
    BY <1>1, <1>2, <2>1, <2>2 DEF Aimed, IInv, Typed
  <2>4. Typed' /\ InOrder'
    BY <1>1, SameQuiet, QuietKeeps DEF IInv
  <2> QED
    BY <1>1, <2>1, <2>3, <2>4 DEF IInv, Read, Scanned, Ended, Cleaning, ending
<1>3. CASE ~Exists(aim.pid)
  <2>1. stage' = "check" /\ aim' = NoAim /\ Drop(aim.pid)
    BY <1>3 DEF OpenPidfd
  <2> QED
    BY <1>1, <2>1, DropKeeps, GivenUp DEF IInv, ending
<1> QED
  BY <1>2, <1>3

\* The first life is still there after the pidfd was opened: the pidfd holds it.
LEMMA VerifyStep == ASSUME IInv, VerifyIdentity PROVE IInv'
<1>1. /\ stage = "verify" /\ stage \in Cleaning /\ UNCHANGED <<proc, cursor>>
      /\ aim.pid \in DOMAIN members /\ aim.pid \in Pids
  BY DEF VerifyIdentity, world, Cleaning, IInv, Aimed, Read
<1>2. CASE Same(aim.pid)
  <2>1. stage' = "send" /\ UNCHANGED <<members, aim, ending>>
    BY <1>2 DEF VerifyIdentity, Same
  <2>2. aim.fd > 0 /\ aim.fd <= 1 /\ aim.fd \in 0 .. 2
    BY <1>1, <1>2 DEF IInv, Aimed, Read, Same
  <2>3. Aimed'
    BY <1>1, <2>1, <2>2 DEF Aimed, IInv
  <2>4. Typed' /\ InOrder'
    BY <1>1, SameQuiet, QuietKeeps DEF IInv
  <2> QED
    BY <1>1, <2>1, <2>3, <2>4 DEF IInv, Read, Scanned, Ended, Cleaning, ending
<1>3. CASE ~Same(aim.pid) /\ ~Exists(aim.pid)
  <2>1. stage' = "check" /\ aim' = NoAim /\ Drop(aim.pid) /\ UNCHANGED <<complete, harmed>>
    BY <1>3 DEF VerifyIdentity, ending
  <2> QED
    BY <1>1, <2>1, DropKeeps, GivenUp DEF IInv
<1>4. CASE ~Same(aim.pid) /\ Exists(aim.pid)
  <2>1. Fail /\ members' = members
    BY <1>4 DEF VerifyIdentity
  <2>2. Read'
    BY <2>1 DEF IInv, Read
  <2> QED
    BY <1>1, <2>1, <2>2, GivenUp DEF Fail, Restore
<1> QED
  BY <1>2, <1>3, <1>4

LEMMA SendStep == ASSUME IInv, Send PROVE IInv'
<1>1. /\ stage = "send" /\ stage' = "check" /\ aim.pid \in Pids /\ aim.fd = 1
      /\ aim' = NoAim /\ Drop(aim.pid) /\ UNCHANGED <<cursor, complete>>
  BY DEF Send, Goto, IInv, Aimed, Read
<1>2. aim.fd = proc[aim.pid].life /\ Live(aim.pid) => proc[aim.pid].owned
  BY <1>1 DEF IInv, Typed, Member, Exists, Live
<1>3. ~harmed'
  BY <1>2 DEF Send, IInv, Ended
<1>4. Quiet
  <2>1. CASE proc' = proc
    BY <2>1, SameQuiet DEF IInv
  <2>2. CASE Live(aim.pid) /\ proc' = Gone(aim.pid)
    BY <1>1, <2>2, GoneQuiet DEF IInv
  <2> QED
    BY <2>1, <2>2 DEF Send
<1>5. Typed' /\ InOrder'
  BY <1>4, QuietKeeps DEF IInv
<1>6. Read'
  BY <1>1, DropKeeps DEF IInv
<1>7. Aimed' /\ Scanned'
  BY <1>1 DEF IInv, Aimed, Scanned, NoAim
<1>8. Ended'
  BY <1>1, <1>3 DEF IInv, Ended, Cleaning
<1> QED
  BY <1>5, <1>6, <1>7, <1>8 DEF IInv

LEMMA StepIInv == ASSUME IInv, [Next]_vars PROVE IInv'
<1>1. CASE GraceEnds \/ UNCHANGED vars
  <2>1. proc' = proc /\ UNCHANGED <<stage, reading, aim, ending>>
    BY <1>1 DEF GraceEnds, vars, world, killing
  <2> QED
    BY <2>1, SameQuiet, QuietStep DEF IInv
<1>2. CASE Session
  BY <1>2, WatchSteps, StartStep, ReapStep, ScanStep, RoundSteps, CheckStep, OpenStep, VerifyStep,
     SendStep DEF Session
<1>3. CASE Abort \/ Late
  BY <1>3, WatchSteps, RoundSteps
<1>4. ASSUME NEW p \in Pids,
             \/ Exit(p) \/ ReapedByParent(p) \/ Reuse(p) \/ (\E q \in Pids : Fork(p, q))
             \/ (\E a \in Addresses : Bind(p, a))
      PROVE  IInv'
  BY <1>4, WorldSteps
<1> QED
  BY <1>1, <1>2, <1>3, <1>4 DEF Next

LEMMA Invariant == Spec => []IInv
<1>1. IInv /\ [Next]_vars => IInv'
  BY StepIInv
<1> QED
  BY InitIInv, <1>1, PTL DEF Spec

-----------------------------------------------------------------------------
(* The wait: its invariant *)

Shapes == \A p \in Pids : proc[p].state \in {"free", "live", "zombie"} /\ "origin" \in DOMAIN proc[p]

States ==
    /\ started \in Seq([role : DOMAIN Expected, pid : Pids, life : {1}])
    /\ Len(started) <= Len(Roles)
    /\ cursor \in 0 .. MaxPid
    /\ first \in BOOLEAN /\ grace \in BOOLEAN /\ complete \in BOOLEAN

\* A process whose parent is not the coordinator is of the origin of its parent, which lives.
Kin ==
    \A p \in Pids : Member(p) /\ proc[p].parent # Coordinator =>
        /\ proc[p].parent \in Pids \ {p} /\ Live(proc[p].parent) /\ proc[proc[p].parent].owned
        /\ proc[proc[p].parent].origin = proc[p].origin

Known ==
    /\ \A i \in DOMAIN started :
         /\ proc[started[i].pid].life > 0
         /\ proc[started[i].pid].life = 1 => proc[started[i].pid].origin = started[i].role
    /\ \A p \in DOMAIN members : proc[p].life > 0

\* Of one socket: who holds it lives, and all are of one origin.
Socket(a) ==
    /\ DOMAIN bound[a] = {"inode", "holders"} /\ bound[a].inode \in 0 .. inodes
    /\ bound[a].inode = 0 <=> bound[a].holders = {}
    /\ \A p \in bound[a].holders : p \in Pids /\ Live(p)
    /\ \A p, q \in bound[a].holders : proc[p].origin = proc[q].origin

Sockets ==
    /\ DOMAIN bound = Addresses
    /\ \A a \in Addresses : Socket(a)
    /\ \A a, b \in Addresses : bound[a].inode = bound[b].inode /\ bound[a].inode # 0 => a = b

\* What has been read of sockets is about sockets that were opened.
Numbers ==
    /\ inodes \in 0 .. MaxInodes /\ seen \subseteq 1 .. inodes
    /\ DOMAIN tcp = Addresses /\ \A a \in Addresses : tcp[a] \in 0 .. inodes
    /\ DOMAIN fds \subseteq Pids /\ \A p \in DOMAIN fds : fds[p] \subseteq 0 .. inodes

Reading == stage = "sockets" =>
    /\ \A p \in DOMAIN members : proc[p].life = 1 => RoleOf(p) \in {"none", proc[p].origin}
    /\ \A i \in DOMAIN started : started[i].pid \in DOMAIN members /\ ~members[started[i].pid].dead
    /\ DOMAIN fds \subseteq DOMAIN members
    /\ \A p \in DOMAIN fds : \A a \in Addresses :
         /\ bound[a].inode # 0 /\ bound[a].inode \in fds[p] =>
              \A h \in bound[a].holders : RoleOf(p) \in {"none", proc[h].origin}
         /\ p \in bound[a].holders /\ bound[a].inode = tcp[a] /\ tcp[a] # 0 => tcp[a] \in fds[p]

Verdict == stage = "again" => \A a \in Addresses :
    /\ Wanted(a) # {} => tcp[a] # 0
    /\ bound[a].inode = tcp[a] /\ tcp[a] # 0 => \A h \in bound[a].holders :
         /\ Wanted(a) # {} => Wanted(a) = {proc[h].origin}
         /\ h \in Frontends => Wanted(a) # {}

WInv == Shapes /\ States /\ Kin /\ Known /\ Sockets /\ Numbers /\ Reading /\ Verdict

LEMMA InitWInv == Init => WInv
<1> SUFFICES ASSUME Init PROVE WInv
  OBVIOUS
<1>1. /\ \A p \in Pids : proc[p] = Unused
      /\ \A a \in Addresses : bound[a] = Unbound /\ tcp[a] = 0
      /\ DOMAIN bound = Addresses /\ DOMAIN tcp = Addresses
      /\ inodes = 0 /\ seen = {} /\ DOMAIN fds = {} /\ DOMAIN members = {} /\ started = <<>>
      /\ stage = "entered" /\ cursor = 0 /\ first = TRUE /\ grace = FALSE /\ complete = FALSE
  BY DEF Init, NoMembers
<1>2. Shapes /\ Kin /\ Known
  BY <1>1 DEF Shapes, Kin, Known, Unused, Member, Exists
<1>4. started \in Seq([role : DOMAIN Expected, pid : Pids, life : {1}]) /\ Len(started) <= Len(Roles)
  BY <1>1, ConstantsAssumption
<1>5. States
  <2>1. cursor \in 0 .. MaxPid
    BY <1>1, ConstantsAssumption
  <2> QED
    BY <1>1, <1>4, <2>1 DEF States
<1>3. Sockets /\ Numbers /\ Reading /\ Verdict
  BY <1>1, ConstantsAssumption DEF Sockets, Socket, Numbers, Reading, Verdict, Unbound
<1> QED
  BY <1>2, <1>3, <1>5 DEF WInv

-----------------------------------------------------------------------------
(* The wait: what processes do *)

\* A first life that goes on is what it was.
Aging ==
    \A p \in Pids : proc[p].life > 0 =>
        /\ proc'[p].life > 0
        /\ proc'[p].life = 1 => proc[p].life = 1 /\ proc'[p].origin = proc[p].origin

\* A socket that stays is held by who held it, and by processes forked just now.
Holding ==
    \A a \in Addresses :
        \/ bound'[a].inode = 0
        \/ bound'[a].inode > inodes
        \/ /\ bound'[a].inode = bound[a].inode
           /\ \A h \in bound'[a].holders :
                /\ \E k \in bound[a].holders : proc'[h].origin = proc[k].origin
                /\ h \in Pids /\ (proc[h].life > 0 => h \in bound[a].holders)

LEMMA StartedOf ==
    ASSUME NEW R, NEW s \in Seq(R), NEW i \in DOMAIN s
    PROVE  s[i] \in R
  OBVIOUS

LEMMA StartedPids == ASSUME WInv PROVE \A i \in DOMAIN started : started[i].pid \in Pids
<1> DEFINE R == [role : DOMAIN Expected, pid : Pids, life : {1}]
<1>1. started \in Seq(R)
  BY DEF WInv, States
<1>2. \A r \in R : r.pid \in Pids
  OBVIOUS
<1> HIDE DEF R
<1> QED
  BY <1>1, <1>2, StartedOf

LEMMA SameRoles ==
    ASSUME UNCHANGED <<started, members>>, NEW p
    PROVE  RoleOf(p)' = RoleOf(p)
  BY DEF RoleOf, Family, Frontends

LEMMA WorldKeeps ==
    ASSUME IInv, WInv, Aging, Holding, UNCHANGED <<stage, started, members, fds, tcp>>
    PROVE  Known' /\ Reading' /\ Verdict'
<1>1. Known'
  <2>1. \A i \in DOMAIN started : started[i].pid \in Pids
    BY StartedPids
  <2> QED
    BY <2>1 DEF IInv, WInv, Known, Aging, Read
<1>2. ASSUME NEW a \in Addresses, NEW i \in 1 .. inodes, bound'[a].inode = i, NEW h \in bound'[a].holders
      PROVE  /\ bound[a].inode = i /\ h \in Pids
             /\ \E k \in bound[a].holders : proc'[h].origin = proc[k].origin
             /\ proc[h].life > 0 => h \in bound[a].holders
  <2>1. inodes \in Nat
    BY ConstantsAssumption DEF WInv, Numbers
  <2>2. bound'[a].inode # 0 /\ ~(bound'[a].inode > inodes)
    BY <1>2, <2>1
  <2> QED
    BY <1>2, <2>2 DEF Holding
<1>3. Reading'
  <2> SUFFICES ASSUME stage = "sockets" PROVE Reading'
    BY DEF Reading
  <2>1. \A p \in DOMAIN members : proc'[p].life = 1 => RoleOf(p)' \in {"none", proc'[p].origin}
    BY SameRoles DEF WInv, Reading, Known, Aging, IInv, Read
  <2>2. ASSUME NEW p \in DOMAIN fds, NEW a \in Addresses, bound'[a].inode # 0, bound'[a].inode \in fds[p],
               NEW h \in bound'[a].holders
        PROVE  RoleOf(p)' \in {"none", proc'[h].origin}
    <3>1. bound'[a].inode \in 1 .. inodes
      BY <2>2, ConstantsAssumption DEF WInv, Numbers
    <3>2. PICK k \in bound[a].holders : proc'[h].origin = proc[k].origin
      BY <1>2, <3>1
    <3>3. bound[a].inode = bound'[a].inode
      BY <1>2, <3>1
    <3>4. RoleOf(p) \in {"none", proc[k].origin}
      BY <2>2, <3>3 DEF WInv, Reading
    <3> QED
      BY <3>2, <3>4, SameRoles
  <2>3. ASSUME NEW p \in DOMAIN fds, NEW a \in Addresses, p \in bound'[a].holders, bound'[a].inode = tcp[a],
               tcp[a] # 0
        PROVE  tcp[a] \in fds[p]
    <3>1. tcp[a] \in 1 .. inodes /\ p \in DOMAIN members
      BY <2>3, ConstantsAssumption DEF WInv, Numbers, Reading
    <3>2. proc[p].life > 0
      BY <3>1 DEF WInv, Known
    <3>3. bound[a].inode = tcp[a] /\ p \in bound[a].holders
      BY <1>2, <2>3, <3>1, <3>2
    <3> QED
      BY <2>3, <3>3 DEF WInv, Reading
  <2> QED
    BY <2>1, <2>2, <2>3 DEF WInv, Reading
<1>4. Verdict'
  <2> SUFFICES ASSUME stage = "again", NEW a \in Addresses
               PROVE  /\ Wanted(a) # {} => tcp[a] # 0
                      /\ bound'[a].inode = tcp[a] /\ tcp[a] # 0 => \A h \in bound'[a].holders :
                           /\ Wanted(a) # {} => Wanted(a) = {proc'[h].origin}
                           /\ h \in Frontends => Wanted(a) # {}
    BY DEF Verdict, Frontends, Wanted
  <2>1. Wanted(a) # {} => tcp[a] # 0
    BY DEF WInv, Verdict
  <2>2. ASSUME bound'[a].inode = tcp[a], tcp[a] # 0, NEW h \in bound'[a].holders
        PROVE  /\ Wanted(a) # {} => Wanted(a) = {proc'[h].origin}
               /\ h \in Frontends => Wanted(a) # {}
    <3>1. tcp[a] \in 1 .. inodes
      BY <2>2, ConstantsAssumption DEF WInv, Numbers
    <3>2. /\ bound[a].inode = tcp[a] /\ h \in Pids
          /\ \E k \in bound[a].holders : proc'[h].origin = proc[k].origin
          /\ proc[h].life > 0 => h \in bound[a].holders
      BY <1>2, <2>2, <3>1
    <3>3. h \in Frontends => proc[h].life > 0
      BY DEF WInv, Known, Frontends
    <3> QED
      BY <2>2, <3>2, <3>3 DEF WInv, Verdict
  <2> QED
    BY <2>1, <2>2
<1> QED
  BY <1>1, <1>3, <1>4

Alike == Shapes' /\ Kin' /\ Aging

LEMMA SameAlike == ASSUME IInv, WInv, proc' = proc PROVE Alike
  BY Zenon DEF Alike, WInv, Shapes, Kin, Aging, Member, Exists, Live

LEMMA GoneAlike == ASSUME IInv, WInv, NEW p \in Pids, Live(p), proc' = Gone(p) PROVE Alike
<1>1. /\ proc'[p].state = "zombie" /\ proc'[p].owned = proc[p].owned /\ proc'[p].parent = proc[p].parent
      /\ proc'[p].life = proc[p].life /\ proc'[p].origin = proc[p].origin /\ "origin" \in DOMAIN proc'[p]
  BY DEF Gone, IInv, Typed, WInv, Shapes
<1>2. \A q \in Pids \ {p} :
        /\ proc'[q].state = proc[q].state /\ proc'[q].owned = proc[q].owned
        /\ proc'[q].life = proc[q].life /\ proc'[q].origin = proc[q].origin /\ "origin" \in DOMAIN proc'[q]
        /\ proc'[q].parent = IF proc[q].parent = p THEN Coordinator ELSE proc[q].parent
  BY DEF Gone, IInv, Typed, WInv, Shapes
<1>3. Shapes' /\ Aging
  BY <1>1, <1>2 DEF WInv, Shapes, Aging
<1>4. Kin'
  <2> SUFFICES ASSUME NEW q \in Pids, Member(q)', proc'[q].parent # Coordinator
               PROVE  /\ proc'[q].parent \in Pids \ {q} /\ proc'[proc'[q].parent].state = "live"
                      /\ proc'[proc'[q].parent].owned
                      /\ proc'[proc'[q].parent].origin = proc'[q].origin
    BY DEF Kin, Live
  <2>1. Member(q)
    BY <1>1, <1>2 DEF Member, Exists, Live
  <2>2. proc'[q].parent = proc[q].parent
    BY <1>1, <1>2
  <2>3. /\ proc[q].parent \in Pids \ {q} /\ Live(proc[q].parent) /\ proc[proc[q].parent].owned
        /\ proc[proc[q].parent].origin = proc[q].origin
    BY <2>1, <2>2 DEF WInv, Kin
  <2>4. proc[q].parent # p
    BY <1>1, <1>2, <2>1, <2>2, <2>3 DEF Live
  <2> QED
    BY <1>1, <1>2, <2>2, <2>3, <2>4 DEF Live
<1> QED
  BY <1>3, <1>4 DEF Alike

\* Nobody is the child of a zombie.
LEMMA FreedAlike ==
    ASSUME IInv, WInv, NEW P, \A p \in P \cap Pids : proc[p].state = "zombie",
           proc' = [p \in Pids |-> IF p \in P THEN [proc[p] EXCEPT !.state = "free"] ELSE proc[p]]
    PROVE  Alike
<1>1. \A q \in Pids :
        /\ proc'[q].state = IF q \in P THEN "free" ELSE proc[q].state
        /\ proc'[q].owned = proc[q].owned /\ proc'[q].parent = proc[q].parent
        /\ proc'[q].life = proc[q].life /\ proc'[q].origin = proc[q].origin /\ "origin" \in DOMAIN proc'[q]
  BY DEF IInv, Typed, WInv, Shapes
<1>2. Shapes' /\ Aging
  BY <1>1 DEF WInv, Shapes, Aging
<1>3. Kin'
  BY <1>1 DEF WInv, Kin, Member, Exists, Live
<1> QED
  BY <1>2, <1>3 DEF Alike

LEMMA ReuseAlike == ASSUME IInv, WInv, NEW p \in Pids, Reuse(p) PROVE Alike
<1>1. /\ proc'[p].state = "live" /\ ~proc'[p].owned /\ proc'[p].life = 2 /\ proc[p].state = "free"
      /\ "origin" \in DOMAIN proc'[p] /\ \A q \in Pids \ {p} : proc'[q] = proc[q]
  BY DEF Reuse, IInv, Typed, Exists
<1>2. Shapes' /\ Aging
  BY <1>1 DEF WInv, Shapes, Aging
<1>3. Kin'
  BY <1>1 DEF WInv, Kin, Member, Exists, Live
<1> QED
  BY <1>2, <1>3 DEF Alike

LEMMA SpawnAlike ==
    ASSUME IInv, WInv, NEW q \in Pids, Fresh(q), NEW parent, NEW origin, proc' = Spawn(q, parent, origin),
           parent # Coordinator => /\ parent \in Pids /\ Live(parent) /\ proc[parent].owned
                                   /\ proc[parent].origin = origin
    PROVE  Alike /\ ~Exists(q) /\ proc'[q].life = 1 /\ proc'[q].origin = origin
<1>1. /\ proc'[q].state = "live" /\ proc'[q].owned /\ proc'[q].life = 1 /\ proc'[q].origin = origin
      /\ proc'[q].parent = parent /\ "origin" \in DOMAIN proc'[q]
      /\ proc[q].life = 0 /\ ~Exists(q) /\ \A p \in Pids \ {q} : proc'[p] = proc[p]
  BY DEF Spawn, Fresh, IInv, Typed, Exists
<1>2. Shapes' /\ Aging
  BY <1>1 DEF WInv, Shapes, Aging
<1>3. Kin'
  BY <1>1 DEF WInv, Kin, Member, Exists, Live
<1> QED
  BY <1>1, <1>2, <1>3 DEF Alike

\* Who lives goes on as it is.
Lasting == \A p \in Pids : Live(p) => proc'[p].state = "live" /\ proc'[p].origin = proc[p].origin

LEMMA SameSockets ==
    ASSUME IInv, WInv, Lasting, UNCHANGED <<bound, inodes>>
    PROVE  Sockets' /\ Holding
<1>1. Sockets'
  BY DEF WInv, Sockets, Socket, Lasting, Live
<1>2. Holding
  BY DEF WInv, Sockets, Socket, Lasting, Holding
<1> QED
  BY <1>1, <1>2

LEMMA WithoutSockets ==
    ASSUME IInv, WInv, NEW p \in Pids, Live(p), proc' = Gone(p), bound' = Without(p), inodes' = inodes
    PROVE  Sockets' /\ Holding
<1>1. \A q \in Pids \ {p} : proc'[q].state = proc[q].state /\ proc'[q].origin = proc[q].origin
  BY DEF Gone, IInv, Typed, WInv, Shapes
<1>2. \A a \in Addresses :
        /\ DOMAIN bound'[a] = {"inode", "holders"}
        /\ bound'[a].holders = bound[a].holders \ {p}
        /\ bound'[a].inode = IF bound[a].holders = {p} THEN 0 ELSE bound[a].inode
  BY DEF Without, WInv, Sockets, Socket, Unbound
<1>3. inodes \in Nat
  BY ConstantsAssumption DEF WInv, Numbers
<1>4. ASSUME NEW a \in Addresses PROVE Socket(a)'
  BY <1>1, <1>2, <1>3 DEF WInv, Sockets, Socket, Live
<1>5. Sockets'
  BY <1>2, <1>4 DEF WInv, Sockets, Without
<1>6. Holding
  BY <1>1, <1>2 DEF WInv, Sockets, Socket, Holding
<1> QED
  BY <1>5, <1>6

LEMMA ForkSockets ==
    ASSUME IInv, WInv, NEW p \in Pids, NEW q \in Pids, Fork(p, q)
    PROVE  Sockets' /\ Holding
<1>1. /\ proc'[q].state = "live" /\ proc'[q].origin = proc[p].origin /\ proc[q].life = 0 /\ ~Live(q)
      /\ \A r \in Pids \ {q} : proc'[r] = proc[r]
  BY DEF Fork, Spawn, Fresh, IInv, Typed, Exists, Live
<1>2. \A a \in Addresses :
        /\ DOMAIN bound'[a] = {"inode", "holders"} /\ bound'[a].inode = bound[a].inode
        /\ \A r : r \in bound'[a].holders <=> r \in bound[a].holders \/ (r = q /\ p \in bound[a].holders)
  <2> SUFFICES ASSUME NEW a \in Addresses
               PROVE  /\ DOMAIN bound'[a] = {"inode", "holders"} /\ bound'[a].inode = bound[a].inode
                      /\ \A r : r \in bound'[a].holders
                                <=> r \in bound[a].holders \/ (r = q /\ p \in bound[a].holders)
    OBVIOUS
  <2>1. bound'[a] = IF p \in bound[a].holders THEN [bound[a] EXCEPT !.holders = @ \cup {q}] ELSE bound[a]
    BY DEF Fork
  <2>2. DOMAIN bound[a] = {"inode", "holders"}
    BY DEF WInv, Sockets, Socket
  <2>3. CASE p \in bound[a].holders
    BY <2>1, <2>2, <2>3
  <2>4. CASE p \notin bound[a].holders
    <3>1. bound'[a] = bound[a]
      BY <2>1, <2>4
    <3> QED
      BY <3>1, <2>2, <2>4
  <2> QED
    BY <2>3, <2>4
<1>3. inodes' = inodes /\ DOMAIN bound' = Addresses
  BY DEF Fork
<1>4. ASSUME NEW a \in Addresses
      PROVE  /\ bound[a].inode \in 0 .. inodes /\ (bound[a].inode = 0 <=> bound[a].holders = {})
             /\ \A r \in bound[a].holders : r \in Pids \ {q} /\ proc[r].state = "live" /\ proc'[r] = proc[r]
             /\ \A r, t \in bound[a].holders : proc[r].origin = proc[t].origin
  BY <1>1 DEF WInv, Sockets, Socket, Live
<1>5. ASSUME NEW a \in Addresses PROVE Socket(a)'
  <2>1. \A r \in bound'[a].holders : r \in Pids /\ proc'[r].state = "live"
    BY <1>1, <1>2, <1>4
  <2>2. \A r \in bound'[a].holders : r \in bound[a].holders \/ (r = q /\ p \in bound[a].holders)
    BY <1>2
  <2>3. \A r, t \in bound'[a].holders : proc'[r].origin = proc'[t].origin
    BY <1>1, <1>4, <2>2
  <2>4. bound'[a].inode \in 0 .. inodes' /\ (bound'[a].inode = 0 <=> bound'[a].holders = {})
    <3>1. bound'[a].holders = {} <=> bound[a].holders = {}
      BY <1>2
    <3> QED
      BY <1>2, <1>3, <1>4, <3>1
  <2> QED
    BY <1>2, <2>1, <2>3, <2>4 DEF Socket, Live
<1>6. Sockets'
  BY <1>2, <1>3, <1>5 DEF WInv, Sockets
<1>7. Holding
  <2> SUFFICES ASSUME NEW a \in Addresses, NEW h \in bound'[a].holders
               PROVE  /\ \E k \in bound[a].holders : proc'[h].origin = proc[k].origin
                      /\ h \in Pids /\ (proc[h].life > 0 => h \in bound[a].holders)
    BY <1>2 DEF Holding
  <2>1. CASE h \in bound[a].holders
    BY <1>4, <2>1
  <2>2. CASE h = q /\ p \in bound[a].holders
    BY <1>1, <2>2
  <2> QED
    BY <1>2, <2>1, <2>2
<1> QED
  BY <1>6, <1>7

\* A new socket has a number of its own.
LEMMA BindSockets ==
    ASSUME IInv, WInv, NEW p \in Pids, NEW b \in Addresses, Bind(p, b)
    PROVE  Sockets' /\ Holding
<1>1. /\ Live(p) /\ proc' = proc /\ inodes' = inodes + 1 /\ inodes \in Nat
      /\ bound'[b] = [inode |-> inodes + 1, holders |-> {p}]
      /\ DOMAIN bound' = Addresses /\ \A a \in Addresses \ {b} : bound'[a] = bound[a]
  BY ConstantsAssumption DEF Bind, WInv, Sockets, Numbers
<1>2. \A a \in Addresses : bound[a].inode \in 0 .. inodes
  BY DEF WInv, Sockets, Socket
<1>3. ASSUME NEW a \in Addresses PROVE Socket(a)'
  BY <1>1 DEF WInv, Sockets, Socket, Live
<1>4. Sockets'
  <2>1. bound'[b].inode = inodes + 1
    BY <1>1
  <2> QED
    BY <1>1, <1>2, <1>3, <2>1 DEF WInv, Sockets
<1>5. Holding
  BY <1>1 DEF WInv, Sockets, Socket, Holding
<1> QED
  BY <1>4, <1>5

\* The session does not see it.
LEMMA WorldW ==
    ASSUME IInv, WInv, Alike, Sockets', Holding, UNCHANGED <<stage, started, reading, first, complete>>,
           grace' \in BOOLEAN, inodes' \in {inodes, inodes + 1}, inodes' <= MaxInodes
    PROVE  WInv'
<1>1. UNCHANGED <<members, fds, tcp, seen, cursor>>
  BY DEF reading
<1>2. Known' /\ Reading' /\ Verdict'
  BY <1>1, WorldKeeps DEF Alike
<1>3. States'
  BY <1>1 DEF WInv, States
<1>4. Numbers'
  <2>1. inodes \in Nat /\ MaxInodes \in Nat
    BY ConstantsAssumption DEF WInv, Numbers
  <2>2. inodes' \in 0 .. MaxInodes /\ 0 .. inodes \subseteq 0 .. inodes' /\ 1 .. inodes \subseteq 1 .. inodes'
    BY <2>1
  <2>3. /\ seen \subseteq 1 .. inodes
        /\ DOMAIN tcp = Addresses /\ \A a \in Addresses : tcp[a] \in 0 .. inodes
        /\ DOMAIN fds \subseteq Pids /\ \A p \in DOMAIN fds : fds[p] \subseteq 0 .. inodes
    BY DEF WInv, Numbers
  <2> QED
    BY <1>1, <2>2, <2>3, Zenon DEF Numbers
<1> QED
  BY <1>2, <1>3, <1>4 DEF WInv, Alike

LEMMA WorldStepsW ==
    ASSUME IInv, WInv, NEW p \in Pids,
           \/ Exit(p) \/ ReapedByParent(p) \/ Reuse(p) \/ (\E q \in Pids : Fork(p, q))
           \/ (\E a \in Addresses : Bind(p, a))
    PROVE  WInv'
<1>0. inodes \in 0 .. MaxInodes /\ MaxInodes \in Nat /\ grace \in BOOLEAN
  BY ConstantsAssumption DEF WInv, Numbers, States
<1>1. CASE Exit(p)
  <2>1. Alike /\ Sockets' /\ Holding
    BY <1>1, GoneAlike, WithoutSockets DEF Exit
  <2> QED
    BY <1>0, <1>1, <2>1, WorldW DEF Exit, killing, ending
<1>2. CASE ReapedByParent(p)
  <2>1. /\ proc' = [q \in Pids |-> IF q \in {p} THEN [proc[q] EXCEPT !.state = "free"] ELSE proc[q]]
        /\ proc[p].state = "zombie" /\ UNCHANGED <<bound, inodes>>
    BY <1>2 DEF ReapedByParent, IInv, Typed
  <2>2. Alike
    BY <2>1, FreedAlike
  <2>3. Lasting
    BY <2>1 DEF Lasting, Live, IInv, Typed
  <2> QED
    BY <1>0, <1>2, <2>1, <2>2, <2>3, SameSockets, WorldW DEF ReapedByParent, killing, ending
<1>3. CASE Reuse(p)
  <2>1. Lasting
    BY <1>3 DEF Reuse, Lasting, Live, Exists, IInv, Typed
  <2>2. Alike
    BY <1>3, ReuseAlike
  <2>3. Sockets' /\ Holding
    BY <1>3, <2>1, SameSockets DEF Reuse
  <2> QED
    BY <1>0, <1>3, <2>2, <2>3, WorldW DEF Reuse, killing, ending
<1>4. ASSUME NEW q \in Pids, Fork(p, q) PROVE WInv'
  <2>1. Alike
    BY <1>4, SpawnAlike DEF Fork
  <2>2. Sockets' /\ Holding
    BY <1>4, ForkSockets
  <2> QED
    BY <1>0, <1>4, <2>1, <2>2, WorldW DEF Fork, killing, ending
<1>5. ASSUME NEW a \in Addresses, Bind(p, a) PROVE WInv'
  <2>1. inodes' = inodes + 1 /\ inodes' <= MaxInodes
    BY <1>0, <1>5 DEF Bind
  <2> QED
    BY <1>0, <1>5, <2>1, SameAlike, BindSockets, WorldW DEF Bind, killing, ending
<1> QED
  BY <1>1, <1>2, <1>3, <1>4, <1>5

-----------------------------------------------------------------------------
(* The wait: what the session does *)

\* A step after which nothing has been read of the processes that is still to be used.
LEMMA PlainW ==
    ASSUME IInv, WInv, Alike, Sockets', UNCHANGED <<inodes, started, seen>>,
           tcp' \in {tcp, Snapshot, [a \in Addresses |-> 0]}, fds' \in {fds, NoMembers},
           \A p \in DOMAIN members' : p \in Pids /\ proc[p].life > 0,
           cursor' \in 0 .. MaxPid, {first', grace', complete'} \subseteq BOOLEAN,
           stage' \notin {"sockets", "again"}
    PROVE  WInv'
<1>1. Reading' /\ Verdict'
  BY DEF Reading, Verdict
<1>2. States'
  BY DEF WInv, States
<1>3. Numbers'
  <2>1. DOMAIN tcp' = Addresses /\ \A a \in Addresses : tcp'[a] \in 0 .. inodes
    BY ConstantsAssumption DEF WInv, Numbers, Snapshot, Sockets, Socket
  <2>2. DOMAIN fds' \subseteq Pids /\ \A p \in DOMAIN fds' : fds'[p] \subseteq 0 .. inodes
    BY DEF WInv, Numbers, NoMembers
  <2> QED
    BY <2>1, <2>2 DEF WInv, Numbers
<1>4. Known'
  <2>1. \A i \in DOMAIN started : started[i].pid \in Pids
    BY StartedPids
  <2> QED
    BY <2>1 DEF WInv, Known, Alike, Aging, IInv, Typed
<1> QED
  BY <1>1, <1>2, <1>3, <1>4 DEF WInv, Alike

LEMMA Members == ASSUME IInv, WInv PROVE \A p \in DOMAIN members : p \in Pids /\ proc[p].life > 0
  BY DEF IInv, Read, WInv, Known

LEMMA Flags == ASSUME WInv PROVE cursor \in 0 .. MaxPid /\ 0 \in 0 .. MaxPid /\ {first, grace, complete} \subseteq BOOLEAN
  BY ConstantsAssumption DEF WInv, States

LEMMA SameWorld == ASSUME IInv, WInv, UNCHANGED world PROVE Alike /\ Sockets'
<1>1. Lasting
  BY DEF Lasting, Live, world
<1> QED
  BY <1>1, SameAlike, SameSockets DEF world

LEMMA WaitSteps ==
    ASSUME IInv, WInv, Identified \/ ReadListeners \/ ReadAgain \/ Recheck \/ Probe \/ Abort
    PROVE  WInv'
<1>1. /\ UNCHANGED <<world, inodes, started, seen, cursor, first, grace, complete>>
      /\ tcp' \in {tcp, Snapshot, [a \in Addresses |-> 0]} /\ fds' \in {fds, NoMembers}
      /\ members' \in {members, NoMembers}
  BY DEF Identified, ReadListeners, ReadAgain, Recheck, Probe, Abort, Raise, Forget, world, reading,
         killing, ending
<1>2. stage' \notin {"sockets", "again"}
  BY DEF Identified, ReadListeners, ReadAgain, Recheck, Probe, Abort, Raise, Goto
<1>3. \A p \in DOMAIN members' : p \in Pids /\ proc[p].life > 0
  BY <1>1, Members DEF NoMembers
<1> QED
  BY <1>1, <1>2, <1>3, SameWorld, Flags, PlainW

LEMMA ScanW == ASSUME IInv, WInv, NEW p \in Pids, Scan(p) PROVE WInv'
<1>1. /\ UNCHANGED <<world, inodes, stage, started, tcp, fds, seen, first, grace, complete>>
      /\ stage = "scan" /\ cursor' = p /\ Exists(p)
  BY DEF Scan, world, killing, ending
<1>2. \A q \in DOMAIN members' : q \in DOMAIN members \/ q = p
  BY DEF Scan
<1>3. proc[p].life > 0 /\ p \in 0 .. MaxPid
  BY <1>1, ConstantsAssumption DEF IInv, Typed, Pids
<1> QED
  BY <1>1, <1>2, <1>3, Members, SameWorld, Flags, PlainW

LEMMA DropW == ASSUME NEW p, Drop(p) PROVE DOMAIN members' \subseteq DOMAIN members
  BY DEF Drop

LEMMA CleanSteps ==
    ASSUME IInv, WInv,
           \/ ScanEnds \/ Confirm \/ Decide \/ OpenPidfd \/ VerifyIdentity \/ Round \/ Late
           \/ \E p \in Pids : CheckIdentity(p)
    PROVE  WInv'
<1>1. UNCHANGED <<world, inodes, started, tcp, fds, seen, grace>> /\ cursor' \in {cursor, 0}
  BY DEF ScanEnds, Confirm, Decide, OpenPidfd, VerifyIdentity, Round, Late, CheckIdentity, world,
         reading, killing
<1>2. DOMAIN members' \subseteq DOMAIN members
  <2>1. CASE OpenPidfd
    BY <2>1, DropW DEF OpenPidfd
  <2>2. CASE VerifyIdentity
    BY <2>2, DropW DEF VerifyIdentity
  <2>3. CASE \E p \in Pids : CheckIdentity(p)
    BY <2>3, DropW DEF CheckIdentity
  <2> QED
    BY <2>1, <2>2, <2>3 DEF ScanEnds, Confirm, Decide, Round, Late, reading
<1>3. first' \in BOOLEAN /\ complete' \in BOOLEAN
  <2>1. CASE OpenPidfd \/ VerifyIdentity \/ Late \/ \E p \in Pids : CheckIdentity(p)
    <3>1. first' = first /\ complete' \in {complete, FALSE}
      BY <2>1 DEF OpenPidfd, VerifyIdentity, Late, CheckIdentity, Fail, ending
    <3> QED
      BY <3>1, Flags
  <2>2. CASE Confirm
    <3>1. first' = first /\ complete' \in BOOLEAN
      BY <2>2, Zenon DEF Confirm
    <3> QED
      BY <3>1, Flags
  <2>3. CASE ScanEnds \/ Decide \/ Round
    BY <2>3, Flags DEF ScanEnds, Decide, Round, killing, ending
  <2> QED
    BY <2>1, <2>2, <2>3
<1>4. stage' \notin {"sockets", "again"}
  BY DEF ScanEnds, Confirm, Decide, OpenPidfd, VerifyIdentity, Round, Late, CheckIdentity, Fail, Restore
<1> QED
  BY <1>1, <1>2, <1>3, <1>4, Members, SameWorld, Flags, PlainW

LEMMA ReapW == ASSUME IInv, WInv, Reap PROVE WInv'
<1>1. /\ UNCHANGED <<bound, inodes, started, tcp, fds, seen, first, grace, complete>>
      /\ stage' = "scan" /\ members' = NoMembers /\ cursor' = 0
  BY DEF Reap, Goto, killing, ending
<1>2. Alike /\ Lasting
  <2> DEFINE P == {p \in Pids : proc[p].state = "zombie" /\ proc[p].owned /\ proc[p].parent = Coordinator}
  <2>1. proc' = [p \in Pids |-> IF p \in P THEN [proc[p] EXCEPT !.state = "free"] ELSE proc[p]]
    BY DEF Reap
  <2>2. \A p \in P \cap Pids : proc[p].state = "zombie"
    OBVIOUS
  <2> HIDE DEF P
  <2>3. Lasting
    BY <2>1, <2>2 DEF Lasting, Live, IInv, Typed
  <2> QED
    BY <2>1, <2>2, <2>3, FreedAlike
<1>3. \A p \in DOMAIN members' : p \in Pids /\ proc[p].life > 0
  BY <1>1 DEF NoMembers
<1> QED
  BY <1>1, <1>2, <1>3, SameSockets, Flags, PlainW

LEMMA SendW == ASSUME IInv, WInv, Send PROVE WInv'
<1>1. /\ UNCHANGED <<inodes, started, tcp, fds, seen, cursor, first, grace, complete>>
      /\ stage' = "check" /\ DOMAIN members' \subseteq DOMAIN members
  BY DropW DEF Send, Goto
<1>2. aim.pid \in Pids
  BY DEF Send, Goto, IInv, Aimed, Read
<1>3. Alike /\ Sockets'
  <2>1. CASE Live(aim.pid) /\ proc' = Gone(aim.pid) /\ bound' = Without(aim.pid)
    BY <1>1, <1>2, <2>1, GoneAlike, WithoutSockets
  <2>2. CASE UNCHANGED <<proc, bound>>
    BY <1>1, <2>2, SameWorld DEF world
  <2> QED
    BY <2>1, <2>2 DEF Send
<1> QED
  BY <1>1, <1>3, Members, Flags, PlainW

LEMMA StartW == ASSUME IInv, WInv, NEW p \in Pids, Start(p) PROVE WInv'
<1> DEFINE n == Len(started) + 1
           R == [role : DOMAIN Expected, pid : Pids, life : {1}]
           f == [role |-> Roles[n], pid |-> p, life |-> 1]
<1>1. /\ UNCHANGED <<bound, inodes, members, fds, tcp, seen, cursor, first, grace, complete>>
      /\ stage' = "identity" /\ started' = Append(started, f)
  BY DEF Start, reading, killing, ending
<1>2. /\ started \in Seq(R) /\ Roles \in Seq(DOMAIN Expected)
      /\ Len(started) < Len(Roles) /\ Len(started) <= Len(Roles)
  BY ConstantsAssumption DEF Start, WInv, States
<1>3. Roles[n] \in DOMAIN Expected
  BY <1>2
<1>4. f \in R
  BY <1>3
<1>5. Alike /\ ~Exists(p) /\ proc'[p].life = 1 /\ proc'[p].origin = Roles[n]
  BY SpawnAlike DEF Start
<1>6. Lasting
  BY <1>5 DEF Start, Spawn, Lasting, Live, Exists, IInv, Typed
<1>7. Sockets'
  BY <1>1, <1>6, SameSockets
<1>8. f.pid = p /\ f.role = Roles[n]
  OBVIOUS
<1> HIDE DEF R, f
<1>9. /\ started' \in Seq(R) /\ Len(started') <= Len(Roles)
      /\ \A i \in DOMAIN started' : (i \in DOMAIN started /\ started'[i] = started[i]) \/ started'[i] = f
  BY <1>1, <1>2, <1>4
<1>10. States'
  BY <1>1, <1>9 DEF WInv, States, R
<1>11. Known'
  <2>1. \A i \in DOMAIN started : started[i].pid \in Pids
    BY StartedPids
  <2>2. \A q \in Pids : proc[q].life > 0 => q # p
    BY DEF Start, Fresh
  <2>3. \A q \in DOMAIN members : proc'[q].life > 0
    BY Members, <1>5 DEF Alike, Aging
  <2>4. ASSUME NEW i \in DOMAIN started'
        PROVE  /\ proc'[started'[i].pid].life > 0
               /\ proc'[started'[i].pid].life = 1 => proc'[started'[i].pid].origin = started'[i].role
    <3>1. CASE i \in DOMAIN started /\ started'[i] = started[i]
      BY <1>5, <2>1, <3>1 DEF WInv, Known, Alike, Aging
    <3>2. CASE started'[i] = f
      BY <1>5, <1>8, <3>2
    <3> QED
      BY <1>9, <3>1, <3>2
  <2> QED
    BY <1>1, <2>3, <2>4 DEF Known
<1> QED
  BY <1>1, <1>5, <1>7, <1>10, <1>11 DEF WInv, Alike, Numbers, Reading, Verdict

\* The members of a family are of the origin of their frontend.
LEMMA ReadMembersW == ASSUME IInv, WInv, ReadMembers PROVE WInv'
<1>1. CASE ~(\A i \in DOMAIN started : Alive(started[i]))
  <2>1. /\ UNCHANGED <<world, inodes, started, seen, cursor, first, grace, complete>>
        /\ tcp' = [a \in Addresses |-> 0] /\ fds' = NoMembers /\ members' = NoMembers /\ stage' = "cleanup"
    BY <1>1 DEF ReadMembers, Raise, Forget, world, killing, ending
  <2>2. \A p \in DOMAIN members' : p \in Pids /\ proc[p].life > 0
    BY <2>1 DEF NoMembers
  <2> QED
    BY <2>1, <2>2, SameWorld, Flags, PlainW
<1>2. CASE \A i \in DOMAIN started : Alive(started[i])
  <2>1. /\ UNCHANGED <<world, started, seen, cursor, first, grace, complete, tcp>>
        /\ stage' = "sockets" /\ fds' = NoMembers
        /\ members' = [p \in Group |-> [life |-> proc[p].life, parent |-> proc[p].parent, dead |-> ~Live(p)]]
    BY <1>2 DEF ReadMembers, killing, ending
  <2>2. Group \subseteq Pids /\ \A p \in Group : Member(p) /\ proc[p].life = 1
    BY DEF Group, Member, IInv, Typed
  <2>3. \A p \in Group : members'[p].parent = proc[p].parent
    BY <2>1
  <2>4. ASSUME NEW i \in DOMAIN started
        PROVE  started[i].pid \in Group /\ ~members'[started[i].pid].dead
               /\ proc[started[i].pid].origin = started[i].role
    <3>1. started[i].pid \in Pids /\ Live(started[i].pid) /\ proc[started[i].pid].life = started[i].life
      BY <1>2, StartedPids DEF Alive
    <3>2. started[i].life = 1
      <4> DEFINE R == [role : DOMAIN Expected, pid : Pids, life : {1}]
      <4>1. started \in Seq(R) /\ \A r \in R : r.life = 1
        BY DEF WInv, States
      <4> HIDE DEF R
      <4> QED
        BY <4>1, StartedOf
    <3>3. started[i].pid \in Group
      BY <3>1, <3>2 DEF Group, IInv, Typed, Member, Exists, Live
    <3> QED
      BY <2>1, <3>1, <3>2, <3>3 DEF WInv, Known
  <2>5. ASSUME NEW i \in DOMAIN started, NEW p \in Family(started[i].pid)'
        PROVE  proc[p].origin = started[i].role
    <3> DEFINE S == {q \in Group : proc[q].origin = started[i].role}
    <3>1. S \in SUBSET DOMAIN members' /\ started[i].pid \in S
      BY <2>1, <2>4
    <3>2. ASSUME NEW q \in Group, proc[q].parent \in S PROVE q \in S
      <4>1. proc[q].parent # Coordinator
        BY <2>2, <3>2, PidsAreNumbers DEF Coordinator
      <4> QED
        BY <2>2, <3>2, <4>1 DEF WInv, Kin
    <3>3. \A q \in DOMAIN members' : members'[q].parent \in S => q \in S
      BY <2>1, <2>3, <3>2
    <3> HIDE DEF S
    <3>4. p \in S
      BY <2>1, <3>1, <3>3 DEF Family
    <3> QED
      BY <3>4 DEF S
  <2>6. ASSUME NEW p \in Group PROVE RoleOf(p)' \in {"none", proc[p].origin}
    <3> DEFINE own == {i \in DOMAIN started : p \in Family(started[i].pid)'}
    <3>1. RoleOf(p)' = IF own = {} THEN "none" ELSE started[CHOOSE i \in own : TRUE].role
      BY <2>1 DEF RoleOf
    <3>2. own # {} => (CHOOSE i \in own : TRUE) \in own
      OBVIOUS
    <3> QED
      BY <2>5, <3>1, <3>2
  <2>7. Reading'
    BY <2>1, <2>4, <2>6 DEF Reading, NoMembers, world
  <2>8. States' /\ Numbers' /\ Known'
    BY <2>1, <2>2 DEF WInv, States, Numbers, Known, NoMembers, world
  <2> QED
    BY <2>1, <2>7, <2>8, SameWorld DEF WInv, Alike, Verdict
<1> QED
  BY <1>1, <1>2

LEMMA ReadSocketsW == ASSUME IInv, WInv, NEW p \in Pids, ReadSockets(p) PROVE WInv'
<1>0. /\ UNCHANGED <<world, inodes, bound, proc, started, seen, cursor, first, grace, complete>>
      /\ stage = "sockets" /\ p \in DOMAIN members
  BY DEF ReadSockets, Unread, world, killing, ending
<1>1. CASE ~(Exists(p) /\ proc[p].life = members[p].life)
  <2>1. /\ tcp' = [a \in Addresses |-> 0] /\ fds' = NoMembers /\ members' = NoMembers /\ stage' = "cleanup"
    BY <1>1 DEF ReadSockets, Raise, Forget
  <2>2. \A q \in DOMAIN members' : q \in Pids /\ proc[q].life > 0
    BY <2>1 DEF NoMembers
  <2> QED
    BY <1>0, <2>1, <2>2, SameWorld, Flags, PlainW
<1>2. CASE Exists(p) /\ proc[p].life = members[p].life
  <2>1. /\ UNCHANGED <<stage, tcp, members>>
        /\ fds' = [q \in DOMAIN fds \cup {p} |-> IF q = p THEN SocketsOf(p) ELSE fds[q]]
    BY <1>2 DEF ReadSockets
  <2>2. fds'[p] = SocketsOf(p) /\ \A q \in DOMAIN fds \ {p} : fds'[q] = fds[q]
    BY <2>1
  <2>3. RoleOf(p) \in {"none", proc[p].origin}
    BY <1>0, <1>2 DEF IInv, Read, WInv, Reading
  <2>4. ASSUME NEW a \in Addresses
        PROVE  /\ bound[a].inode # 0 /\ bound[a].inode \in SocketsOf(p) =>
                    \A h \in bound[a].holders : RoleOf(p) \in {"none", proc[h].origin}
               /\ p \in bound[a].holders => bound[a].inode \in SocketsOf(p)
    <3>1. ASSUME bound[a].inode # 0, bound[a].inode \in SocketsOf(p), NEW h \in bound[a].holders
          PROVE  RoleOf(p) \in {"none", proc[h].origin}
      <4>1. p \in bound[a].holders
        BY <3>1 DEF SocketsOf, WInv, Sockets
      <4> QED
        BY <2>3, <4>1 DEF WInv, Sockets, Socket
    <3>2. p \in bound[a].holders => bound[a].inode \in SocketsOf(p)
      BY DEF SocketsOf
    <3> QED
      BY <3>1, <3>2
  <2>5. \A q : RoleOf(q)' = RoleOf(q)
    BY <1>0, <2>1, SameRoles
  <2>6. Reading'
    BY <1>0, <2>1, <2>2, <2>4, <2>5 DEF WInv, Reading
  <2>7. Numbers'
    <3>1. SocketsOf(p) \subseteq 0 .. inodes
      BY DEF SocketsOf, WInv, Sockets, Socket
    <3> QED
      BY <1>0, <2>1, <2>2, <3>1 DEF WInv, Numbers
  <2>8. States' /\ Known'
    BY <1>0, <2>1 DEF WInv, States, Known
  <2> QED
    BY <1>0, <2>1, <2>6, <2>7, <2>8, SameWorld DEF WInv, Alike, Verdict
<1> QED
  BY <1>1, <1>2

\* What was read agrees with what is expected: so it is of the sockets that are still there.
LEMMA CompareW == ASSUME IInv, WInv, Compare PROVE WInv'
<1>0. /\ UNCHANGED <<world, inodes, bound, proc, started, cursor, first, grace, complete>>
      /\ stage = "sockets" /\ Unread = {} /\ seen' = seen \cup {tcp[a] : a \in Observed}
  BY DEF Compare, world, killing, ending
<1>1. \A a \in Observed : tcp[a] # 0
  BY DEF Observed, Owners
<1>2. seen' \subseteq 1 .. inodes
  <2>1. seen \subseteq 1 .. inodes /\ \A a \in Addresses : tcp[a] \in 0 .. inodes
    BY DEF WInv, Numbers
  <2>2. \A a \in Observed : a \in Addresses /\ tcp[a] \in 1 .. inodes
    BY <1>1, <2>1 DEF Observed
  <2> QED
    BY <1>0, <2>1, <2>2
<1>3. \/ /\ ~Wrong /\ {a \in Addresses : Wanted(a) # {}} \subseteq Observed
         /\ stage' = "again" /\ tcp' = tcp /\ members' = NoMembers /\ fds' = NoMembers
      \/ /\ stage' \in {"waiting", "cleanup"} /\ tcp' = [a \in Addresses |-> 0]
         /\ members' = NoMembers /\ fds' = NoMembers
  BY DEF Compare, Raise, Forget
<1>4. States' /\ Known'
  BY <1>0, <1>3 DEF WInv, States, Known, NoMembers
<1>5. Numbers'
  BY <1>0, <1>2, <1>3, ConstantsAssumption DEF WInv, Numbers, NoMembers
<1>6. Verdict'
  <2> SUFFICES ASSUME stage' = "again", NEW a \in Addresses
               PROVE  /\ Wanted(a) # {} => tcp[a] # 0
                      /\ bound[a].inode = tcp[a] /\ tcp[a] # 0 => \A h \in bound[a].holders :
                           /\ Wanted(a) # {} => Wanted(a) = {proc[h].origin}
                           /\ h \in Frontends => Wanted(a) # {}
    BY <1>0, <1>3 DEF Verdict, Frontends, Wanted
  <2>1. ~Wrong /\ (Wanted(a) # {} => a \in Observed)
    BY <1>3
  <2>2. a \in Observed => Owners(a) = Wanted(a)
    BY <2>1 DEF Wrong
  <2>3. ASSUME bound[a].inode = tcp[a], tcp[a] # 0, NEW h \in bound[a].holders, Wanted(a) # {}
        PROVE  Wanted(a) = {proc[h].origin}
    <3>1. "none" \notin Wanted(a)
      BY ConstantsAssumption, StartedOf DEF Wanted
    <3>2. \A r \in Owners(a) : r \in {"none", proc[h].origin}
      BY <1>0, <2>3 DEF Owners, WInv, Reading
    <3> QED
      BY <2>1, <2>2, <2>3, <3>1, <3>2
  <2>4. ASSUME bound[a].inode = tcp[a], tcp[a] # 0, NEW h \in bound[a].holders, h \in Frontends
        PROVE  Wanted(a) # {}
    <3>1. h \in DOMAIN fds
      BY <1>0, <2>4 DEF Frontends, WInv, Reading, Unread
    <3>2. tcp[a] \in fds[h]
      BY <1>0, <2>4, <3>1 DEF WInv, Reading
    <3>3. Owners(a) # {}
      BY <2>4, <3>1, <3>2 DEF Owners
    <3> QED
      BY <2>2, <3>3 DEF Observed
  <2> QED
    BY <1>1, <2>1, <2>3, <2>4
<1> QED
  BY <1>0, <1>3, <1>4, <1>5, <1>6, SameWorld DEF WInv, Alike, Reading

LEMMA StepWInv == ASSUME IInv, WInv, [Next]_vars PROVE WInv'
<1>1. CASE GraceEnds \/ UNCHANGED vars
  <2>1. UNCHANGED <<world, bound, inodes, stage, started, reading, first, complete>> /\ grace' \in {grace, TRUE}
    BY <1>1 DEF GraceEnds, vars, world, killing, ending
  <2>2. Lasting
    BY <2>1 DEF Lasting, Live, world
  <2>3. Alike /\ Sockets' /\ Holding
    BY <2>1, <2>2, SameAlike, SameSockets DEF world
  <2>4. grace' \in BOOLEAN
    BY <2>1 DEF WInv, States
  <2>5. inodes' = inodes /\ inodes' <= MaxInodes
    BY <2>1, ConstantsAssumption DEF WInv, Numbers
  <2> QED
    BY <2>1, <2>3, <2>4, <2>5, WorldW
<1>2. CASE Session
  BY <1>2, WaitSteps, CleanSteps, StartW, ReadMembersW, ReadSocketsW, CompareW, ReapW, ScanW, SendW DEF Session
<1>3. CASE Abort \/ Late
  BY <1>3, WaitSteps, CleanSteps
<1>4. ASSUME NEW p \in Pids,
             \/ Exit(p) \/ ReapedByParent(p) \/ Reuse(p) \/ (\E q \in Pids : Fork(p, q))
             \/ (\E a \in Addresses : Bind(p, a))
      PROVE  WInv'
  BY <1>4, WorldStepsW
<1> QED
  BY <1>1, <1>2, <1>3, <1>4 DEF Next

LEMMA SecondInvariant == Spec => [](IInv /\ WInv)
<1>1. IInv /\ WInv /\ [Next]_vars => IInv' /\ WInv'
  BY StepIInv, StepWInv
<1> QED
  BY InitIInv, InitWInv, <1>1, PTL DEF Spec

(***************************************************************************)
(* For any number of processes, frontends, addresses and sockets: when the *)
(* wait ends, every expected listener is held at that moment by its own    *)
(* frontend and descendants of it alone.                                   *)
(***************************************************************************)
THEOREM ReadyWhenTrue == Spec => ReadyWasTrue
<1> DEFINE Ready ==
      stage = "again" /\ stage' = "recheck" /\ (\A i \in DOMAIN started : Alive(started[i])) =>
        \A a \in Addresses :
           /\ Wanted(a) # {} => Origins(a) = Wanted(a)
           /\ (\E i \in DOMAIN started : started[i].pid \in bound[a].holders) => Wanted(a) # {}
<1>1. ASSUME IInv, WInv, [Next]_vars PROVE [Ready]_vars
  <2> SUFFICES ASSUME stage = "again", stage' = "recheck", NEW a \in Addresses
               PROVE  /\ Wanted(a) # {} => Origins(a) = Wanted(a)
                      /\ (\E i \in DOMAIN started : started[i].pid \in bound[a].holders) => Wanted(a) # {}
    OBVIOUS
  <2>1. ReadAgain
    <3>1. ~(GraceEnds \/ UNCHANGED vars)
      BY DEF GraceEnds, vars
    <3>2. \A p \in Pids : ~(Exit(p) \/ ReapedByParent(p) \/ Reuse(p) \/ (\E q \in Pids : Fork(p, q))
                             \/ (\E b \in Addresses : Bind(p, b)))
      BY DEF Exit, ReapedByParent, Reuse, Fork, Bind
    <3>3. ~(Abort \/ Late)
      BY DEF Abort, Late, Raise
    <3>4. \A p \in Pids : ~(Start(p) \/ ReadSockets(p) \/ Scan(p) \/ CheckIdentity(p))
      BY DEF Start, ReadSockets, Scan, CheckIdentity
    <3>5. ~(Identified \/ ReadListeners \/ ReadMembers \/ Compare \/ Recheck \/ Probe \/ Reap \/ ScanEnds
            \/ Confirm \/ Decide \/ OpenPidfd \/ VerifyIdentity \/ Send \/ Round)
      BY DEF Identified, ReadListeners, ReadMembers, Compare, Recheck, Probe, Reap, ScanEnds, Confirm,
             Decide, OpenPidfd, VerifyIdentity, Send, Round, Goto
    <3> QED
      BY <1>1, <3>1, <3>2, <3>3, <3>4, <3>5 DEF Next, Session
  <2>2. bound[a].inode = tcp[a]
    BY <2>1 DEF ReadAgain, Snapshot
  <2>3. bound[a].inode = 0 <=> bound[a].holders = {}
    BY <1>1 DEF WInv, Sockets, Socket
  <2>4. /\ Wanted(a) # {} => tcp[a] # 0
        /\ tcp[a] # 0 => \A h \in bound[a].holders :
             /\ Wanted(a) # {} => Wanted(a) = {proc[h].origin}
             /\ h \in Frontends => Wanted(a) # {}
    BY <1>1, <2>2 DEF WInv, Verdict
  <2> QED
    BY <2>2, <2>3, <2>4 DEF Origins, Frontends
<1> QED
  BY SecondInvariant, <1>1, PTL DEF Spec, ReadyWasTrue

(***************************************************************************)
(* However many processes there are and ids are reused: no signal of the   *)
(* session reaches a process outside its group.                            *)
(***************************************************************************)
THEOREM OnlyMembersSignalled == Spec => []OutsidersUnharmed
<1>1. IInv => OutsidersUnharmed
  BY DEF IInv, Ended, OutsidersUnharmed
<1> QED
  BY Invariant, <1>1, PTL

(***************************************************************************)
(* However fast the frontends fork: when the cleanup calls itself complete *)
(* no process of the group is left.                                        *)
(***************************************************************************)
THEOREM NobodyLeft == Spec => []CompleteMeansGone
<1>1. IInv => CompleteMeansGone
  BY DEF IInv, Ended, CompleteMeansGone, Member
<1> QED
  BY Invariant, <1>1, PTL

(***************************************************************************)
(* Types and both promises of the cleanup, for any number of processes.    *)
(***************************************************************************)
THEOREM SessionInvariant == Spec => []Inv
<1>1. IInv /\ WInv => TypeOK
  <2> SUFFICES ASSUME IInv, WInv PROVE TypeOK
    OBVIOUS
  <2>1. Cardinality(Pids) = MaxPid
    BY ConstantsAssumption, FS_Interval DEF Pids
  <2>2. inodes \in 0 .. MaxInodes /\ seen \subseteq 1 .. MaxInodes /\ DOMAIN fds \subseteq Pids
    BY ConstantsAssumption DEF WInv, Numbers
  <2>3. \A a \in Addresses : \A p \in bound[a].holders : Live(p)
    BY DEF WInv, Sockets, Socket
  <2>4. \A p \in Pids : proc[p].state \in {"free", "live", "zombie"} /\ proc[p].life \in 0 .. 2
    BY DEF IInv, Typed, WInv, Shapes
  <2>5. DOMAIN members \subseteq Pids /\ aim.pid \in {0} \cup Pids
    BY DEF IInv, Read, Aimed
  <2> QED
    BY <2>1, <2>2, <2>3, <2>4, <2>5 DEF TypeOK, WInv, States
<1>2. IInv => CompleteMeansGone /\ OutsidersUnharmed
  BY DEF IInv, Ended, CompleteMeansGone, OutsidersUnharmed, Member
<1> QED
  BY SecondInvariant, <1>1, <1>2, PTL DEF Inv

-----------------------------------------------------------------------------
(* Dialogs *)

ManifestFields == {"panel", "sub", "base", "protocols", "flags", "paths", "decoys", "sites", "apex",
                   "mode", "cert", "renewal", "sidecar", "hosts", "cloud"}

ProtocolFields == {"dom", "expo", "sni", "ends", "facts", "sync", "follow"}

Shaped(m) ==
    /\ DOMAIN m = ManifestFields
    /\ \A i \in Planned(m) : /\ DOMAIN m.protocols[i] = ProtocolFields
                             /\ m.protocols[i].dom \in Names

\* The sidecar answers for the subscription domain alone.
OneHost(m) == m.sidecar => m.hosts = {m.sub}

\* An address that the plan was made with is one that the dialog read, or the
\* one that the plan itself gives.
KnownAddresses(m, read) ==
    \A i \in Planned(m) : m.protocols[i].facts.share \in {read[i], m.protocols[i].dom}

Made(m, read) == Shaped(m) /\ OneHost(m) /\ KnownAddresses(m, read)

\* In a move to another zone every domain is the address the plan was made with, moved.
MovedTo(m, z) ==
    \A i \in Planned(m) :
        LET p == m.protocols[i] IN
        p.facts.share # NoName => p.dom = Replace(p.facts.share, z[1], z[2])

PanelKept ==
    /\ IsDatabase(db)
    /\ DOMAIN db.hosts \subseteq Inbounds

SavedKept ==
    saved # None => /\ Made(saved.m, saved.seen)
                    /\ Covers(saved.m.cert, Required(saved.m))
                    /\ ~touched => InStep

FailedKept == failed # None => Made(failed.m, failed.seen)

FileKept == file # None => DOMAIN file = {"m", "seen"} /\ Made(file.m, file.seen)

PendingKept ==
    pending # None => /\ Made(pending.m, pending.seen)
                      /\ pending.kind = "zone" => MovedTo(pending.m, pending.zones)

JobKept ==
    job # None => /\ Made(job.m, job.seen)
                  /\ job.kind = "zone" => MovedTo(job.m, job.zones)
                  /\ job.kind = "file" => job.m.cloud = job.seal.m.cloud
                  /\ job.stage = "order" => /\ job.kind \in {"zone", "certbot"}
                                            /\ \E z \in Zones : job.seal = z[2]

DialogIInv ==
    /\ DialogTypeOK /\ PanelKept /\ SavedKept /\ FailedKept /\ FileKept /\ PendingKept /\ JobKept

\* The sites of the decoys contain every domain, those of P apart.
Sited(m, P) == m.decoys => \A i \in Planned(m) \ P : m.protocols[i].dom \in m.sites

\* What a plan of this kind may lack of the sites.
Lost(kind, P) == IF kind \in Anew THEN {} ELSE P

SitesKept ==
    /\ saved # None => Sited(saved.m, parted)
    /\ failed # None => Sited(failed.m, parted)
    /\ file # None => Sited(file.m, {})
    /\ pending # None => Sited(pending.m, Lost(pending.kind, parted))
    /\ job # None => Sited(job.m, Lost(job.kind, parted))

-----------------------------------------------------------------------------
(* What the operators of Domains make of a manifest. *)

LEMMA ReplaceNames ==
  ASSUME NEW n \in Names, NEW old, NEW new \in STRING
  PROVE  Replace(n, old, new) \in Names
BY DialogAssumption DEF Replace, Names

\* The facts and the addresses are those of the database d.
FreshFacts(m, d) == \A i \in Planned(m) : m.protocols[i].facts = Facts(d, i)

LEMMA FreshKnown ==
  ASSUME NEW m, NEW d, NEW read, FreshFacts(m, d), \A i \in Planned(m) : read[i] = Share(d, i)
  PROVE  KnownAddresses(m, read)
<1>1. \A i : Facts(d, i).share = Share(d, i)
  BY DEF Facts
<1> QED BY <1>1 DEF FreshFacts, KnownAddresses

LEMMA ShareNames ==
  ASSUME NEW d, IsDatabase(d), NEW i \in DOMAIN d.hosts
  PROVE  Share(d, i) \in Names \cup {NoName}
<1>1. d.hosts[i] \in Seq(Names) /\ d.share[i] \in Names \cup {NoName}
  BY DEF IsDatabase
<1> QED BY <1>1 DEF Share

LEMMA Refreshed ==
  ASSUME NEW m, NEW d, Shaped(m), IsDatabase(d), Planned(m) \subseteq DOMAIN d.hosts
  PROVE  LET r == Refresh(m, d) IN
         /\ Shaped(r) /\ OneHost(r) /\ FreshFacts(r, d) /\ Sited(r, {}) /\ Planned(r) = Planned(m)
         /\ \A i \in Planned(m) : Share(d, i) # NoName => r.protocols[i].dom = Share(d, i)
         /\ r.panel = m.panel /\ r.sub = m.sub
<1> DEFINE r == Refresh(m, d)
           now == [m EXCEPT !.protocols = [i \in Planned(m) |-> RefreshedProtocol(m, d, i)]]
<1>1. DOMAIN m = ManifestFields
  BY DEF Shaped
<1>2. /\ DOMAIN r = ManifestFields
      /\ r.protocols = [i \in Planned(m) |-> RefreshedProtocol(m, d, i)]
      /\ r.panel = m.panel /\ r.sub = m.sub /\ r.sidecar = m.sidecar /\ r.decoys = m.decoys
      /\ r.hosts = IF m.sidecar THEN {m.sub} ELSE m.hosts
  BY <1>1, Zenon DEF Refresh, ManifestFields
<1>3. r.sites = IF m.decoys THEN (m.sites \ AllEndpointDomains(m)) \cup AllEndpointDomains(now) ELSE m.sites
  BY <1>1 DEF Refresh, ManifestFields
<1>4. /\ now.protocols = [i \in Planned(m) |-> RefreshedProtocol(m, d, i)]
      /\ Planned(now) = Planned(m) /\ Planned(r) = Planned(m)
  BY <1>1, <1>2 DEF ManifestFields, Planned
<1>5. ASSUME NEW i \in Planned(m)
      PROVE  /\ DOMAIN RefreshedProtocol(m, d, i) = ProtocolFields
             /\ RefreshedProtocol(m, d, i).facts = Facts(d, i)
             /\ RefreshedProtocol(m, d, i).dom =
                  IF Share(d, i) # NoName THEN Share(d, i) ELSE m.protocols[i].dom
             /\ RefreshedProtocol(m, d, i).dom \in Names
  <2>1. DOMAIN m.protocols[i] = ProtocolFields /\ m.protocols[i].dom \in Names
    BY DEF Shaped
  <2>2. /\ DOMAIN RefreshedProtocol(m, d, i) = ProtocolFields
        /\ RefreshedProtocol(m, d, i).facts = Facts(d, i)
        /\ RefreshedProtocol(m, d, i).dom =
                  IF Share(d, i) # NoName THEN Share(d, i) ELSE m.protocols[i].dom
    BY <2>1 DEF RefreshedProtocol, ProtocolFields
  <2> QED BY <2>1, <2>2, ShareNames
<1> HIDE DEF r, now
<1>6. Sited(r, {})
  <2> SUFFICES ASSUME m.decoys, NEW i \in Planned(m)
               PROVE  r.protocols[i].dom \in r.sites
    BY <1>2, <1>4 DEF Sited
  <2>1. now.protocols[i].dom \in AllEndpointDomains(now)
    BY <1>4 DEF AllEndpointDomains, EndpointDomains
  <2> QED BY <2>1, <1>2, <1>3, <1>4
<1>7. Shaped(r) /\ FreshFacts(r, d) /\ OneHost(r)
  BY <1>2, <1>4, <1>5 DEF Shaped, FreshFacts, OneHost
<1> QED BY <1>2, <1>4, <1>5, <1>6, <1>7 DEF r

LEMMA Migrated ==
  ASSUME NEW m, NEW old, NEW new \in STRING, Shaped(m)
  PROVE  LET r == Migrate(m, old, new) IN
         /\ Shaped(r) /\ OneHost(r) /\ Sited(r, {}) /\ Planned(r) = Planned(m)
         /\ \A i \in Planned(m) : /\ r.protocols[i].dom = Replace(m.protocols[i].dom, old, new)
                                  /\ r.protocols[i].facts = m.protocols[i].facts
<1> DEFINE r == Migrate(m, old, new)
           sub == Replace(m.sub, old, new)
           protocol(i) ==
             [m.protocols[i] EXCEPT !.dom = Replace(@, old, new), !.sync = @ \/ m.protocols[i].expo # "none",
                !.sni = IF i \in Reality THEN @ ELSE {Replace(n, old, new) : n \in @}]
           moved == [i \in Planned(m) |-> protocol(i)]
<1>1. DOMAIN m = ManifestFields
  BY DEF Shaped
<1>2. /\ DOMAIN r = ManifestFields
      /\ r.protocols = moved
      /\ r.sub = sub /\ r.hosts = {sub}
      /\ r.sites = {moved[i].dom : i \in Planned(m)} \cup {Apex(new)}
  BY <1>1, Zenon DEF Migrate, ManifestFields
<1>3. ASSUME NEW i \in Planned(m)
      PROVE  /\ DOMAIN protocol(i) = ProtocolFields
             /\ protocol(i).dom = Replace(m.protocols[i].dom, old, new)
             /\ protocol(i).facts = m.protocols[i].facts
             /\ protocol(i).dom \in Names
  <2>1. DOMAIN m.protocols[i] = ProtocolFields /\ m.protocols[i].dom \in Names
    BY DEF Shaped
  <2>2. /\ DOMAIN protocol(i) = ProtocolFields
        /\ protocol(i).dom = Replace(m.protocols[i].dom, old, new)
        /\ protocol(i).facts = m.protocols[i].facts
    BY <2>1, Zenon DEF ProtocolFields
  <2> QED BY <2>1, <2>2, ReplaceNames
<1> HIDE DEF protocol
<1>4. Planned(r) = Planned(m) /\ \A i \in Planned(m) : r.protocols[i] = protocol(i)
  BY <1>2 DEF Planned
<1> HIDE DEF r, sub
<1>5. Shaped(r) /\ OneHost(r)
  BY <1>2, <1>3, <1>4 DEF Shaped, OneHost
<1>6. Sited(r, {})
  BY <1>2, <1>4 DEF Sited
<1> QED BY <1>3, <1>4, <1>5, <1>6 DEF r

\* Two manifests that say the same of the names.
SameNames(r, m) ==
    /\ Planned(r) = Planned(m)
    /\ \A i \in Planned(m) : /\ r.protocols[i].dom = m.protocols[i].dom
                             /\ r.protocols[i].facts = m.protocols[i].facts
    /\ r.sub = m.sub /\ r.sidecar = m.sidecar /\ r.hosts = m.hosts
    /\ r.decoys = m.decoys /\ r.sites = m.sites

LEMMA SameNamesKeep ==
  ASSUME NEW r, NEW m, SameNames(r, m)
  PROVE  /\ OneHost(m) => OneHost(r)
         /\ \A P : Sited(m, P) => Sited(r, P)
         /\ \A read : KnownAddresses(m, read) => KnownAddresses(r, read)
         /\ \A z : MovedTo(m, z) => MovedTo(r, z)
BY DEF SameNames, OneHost, Sited, KnownAddresses, MovedTo

LEMMA SameProtocols ==
  ASSUME NEW m, NEW r, Shaped(m), DOMAIN r = ManifestFields, r.protocols = m.protocols,
         r.sub = m.sub, r.sidecar = m.sidecar, r.hosts = m.hosts, r.decoys = m.decoys, r.sites = m.sites
  PROVE  Shaped(r) /\ SameNames(r, m)
BY DEF Shaped, SameNames, Planned

LEMMA Plain ==
  ASSUME NEW m, Shaped(m), NEW x, NEW y, NEW f
  PROVE  /\ Shaped([m EXCEPT !.renewal = x]) /\ SameNames([m EXCEPT !.renewal = x], m)
         /\ Shaped([m EXCEPT !.mode = x]) /\ SameNames([m EXCEPT !.mode = x], m)
         /\ Shaped([m EXCEPT !.cloud = x]) /\ SameNames([m EXCEPT !.cloud = x], m)
         /\ Shaped([m EXCEPT !.paths = x]) /\ SameNames([m EXCEPT !.paths = x], m)
         /\ Shaped([m EXCEPT !.flags = x]) /\ SameNames([m EXCEPT !.flags = x], m)
         /\ Shaped([m EXCEPT !.cert = x, !.renewal = y, !.flags = f])
         /\ SameNames([m EXCEPT !.cert = x, !.renewal = y, !.flags = f], m)
<1>1. DOMAIN m = ManifestFields
  BY DEF Shaped
<1>2. \A g \in {"renewal", "mode", "cloud", "paths", "flags", "cert"} :
        LET r == [m EXCEPT ![g] = x] IN Shaped(r) /\ SameNames(r, m)
  <2> SUFFICES ASSUME NEW g \in {"renewal", "mode", "cloud", "paths", "flags", "cert"}
               PROVE  Shaped([m EXCEPT ![g] = x]) /\ SameNames([m EXCEPT ![g] = x], m)
    OBVIOUS
  <2> DEFINE r == [m EXCEPT ![g] = x]
  <2>1. /\ DOMAIN r = ManifestFields /\ r.protocols = m.protocols
        /\ r.sub = m.sub /\ r.sidecar = m.sidecar /\ r.hosts = m.hosts /\ r.decoys = m.decoys /\ r.sites = m.sites
    BY <1>1 DEF ManifestFields
  <2> QED BY <2>1, SameProtocols
<1>3. LET r == [m EXCEPT !.cert = x, !.renewal = y, !.flags = f] IN Shaped(r) /\ SameNames(r, m)
  <2> DEFINE r == [m EXCEPT !.cert = x, !.renewal = y, !.flags = f]
  <2>1. /\ DOMAIN r = ManifestFields /\ r.protocols = m.protocols
        /\ r.sub = m.sub /\ r.sidecar = m.sidecar /\ r.hosts = m.hosts /\ r.decoys = m.decoys /\ r.sites = m.sites
    BY <1>1 DEF ManifestFields
  <2> QED BY <2>1, SameProtocols
<1> QED BY <1>2, <1>3

LEMMA SwitchedTo ==
  ASSUME NEW m, NEW c, Shaped(m)
  PROVE  Shaped(Switched(m, c)) /\ SameNames(Switched(m, c), m)
<1> DEFINE r == Switched(m, c)
           followers == Planned(m) \ Reality
           protocol(i) == [m.protocols[i] EXCEPT !.follow = @ \/ i \in followers]
<1>1. DOMAIN m = ManifestFields
  BY DEF Shaped
<1>2. /\ DOMAIN r = ManifestFields /\ r.protocols = [i \in Planned(m) |-> protocol(i)]
      /\ r.sub = m.sub /\ r.sidecar = m.sidecar /\ r.hosts = m.hosts /\ r.decoys = m.decoys /\ r.sites = m.sites
  BY <1>1, Zenon DEF Switched, ManifestFields
<1>3. ASSUME NEW i \in Planned(m)
      PROVE  /\ DOMAIN protocol(i) = ProtocolFields
             /\ protocol(i).dom = m.protocols[i].dom /\ protocol(i).facts = m.protocols[i].facts
  BY Zenon DEF Shaped, ProtocolFields
<1> HIDE DEF protocol, r
<1>4. Planned(r) = Planned(m) /\ \A i \in Planned(m) : r.protocols[i] = protocol(i)
  BY <1>2 DEF Planned
<1> QED BY <1>2, <1>3, <1>4 DEF Shaped, SameNames, r

LEMMA WithSidecarKeeps ==
  ASSUME NEW m, NEW yes, Shaped(m)
  PROVE  LET r == WithSidecar(m, yes) IN
         /\ Shaped(r) /\ Planned(r) = Planned(m) /\ r.protocols = m.protocols
         /\ OneHost(r)
         /\ \A P : Sited(m, P) => Sited(r, P)
         /\ r.cloud = m.cloud
<1> DEFINE r == WithSidecar(m, yes)
<1>1. DOMAIN m = ManifestFields
  BY DEF Shaped
<1>2. /\ DOMAIN r = ManifestFields /\ r.protocols = m.protocols
      /\ r.sub = m.sub /\ r.sidecar = yes /\ r.hosts = (IF yes THEN {m.sub} ELSE m.hosts)
      /\ r.decoys = m.decoys /\ r.sites = m.sites /\ r.cloud = m.cloud
  BY <1>1, Zenon DEF WithSidecar, ManifestFields
<1> HIDE DEF r
<1> QED BY <1>2 DEF Shaped, OneHost, Sited, Planned, r

LEMMA WithDecoysSited ==
  ASSUME NEW m, NEW apex, Shaped(m)
  PROVE  LET r == WithDecoys(m, apex) IN
         /\ Shaped(r) /\ r.protocols = m.protocols /\ Planned(r) = Planned(m)
         /\ OneHost(m) => OneHost(r)
         /\ Sited(r, {})
         /\ r.cloud = m.cloud
<1> DEFINE r == WithDecoys(m, apex)
           on == [m EXCEPT !.decoys = TRUE, !.apex = apex]
<1>1. DOMAIN m = ManifestFields
  BY DEF Shaped
<1>2. /\ DOMAIN on = ManifestFields /\ on.protocols = m.protocols
      /\ on.sub = m.sub /\ on.sidecar = m.sidecar /\ on.hosts = m.hosts /\ on.cloud = m.cloud
  BY <1>1 DEF ManifestFields
<1>3. r = [on EXCEPT !.sites = Sites(on)]
  BY Zenon DEF WithDecoys
<1> HIDE DEF on, r
<1>4. /\ DOMAIN r = ManifestFields /\ r.protocols = m.protocols /\ r.sites = Sites(on)
      /\ r.sub = m.sub /\ r.sidecar = m.sidecar /\ r.hosts = m.hosts /\ r.cloud = m.cloud
  BY <1>2, <1>3 DEF ManifestFields
<1>5. ASSUME NEW i \in Planned(m) PROVE r.protocols[i].dom \in Sites(on)
  BY <1>2, <1>4 DEF Sites, AllEndpointDomains, EndpointDomains, Planned
<1>6. Sited(r, {})
  BY <1>4, <1>5 DEF Sited, Planned
<1> QED BY <1>4, <1>6 DEF Shaped, OneHost, Planned, r

LEMMA RepathKeeps ==
  ASSUME NEW m, NEW d, NEW yes, Shaped(m)
  PROVE  Shaped(Repath(m, d, yes)) /\ SameNames(Repath(m, d, yes), m)
<1>1. SameNames(m, m)
  BY DEF SameNames
<1>2. Shaped([m EXCEPT !.paths = @ \cup BlockedXhttp(m, d)]) /\ SameNames([m EXCEPT !.paths = @ \cup BlockedXhttp(m, d)], m)
  BY Plain
<1> QED BY <1>1, <1>2 DEF Repath

\* Any inbounds have a last one.
LEMMA LastOne ==
  ASSUME NEW S, S \subseteq Inbounds, S # {}
  PROVE  Max(S) \in S /\ \A j \in S : j <= Max(S)
<1> DEFINE R == OpToRel(<, Nat)
<1>1. S \subseteq Nat
  BY DialogAssumption
<1>2. PICK last \in Inbounds : \A i \in Inbounds : i <= last
  BY DialogAssumption
<1> DEFINE T == {k \in Nat : \A j \in S : j <= k}
<1>3. last \in T
  BY <1>2, DialogAssumption
<1>4. \E x \in T : \A y \in T : ~ (<<y, x>> \in R)
  <2>1. IsWellFoundedOn(R, Nat)
    BY NatLessThanWellFounded
  <2>2. T \subseteq Nat /\ T # {}
    BY <1>3
  <2> HIDE DEF R, T
  <2> QED BY <2>1, <2>2, WFMin
<1>5. PICK x \in T : \A y \in T : ~ (y < x)
  BY <1>4 DEF OpToRel
<1>6. x \in S
  <2>1. SUFFICES ASSUME x \notin S PROVE FALSE
    OBVIOUS
  <2>2. \A j \in S : j < x
    BY <1>1, <1>5, <2>1
  <2>3. x # 0
    <3>1. PICK j \in S : j < x
      BY <2>2
    <3> QED BY <1>1, <3>1
  <2>4. x - 1 \in T /\ x - 1 < x
    BY <1>1, <1>5, <2>2, <2>3
  <2> QED BY <1>5, <2>4
<1>7. \A j \in S : x >= j
  BY <1>1, <1>5
<1>8. Max(S) \in S /\ \A j \in S : Max(S) >= j
  BY <1>6, <1>7 DEF Max
<1> QED BY <1>1, <1>8

LEMMA Reconfigured ==
  ASSUME NEW m, NEW d, NEW a, NEW c, Shaped(m), \A i \in Planned(m) : a.dom[i] \in Names
  PROVE  LET r == Reconfigure(m, d, a, c) IN
         /\ Shaped(r) /\ OneHost(r) /\ FreshFacts(r, d) /\ Planned(r) = Planned(m)
         /\ Planned(m) \subseteq Inbounds
              => \A P : Sited(m, P) => Sited(r, P \cup Parted(m, a))
<1> DEFINE r == Reconfigure(m, d, a, c)
           protocol(i) ==
             LET e == Inferred(d, i) IN
             [m.protocols[i] EXCEPT !.dom = a.dom[i], !.expo = e, !.facts = Facts(d, i), !.sync = TRUE,
                !.sni = IF e = "tcp_sni" THEN SubscriptionSni(d, i, a.dom[i]) ELSE {},
                !.ends = Endpoints(d, i, a.dom[i])]
           n == [m EXCEPT !.panel = a.panel, !.sub = a.sub, !.flags = {"domains", "endpoints"},
                   !.protocols = [i \in Planned(m) |-> protocol(i)],
                   !.sites = IF m.decoys THEN {RenamedSite(m, a, s) : s \in @} ELSE @,
                   !.cert = c, !.renewal = @ \/ c.by # "other"]
<1>1. DOMAIN m = ManifestFields
  BY DEF Shaped
<1>2. r = WithSidecar(n, a.sidecar)
  BY Zenon DEF Reconfigure
<1>3. /\ DOMAIN n = ManifestFields /\ n.protocols = [i \in Planned(m) |-> protocol(i)]
      /\ n.decoys = m.decoys
      /\ n.sites = IF m.decoys THEN {RenamedSite(m, a, s) : s \in m.sites} ELSE m.sites
  BY <1>1, Zenon DEF ManifestFields
<1>4. ASSUME NEW i \in Planned(m)
      PROVE  /\ DOMAIN protocol(i) = ProtocolFields
             /\ protocol(i).dom = a.dom[i] /\ protocol(i).facts = Facts(d, i)
  <2>1. DOMAIN m.protocols[i] = ProtocolFields
    BY DEF Shaped
  <2> QED BY <2>1, Zenon DEF ProtocolFields
<1> HIDE DEF protocol, n, r
<1>5. Planned(n) = Planned(m) /\ \A i \in Planned(m) : n.protocols[i] = protocol(i)
  BY <1>3 DEF Planned
<1>6. Shaped(n)
  BY <1>3, <1>4, <1>5 DEF Shaped
<1>7. /\ Shaped(r) /\ OneHost(r) /\ Planned(r) = Planned(n) /\ r.protocols = n.protocols
      /\ \A P : Sited(n, P) => Sited(r, P)
  BY <1>2, <1>6, WithSidecarKeeps
<1>8. FreshFacts(r, d)
  BY <1>4, <1>5, <1>7 DEF FreshFacts
<1>9. ASSUME NEW P, Sited(m, P), Planned(m) \subseteq Inbounds PROVE Sited(n, P \cup Parted(m, a))
  <2> SUFFICES ASSUME m.decoys, NEW i \in Planned(m), i \notin P, i \notin Parted(m, a)
               PROVE  n.protocols[i].dom \in n.sites
    BY <1>3, <1>5 DEF Sited
  <2> DEFINE s == m.protocols[i].dom
             of == {j \in Planned(m) : m.protocols[j].dom = s}
             k == Max(of)
  <2>1. s \in m.sites
    BY <1>9 DEF Sited
  <2>2. i \in of /\ of \subseteq Inbounds
    BY <1>9
  <2>3. k \in of /\ i <= k
    BY <2>2, LastOne
  <2>4. RenamedSite(m, a, s) = a.dom[k]
    BY <2>2, Zenon DEF RenamedSite
  <2> HIDE DEF k
  <2>5. a.dom[k] = a.dom[i]
    <3>1. i \in Nat /\ k \in Nat
      BY <2>2, <2>3, DialogAssumption
    <3>2. CASE k = i
      BY <3>2
    <3>3. CASE k > i
      BY <2>3, <3>3 DEF Parted
    <3> QED BY <2>3, <3>1, <3>2, <3>3
  <2>6. a.dom[i] \in n.sites
    BY <1>3, <2>1, <2>4, <2>5
  <2> QED BY <2>6, <1>4, <1>5
<1> QED BY <1>5, <1>7, <1>8, <1>9 DEF r

LEMMA WizardMakes ==
  ASSUME NEW d, NEW a, NEW c, \A i \in d.on : a.dom[i] \in Names
  PROVE  LET r == Wizard(d, a, c) IN
         Shaped(r) /\ OneHost(r) /\ Sited(r, {}) /\ FreshFacts(r, d) /\ Planned(r) = d.on
<1> DEFINE r == Wizard(d, a, c)
           m == [panel |-> a.panel, sub |-> a.sub, base |-> WizardBase(d, a),
                 protocols |-> [i \in d.on |-> WizardProtocol(d, i, a)],
                 flags |-> WizardFlags(d, a), paths |-> {},
                 decoys |-> FALSE, sites |-> {}, apex |-> NoName, mode |-> "strict",
                 cert |-> c, renewal |-> c.by # "other" \/ a.renew, sidecar |-> FALSE, hosts |-> {},
                 cloud |-> a.cloud]
           w == WithDecoys(m, a.apex)
           x == [w EXCEPT !.mode = "extended"]
           e == IF a.decoys THEN Repath(x, d, a.repath) ELSE m
<1>1. r = WithSidecar(e, a.sidecar)
  BY Zenon DEF Wizard
<1>2. ASSUME NEW i \in d.on
      PROVE  /\ DOMAIN WizardProtocol(d, i, a) = ProtocolFields
             /\ WizardProtocol(d, i, a).dom = a.dom[i] /\ WizardProtocol(d, i, a).facts = Facts(d, i)
  BY DEF WizardProtocol, ProtocolFields
<1>3. /\ DOMAIN m = ManifestFields /\ m.protocols = [i \in d.on |-> WizardProtocol(d, i, a)] /\ m.decoys = FALSE
  BY DEF ManifestFields
<1> HIDE DEF m
<1>4. Planned(m) = d.on /\ \A i \in d.on : m.protocols[i] = WizardProtocol(d, i, a)
  BY <1>3 DEF Planned
<1>5. Shaped(m) /\ FreshFacts(m, d) /\ Sited(m, {})
  BY <1>2, <1>3, <1>4 DEF Shaped, FreshFacts, Sited
<1>6. Shaped(w) /\ w.protocols = m.protocols /\ Planned(w) = Planned(m) /\ Sited(w, {})
  BY <1>5, WithDecoysSited
<1> HIDE DEF w
<1>7. Shaped(x) /\ SameNames(x, w)
  BY <1>6, Plain
<1> HIDE DEF x
<1>8. Shaped(Repath(x, d, a.repath)) /\ SameNames(Repath(x, d, a.repath), x)
  BY <1>7, RepathKeeps
<1>9. Shaped(e) /\ Sited(e, {}) /\ FreshFacts(e, d) /\ Planned(e) = d.on
  <2>1. CASE a.decoys
    <3>1. e = Repath(x, d, a.repath)
      BY <2>1
    <3>2. Sited(e, {})
      BY <3>1, <1>6, <1>7, <1>8, SameNamesKeep
    <3>3. Planned(e) = d.on
      BY <3>1, <1>4, <1>6, <1>7, <1>8 DEF SameNames
    <3>4. FreshFacts(e, d)
      BY <3>1, <1>4, <1>5, <1>6, <1>7, <1>8 DEF SameNames, FreshFacts
    <3> QED BY <3>1, <3>2, <3>3, <3>4, <1>8
  <2>2. CASE ~a.decoys
    BY <2>2, <1>4, <1>5
  <2> QED BY <2>1, <2>2
<1> HIDE DEF e, r
<1>10. Shaped(r) /\ OneHost(r) /\ Planned(r) = Planned(e) /\ r.protocols = e.protocols /\ (\A P : Sited(e, P) => Sited(r, P))
  BY <1>1, <1>9, WithSidecarKeeps
<1> QED BY <1>9, <1>10 DEF FreshFacts, r

-----------------------------------------------------------------------------
(* What a run writes into the panel, and reads again. *)

LEMMA PublishedPanel ==
  ASSUME NEW m, NEW d, Shaped(m), IsDatabase(d), Planned(m) \subseteq DOMAIN d.hosts
  PROVE  LET p == Published(m, d) IN
         /\ IsDatabase(p) /\ DOMAIN p.hosts = DOMAIN d.hosts /\ p.on = d.on
         /\ "paths" \in m.flags => p.cert = m.cert
         /\ \A i \in DOMAIN d.hosts :
              /\ p.hosts[i] = d.hosts[i]
                   \/ (i \in Planned(m) /\ Len(d.hosts[i]) <= 1 /\ p.hosts[i] = <<m.protocols[i].dom>>)
              /\ p.tls[i] = d.tls[i] \/ (i \in Planned(m) /\ p.tls[i] = RewrittenNames(m, d, i))
              /\ Share(p, i) = Share(d, i) \/ (i \in Planned(m) /\ Share(p, i) = m.protocols[i].dom)
<1> DEFINE p == Published(m, d)
           moved == {i \in Planned(m) : m.protocols[i].sync}
           I == DOMAIN d.hosts
           Fields == {"web", "sub", "uri", "cert", "on", "hosts", "share", "tls", "direct", "rooted"}
<1>1. /\ DOMAIN d = Fields /\ d.on \subseteq I
      /\ d.hosts \in [I -> Seq(Names)] /\ d.share \in [I -> Names \cup {NoName}]
      /\ d.tls \in [I -> SUBSET Names]
  BY DEF IsDatabase
<1>2. CASE ~Publishes(m)
  <2>1. p = [d EXCEPT !.rooted = @ \ m.paths]
    BY <1>2 DEF Published
  <2>2. /\ DOMAIN p = Fields /\ p.on = d.on /\ p.hosts = d.hosts /\ p.share = d.share /\ p.tls = d.tls
    BY <1>1, <2>1
  <2> HIDE DEF p
  <2>3. IsDatabase(p)
    BY <1>1, <2>2 DEF IsDatabase
  <2>4. "paths" \notin m.flags
    BY <1>2 DEF Publishes
  <2>5. \A i : Share(p, i) = Share(d, i)
    BY <2>2 DEF Share
  <2> QED BY <2>2, <2>3, <2>4, <2>5 DEF p
<1>3. CASE Publishes(m)
  <2> DEFINE tls == [i \in I |-> IF i \in Planned(m) THEN RewrittenNames(m, d, i) ELSE d.tls[i]]
             share == [i \in I |-> IF i \in moved THEN m.protocols[i].dom ELSE d.share[i]]
             hosts == [i \in I |-> IF i \in moved /\ Len(d.hosts[i]) <= 1 THEN <<m.protocols[i].dom>>
                                   ELSE d.hosts[i]]
  <2>1. DOMAIN d.tls = I /\ DOMAIN d.share = I
    BY <1>1
  <2>2. /\ DOMAIN p = Fields /\ p.on = d.on
        /\ p.tls = tls /\ p.share = share /\ p.hosts = hosts
        /\ "paths" \in m.flags => p.cert = m.cert
    BY <1>1, <1>3, <2>1 DEF Published
  <2> HIDE DEF p
  <2>3. ASSUME NEW i \in Planned(m)
        PROVE  i \in I /\ m.protocols[i].dom \in Names /\ <<m.protocols[i].dom>> \in Seq(Names)
    BY DEF Shaped
  <2>4. hosts \in [I -> Seq(Names)] /\ share \in [I -> Names \cup {NoName}]
    BY <1>1, <2>3
  <2>5. ASSUME NEW i \in Planned(m) PROVE RewrittenNames(m, d, i) \subseteq Names
    <3>1. d.tls[i] \subseteq Names
      BY <1>1, <2>3
    <3> QED BY <2>3, <3>1 DEF RewrittenNames
  <2>6. tls \in [I -> SUBSET Names]
    BY <1>1, <2>5
  <2>7. DOMAIN hosts = I
    OBVIOUS
  <2>8. IsDatabase(p) /\ DOMAIN p.hosts = I
    <3> HIDE DEF hosts, tls, share
    <3> QED BY <1>1, <2>2, <2>4, <2>6, <2>7 DEF IsDatabase
  <2>9. ASSUME NEW i \in I
        PROVE  Share(p, i) = Share(d, i) \/ (i \in Planned(m) /\ Share(p, i) = m.protocols[i].dom)
    <3>1. d.hosts[i] \in Seq(Names)
      BY <1>1
    <3>2. CASE i \in moved /\ Len(d.hosts[i]) <= 1
      <4>1. p.hosts[i] = <<m.protocols[i].dom>> /\ i \in Planned(m)
        BY <2>2, <3>2
      <4> HIDE DEF moved, hosts, share, tls
      <4> QED BY <4>1 DEF Share
    <3>3. CASE i \in moved /\ ~(Len(d.hosts[i]) <= 1)
      <4>1. d.hosts[i] # <<>>
        BY <3>1, <3>3
      <4>2. p.hosts[i] = d.hosts[i]
        BY <2>2, <3>3
      <4> HIDE DEF moved, hosts, share, tls
      <4> QED BY <4>1, <4>2 DEF Share
    <3>4. CASE i \notin moved
      <4>1. p.hosts[i] = d.hosts[i] /\ p.share[i] = d.share[i]
        BY <2>2, <3>4
      <4> HIDE DEF moved, hosts, share, tls
      <4> QED BY <4>1 DEF Share
    <3> QED BY <3>2, <3>3, <3>4
  <2>10. ASSUME NEW i \in I
         PROVE  /\ p.hosts[i] = d.hosts[i]
                     \/ (i \in Planned(m) /\ Len(d.hosts[i]) <= 1 /\ p.hosts[i] = <<m.protocols[i].dom>>)
                /\ p.tls[i] = d.tls[i] \/ (i \in Planned(m) /\ p.tls[i] = RewrittenNames(m, d, i))
    <3>1. p.tls[i] = tls[i] /\ p.hosts[i] = hosts[i]
      BY <2>2
    <3>2. hosts[i] = IF i \in moved /\ Len(d.hosts[i]) <= 1 THEN <<m.protocols[i].dom>> ELSE d.hosts[i]
      OBVIOUS
    <3>3. i \in moved => i \in Planned(m)
      OBVIOUS
    <3>4. tls[i] = IF i \in Planned(m) THEN RewrittenNames(m, d, i) ELSE d.tls[i]
      OBVIOUS
    <3> HIDE DEF moved, hosts, share, tls
    <3> QED BY <3>1, <3>2, <3>3, <3>4
  <2> HIDE DEF moved, hosts, share, tls
  <2> QED BY <2>2, <2>8, <2>9, <2>10 DEF p
<1> QED BY <1>2, <1>3

LEMMA RereadKeeps ==
  ASSUME NEW m, NEW d, Shaped(m)
  PROVE  LET r == Reread(m, d) IN
         /\ Shaped(r) /\ Planned(r) = Planned(m)
         /\ r = m \/ FreshFacts(r, d)
         /\ \A i \in Planned(m) : r.protocols[i].dom = m.protocols[i].dom
         /\ OneHost(m) => OneHost(r)
         /\ \A P : Sited(m, P) => Sited(r, P)
         /\ r.flags = m.flags /\ r.panel = m.panel /\ r.sub = m.sub /\ r.cert = m.cert /\ r.cloud = m.cloud
<1> DEFINE r == Reread(m, d)
           protocol(i) == [m.protocols[i] EXCEPT !.facts = Facts(d, i), !.ends = HostNames(d, i),
                                                 !.sni = ServerNames(d, i)]
           x == [m EXCEPT !.protocols = [i \in Planned(m) |-> protocol(i)]]
<1>1. r = m \/ r = x
  BY DEF Reread
<1>2. CASE r = m
  BY <1>2
<1>3. CASE r = x
  <2>1. DOMAIN m = ManifestFields
    BY DEF Shaped
  <2>2. /\ DOMAIN x = ManifestFields /\ x.protocols = [i \in Planned(m) |-> protocol(i)]
        /\ x.sub = m.sub /\ x.sidecar = m.sidecar /\ x.hosts = m.hosts /\ x.decoys = m.decoys
        /\ x.sites = m.sites /\ x.flags = m.flags /\ x.panel = m.panel /\ x.cert = m.cert /\ x.cloud = m.cloud
    BY <2>1 DEF ManifestFields
  <2>3. ASSUME NEW i \in Planned(m)
        PROVE  /\ DOMAIN protocol(i) = ProtocolFields
               /\ protocol(i).dom = m.protocols[i].dom /\ protocol(i).facts = Facts(d, i)
    <3>1. DOMAIN m.protocols[i] = ProtocolFields
      BY DEF Shaped
    <3> QED BY <3>1 DEF ProtocolFields
  <2> HIDE DEF x, protocol
  <2>4. Planned(x) = Planned(m) /\ \A i \in Planned(m) : x.protocols[i] = protocol(i)
    BY <2>2 DEF Planned
  <2>5. Shaped(x) /\ FreshFacts(x, d)
    BY <2>2, <2>3, <2>4 DEF Shaped, FreshFacts
  <2>6. (OneHost(m) => OneHost(x)) /\ (\A P : Sited(m, P) => Sited(x, P))
    BY <2>2, <2>3, <2>4 DEF OneHost, Sited
  <2> HIDE DEF r
  <2> QED BY <1>3, <2>2, <2>3, <2>4, <2>5, <2>6 DEF r
<1> QED BY <1>1, <1>2, <1>3

-----------------------------------------------------------------------------
(* The invariant of the dialogs. *)

LEMMA InitDialogs == DialogInit => DialogIInv /\ SitesKept
<1> SUFFICES ASSUME DialogInit PROVE DialogIInv /\ SitesKept
  OBVIOUS
<1>1. DialogTypeOK
  <2>1. certs \subseteq Certificates \cup {Ordered(z[2]) : z \in Zones}
    BY DEF DialogInit
  <2>2. /\ touched \in BOOLEAN /\ edits \in 0..MaxEdits /\ faults \in 0..MaxFaults
        /\ dialogs \in 0..MaxDialogs
    <3>1. MaxDialogs \in Nat /\ MaxEdits \in Nat /\ MaxFaults \in Nat
      BY DialogAssumption
    <3>2. touched = FALSE /\ edits = 0 /\ faults = 0 /\ dialogs = 0
      BY DEF DialogInit
    <3>3. /\ FALSE \in BOOLEAN /\ 0 \in 0..MaxEdits /\ 0 \in 0..MaxFaults /\ 0 \in 0..MaxDialogs
      BY <3>1
    <3> QED BY <3>2, <3>3, Zenon
  <2>3. saved = None /\ failed = None /\ pending = None /\ job = None
    BY DEF DialogInit
  <2> QED BY <2>1, <2>2, <2>3 DEF DialogTypeOK
<1>2. PanelKept
  <2>1. IsDatabase(db)
    BY DialogAssumption DEF DialogInit
  <2>2. DOMAIN db.hosts \subseteq Inbounds
    BY DEF DialogInit, Inbounds
  <2> QED BY <2>1, <2>2 DEF PanelKept
<1> QED BY <1>1, <1>2 DEF DialogInit, DialogIInv, SitesKept, SavedKept, FailedKept, FileKept, PendingKept, JobKept

LEMMA SavedStays == ASSUME SavedKept, UNCHANGED <<saved, touched, db>> PROVE SavedKept'
BY DEF SavedKept, InStep

LEMMA StoredStay ==
  ASSUME DialogIInv
  PROVE  /\ UNCHANGED failed => FailedKept'
         /\ UNCHANGED file => FileKept'
         /\ UNCHANGED pending => PendingKept'
         /\ UNCHANGED job => JobKept'
         /\ UNCHANGED db => PanelKept'
BY DEF DialogIInv, FailedKept, FileKept, PendingKept, JobKept, PanelKept

\* What a step of the world leaves of the counters.
LEMMA EditTypes == ASSUME DialogTypeOK, Edit PROVE edits' \in 0..MaxEdits
BY DialogAssumption DEF DialogTypeOK, Edit

LEMMA PanelEdited ==
  ASSUME DialogIInv, Edit, touched' = TRUE, PanelKept',
         UNCHANGED <<certs, saved, failed, pending, job, file, dialogs, faults>>
  PROVE  DialogIInv'
<1>1. DialogTypeOK'
  BY EditTypes DEF DialogIInv, DialogTypeOK
<1>2. SavedKept'
  BY DEF DialogIInv, SavedKept
<1> QED BY <1>1, <1>2, StoredStay DEF DialogIInv

LEMMA PanelSteps ==
  ASSUME DialogIInv
  PROVE  /\ \A i \in DOMAIN db.hosts, n \in PanelNames :
              PanelHost(i, <<n>>) \/ PanelHost(i, db.hosts[i] \o <<n>>) => DialogIInv'
         /\ \A n \in PanelNames : PanelDomain(n) => DialogIInv'
         /\ \A i \in DOMAIN db.hosts : PanelSwitch(i) => DialogIInv'
<1> DEFINE I == DOMAIN db.hosts
           Fields == {"web", "sub", "uri", "cert", "on", "hosts", "share", "tls", "direct", "rooted"}
<1>1. /\ DOMAIN db = Fields /\ db.on \subseteq I
      /\ db.hosts \in [I -> Seq(Names)] /\ db.share \in [I -> Names \cup {NoName}]
      /\ db.tls \in [I -> SUBSET Names] /\ I \subseteq Inbounds
  BY DEF DialogIInv, PanelKept, IsDatabase
<1>2. ASSUME NEW i \in I, NEW hosts \in Seq(Names), PanelHost(i, hosts)
      PROVE  DialogIInv'
  <2>1. /\ DOMAIN db' = Fields /\ db'.on = db.on /\ db'.share = db.share /\ db'.tls = db.tls
        /\ db'.hosts = [db.hosts EXCEPT ![i] = hosts]
    BY <1>1, <1>2 DEF PanelHost
  <2>2. db'.hosts \in [I -> Seq(Names)] /\ DOMAIN db'.hosts = I
    BY <1>1, <2>1
  <2>3. PanelKept'
    <3>1. IsDatabase(db')
      BY <1>1, <2>1, <2>2 DEF IsDatabase
    <3> QED BY <1>1, <2>2, <3>1 DEF PanelKept
  <2> QED BY <1>2, <2>3, PanelEdited DEF PanelHost
<1>3. ASSUME NEW n \in PanelNames, PanelDomain(n)
      PROVE  DialogIInv'
  <2>1. /\ DOMAIN db' = Fields /\ db'.on = db.on /\ db'.share = db.share /\ db'.tls = db.tls
        /\ db'.hosts = db.hosts
    BY <1>1, <1>3 DEF PanelDomain
  <2>2. PanelKept'
    <3>1. IsDatabase(db')
      BY <1>1, <2>1 DEF IsDatabase
    <3> QED BY <1>1, <2>1, <3>1 DEF PanelKept
  <2> QED BY <1>3, <2>2, PanelEdited DEF PanelDomain
<1>4. ASSUME NEW i \in I, PanelSwitch(i)
      PROVE  DialogIInv'
  <2>1. /\ DOMAIN db' = Fields /\ db'.on \subseteq I /\ db'.share = db.share /\ db'.tls = db.tls
        /\ db'.hosts = db.hosts
    BY <1>1, <1>4 DEF PanelSwitch
  <2>2. PanelKept'
    <3>1. IsDatabase(db')
      BY <1>1, <2>1 DEF IsDatabase
    <3> QED BY <1>1, <2>1, <3>1 DEF PanelKept
  <2> QED BY <1>4, <2>2, PanelEdited DEF PanelSwitch
<1>5. ASSUME NEW i \in I, NEW n \in PanelNames
      PROVE  <<n>> \in Seq(Names) /\ db.hosts[i] \o <<n>> \in Seq(Names)
  <2>1. n \in Names /\ db.hosts[i] \in Seq(Names)
    BY <1>1, DialogAssumption
  <2> QED BY <2>1
<1> QED BY <1>2, <1>3, <1>4, <1>5

\* No name depends on the restriction that another session switches.
LEMMA OtherSessionStep == ASSUME DialogIInv, OtherSession PROVE DialogIInv'
<1>1. /\ saved # None /\ DOMAIN saved = {"m", "run", "seen"} /\ saved.run \in Nat
      /\ Made(saved.m, saved.seen) /\ Covers(saved.m.cert, Required(saved.m)) /\ (~touched => InStep)
  BY DEF OtherSession, DialogIInv, DialogTypeOK, SavedKept
<1>2. DOMAIN saved.m = ManifestFields
  BY <1>1 DEF Made, Shaped
<1>3. /\ DOMAIN saved' = {"m", "run", "seen"} /\ saved'.run \in Nat /\ saved'.seen = saved.seen
      /\ saved'.m = [saved.m EXCEPT !.cloud = ~@]
  BY <1>1 DEF OtherSession
<1>4. /\ \A f \in ManifestFields \ {"cloud"} : saved'.m[f] = saved.m[f]
      /\ DOMAIN saved'.m = ManifestFields
  BY <1>2, <1>3
<1>5. Shaped(saved'.m) /\ SameNames(saved'.m, saved.m)
  BY <1>1, <1>4, SameProtocols DEF Made, ManifestFields
<1>6. Made(saved'.m, saved'.seen)
  BY <1>1, <1>3, <1>5, SameNamesKeep DEF Made
<1>7. /\ saved'.m.cert = saved.m.cert /\ saved'.m.panel = saved.m.panel /\ saved'.m.sub = saved.m.sub
      /\ saved'.m.decoys = saved.m.decoys /\ saved'.m.sites = saved.m.sites /\ saved'.m.flags = saved.m.flags
      /\ saved'.m.protocols = saved.m.protocols
  BY <1>4 DEF ManifestFields
<1>8. UNCHANGED <<db, certs, failed, pending, job, file, touched, dialogs, faults, parted>>
  BY DEF OtherSession
<1>9. Covers(saved'.m.cert, Required(saved'.m))
  BY <1>1, <1>7 DEF Covers, Required
<1>10. ~touched' => InStep'
  BY <1>1, <1>7, <1>8 DEF InStep, SameInbounds, Planned
<1>11. SavedKept'
  BY <1>6, <1>9, <1>10 DEF SavedKept
<1>12. DialogTypeOK'
  BY <1>3, <1>8, EditTypes DEF DialogIInv, DialogTypeOK, OtherSession
<1> QED BY <1>8, <1>11, <1>12, StoredStay DEF DialogIInv

LEMMA FileEditedStep == ASSUME DialogIInv, FileEdited PROVE DialogIInv'
<1>1. file # None /\ DOMAIN file = {"m", "seen"} /\ Made(file.m, file.seen)
  BY DEF FileEdited, DialogIInv, FileKept
<1>2. /\ DOMAIN file' = {"m", "seen"} /\ file'.seen = file.seen
      /\ file'.m = [file.m EXCEPT !.cloud = ~@]
  BY <1>1 DEF FileEdited
<1>3. Shaped(file'.m) /\ SameNames(file'.m, file.m)
  <2>1. DOMAIN file.m = ManifestFields
    BY <1>1 DEF Made, Shaped
  <2>2. /\ \A f \in ManifestFields \ {"cloud"} : file'.m[f] = file.m[f]
        /\ DOMAIN file'.m = ManifestFields
    BY <1>2, <2>1
  <2> QED BY <1>1, <2>2, SameProtocols DEF Made, ManifestFields
<1>4. FileKept'
  BY <1>1, <1>2, <1>3, SameNamesKeep DEF FileKept, Made
<1>5. UNCHANGED <<db, certs, saved, failed, pending, job, touched, dialogs, faults, parted>>
  BY DEF FileEdited
<1>6. DialogTypeOK'
  BY <1>5, EditTypes DEF DialogIInv, DialogTypeOK, FileEdited
<1> QED BY <1>4, <1>5, <1>6, SavedStays, StoredStay DEF DialogIInv

-----------------------------------------------------------------------------
(* The dialogs. *)

\* A draft with a kind that the intention may have.
Draft(kind, m, read, zones) ==
    /\ kind \in Kinds
    /\ Made(m, read)
    /\ kind = "zone" => MovedTo(m, zones)
    /\ kind = "file" => m.cloud = file.m.cloud

LEMMA LeftKeeps ==
  ASSUME DialogIInv, NEW kind, NEW m, NEW read, NEW zones, kind \in Kinds, Made(m, read),
         kind = "zone" => MovedTo(m, zones), pending' = Left(kind, m, read, zones)
  PROVE  PendingKept' /\ (pending' # None => pending'.kind \in Kinds \ Apart)
<1>1. CASE kind \in Apart
  BY <1>1 DEF Left, DialogIInv, DialogTypeOK, PendingKept
<1>2. CASE kind \notin Apart
  <2>1. /\ pending'.kind = kind /\ pending'.m = m /\ pending'.seen = read /\ pending'.zones = zones
    BY <1>2 DEF Left, Intention
  <2> QED BY <1>2, <2>1 DEF PendingKept
<1> QED BY <1>1, <1>2

LEMMA OfferKeeps ==
  ASSUME DialogIInv, NEW kind, NEW m, NEW read, NEW zones,
         Draft(kind, m, read, zones), Offer(kind, m, read, zones)
  PROVE  /\ PendingKept' /\ JobKept'
         /\ pending' # None => pending'.kind \in Kinds \ Apart
         /\ job' # None => job'.kind \in Kinds /\ job'.stage \in {"order", "shown"}
<1>1. PICK prepared \in BOOLEAN :
        IF Valid(m) /\ prepared
        THEN /\ job' = [stage |-> "shown", kind |-> kind, m |-> m, seen |-> read, zones |-> zones,
                        seal |-> IF kind = "file" THEN file ELSE Run]
             /\ pending' = IF kind \in Apart THEN pending ELSE None
        ELSE job' = None /\ pending' = Left(kind, m, read, zones)
  BY DEF Offer
<1>2. CASE Valid(m) /\ prepared
  <2>1. /\ job' = [stage |-> "shown", kind |-> kind, m |-> m, seen |-> read, zones |-> zones,
                   seal |-> IF kind = "file" THEN file ELSE Run]
        /\ pending' = IF kind \in Apart THEN pending ELSE None
    BY <1>1, <1>2
  <2>2. /\ job'.stage = "shown" /\ job'.kind = kind /\ job'.m = m /\ job'.seen = read /\ job'.zones = zones
        /\ kind = "file" => job'.seal = file
    BY <2>1
  <2>3. JobKept'
    BY <2>2 DEF JobKept, Draft
  <2>4. PendingKept' /\ (pending' # None => pending'.kind \in Kinds \ Apart)
    BY <2>1 DEF PendingKept, DialogIInv, DialogTypeOK
  <2> QED BY <2>2, <2>3, <2>4 DEF Draft
<1>3. CASE ~(Valid(m) /\ prepared)
  <2>1. job' = None /\ pending' = Left(kind, m, read, zones)
    BY <1>1, <1>3
  <2> QED BY <2>1, LeftKeeps DEF Draft, JobKept
<1> QED BY <1>2, <1>3

LEMMA OpenTypes == ASSUME DialogTypeOK, Open PROVE dialogs' \in 0..MaxDialogs
BY DialogAssumption DEF DialogTypeOK, Open

LEMMA OpenedKeeps ==
  ASSUME DialogIInv, NEW kind, NEW m, NEW read, NEW zones, Draft(kind, m, read, zones),
         Open, Offer(kind, m, read, zones),
         UNCHANGED <<db, certs, saved, failed, file, touched, edits, faults>>
  PROVE  DialogIInv'
<1>1. /\ PendingKept' /\ JobKept'
      /\ pending' # None => pending'.kind \in Kinds \ Apart
      /\ job' # None => job'.kind \in Kinds /\ job'.stage \in {"order", "shown"}
  BY OfferKeeps
<1>2. DialogTypeOK'
  BY <1>1, OpenTypes DEF DialogIInv, DialogTypeOK
<1> QED BY <1>1, <1>2, SavedStays, StoredStay DEF DialogIInv

LEMMA DialogKeeps ==
  ASSUME DialogIInv, NEW kind, NEW m, NEW read, Dialog(kind, m, read),
         kind \in Kinds \ {"zone", "file"}, Made(m, read)
  PROVE  DialogIInv'
<1>1. Draft(kind, m, read, None)
  BY DEF Draft
<1> QED BY <1>1, OpenedKeeps DEF Dialog

LEMMA FreshMade ==
  ASSUME DialogIInv, NEW m, Shaped(m), OneHost(m), FreshFacts(m, db), Planned(m) = db.on
  PROVE  Made(m, Seen)
<1>1. \A i \in Planned(m) : Seen[i] = Share(db, i)
  BY DEF Seen, DialogIInv, PanelKept, IsDatabase
<1> QED BY <1>1, FreshKnown DEF Made

LEMMA InitialStep ==
  ASSUME DialogIInv, NEW a \in WizardAnswers, NEW c
  PROVE  /\ Made(Wizard(db, a, c), Seen) /\ Sited(Wizard(db, a, c), {})
         /\ Initial(a, c) => DialogIInv'
         /\ PlanToFile(a, c) => DialogIInv'
<1>1. \A i \in db.on : a.dom[i] \in Names
  <2>1. a.dom \in [Inbounds -> Names]
    BY DialogAssumption
  <2>2. db.on \subseteq Inbounds
    BY DEF DialogIInv, PanelKept, IsDatabase
  <2> QED BY <2>1, <2>2
<1>2. Made(Wizard(db, a, c), Seen) /\ Sited(Wizard(db, a, c), {})
  BY <1>1, WizardMakes, FreshMade
<1>3. ASSUME Initial(a, c) PROVE DialogIInv'
  BY <1>2, <1>3, DialogKeeps DEF Initial, Kinds
<1>4. ASSUME PlanToFile(a, c) PROVE DialogIInv'
  <2>1. /\ file' = [m |-> Wizard(db, a, c), seen |-> Seen] /\ Open
        /\ UNCHANGED <<db, certs, saved, failed, pending, job, touched, edits, faults, parted>>
    BY <1>4 DEF PlanToFile
  <2>2. FileKept'
    BY <1>2, <2>1 DEF FileKept
  <2>3. DialogTypeOK'
    BY <2>1, OpenTypes DEF DialogIInv, DialogTypeOK
  <2> QED BY <2>1, <2>2, <2>3, SavedStays, StoredStay DEF DialogIInv
<1> QED BY <1>2, <1>3, <1>4

\* What a dialog about the saved manifest makes with a fresh look at the panel.
LEMMA SavedRefreshed ==
  ASSUME DialogIInv, saved # None, SameInbounds(saved.m, db)
  PROVE  LET r == Refresh(saved.m, db) IN
         /\ Made(r, Seen) /\ Sited(r, {}) /\ FreshFacts(r, db) /\ Planned(r) = db.on
         /\ \A i \in db.on : Share(db, i) # NoName => r.protocols[i].dom = Share(db, i)
<1>1. Shaped(saved.m) /\ Planned(saved.m) = db.on /\ IsDatabase(db) /\ db.on \subseteq DOMAIN db.hosts
  BY DEF DialogIInv, SavedKept, Made, SameInbounds, PanelKept, IsDatabase
<1>2. LET r == Refresh(saved.m, db) IN
      /\ Shaped(r) /\ OneHost(r) /\ FreshFacts(r, db) /\ Sited(r, {}) /\ Planned(r) = db.on
      /\ \A i \in db.on : Share(db, i) # NoName => r.protocols[i].dom = Share(db, i)
  BY <1>1, Refreshed
<1> QED BY <1>2, FreshMade

LEMMA DomainStep ==
  ASSUME DialogIInv, NEW a \in DomainAnswers, NEW c, Domain(a, c)
  PROVE  DialogIInv'
<1> DEFINE m == Reconfigure(saved.m, db, a, c)
<1>1. Shaped(saved.m) /\ Planned(saved.m) = db.on
  BY DEF Domain, DialogIInv, SavedKept, Made, SameInbounds
<1>2. \A i \in Planned(saved.m) : a.dom[i] \in Names
  <2>1. a.dom \in [Inbounds -> Names]
    BY DialogAssumption
  <2>2. db.on \subseteq Inbounds
    BY DEF DialogIInv, PanelKept, IsDatabase
  <2> QED BY <1>1, <2>1, <2>2
<1>3. Shaped(m) /\ OneHost(m) /\ FreshFacts(m, db) /\ Planned(m) = db.on
  BY <1>1, <1>2, Reconfigured
<1>4. /\ Open /\ Offer("domains", m, Seen, None)
      /\ UNCHANGED <<db, certs, saved, failed, file, touched, edits, faults>>
  BY Zenon DEF Domain
<1> HIDE DEF m
<1>5. Made(m, Seen)
  BY <1>3, FreshMade
<1>6. Draft("domains", m, Seen, None)
  BY <1>5 DEF Draft, Kinds
<1> QED BY <1>4, <1>6, OpenedKeeps

\* The manifest that a move to another zone starts from, and the same with a certificate.
LEMMA ZoneMade ==
  ASSUME DialogIInv, NEW z \in Zones, saved # None, SameInbounds(saved.m, db)
  PROVE  LET m == Migrate(Refresh(saved.m, db), z[1], z[2]) IN
         /\ Made(m, Seen) /\ Sited(m, {}) /\ MovedTo(m, z)
         /\ \A c : LET s == Switched(m, c) IN Made(s, Seen) /\ Sited(s, {}) /\ MovedTo(s, z)
<1> DEFINE n == Refresh(saved.m, db)
           m == Migrate(n, z[1], z[2])
<1>1. /\ Shaped(n) /\ FreshFacts(n, db) /\ Planned(n) = db.on
      /\ \A i \in db.on : Share(db, i) # NoName => n.protocols[i].dom = Share(db, i)
  BY SavedRefreshed DEF Made
<1>2. z[2] \in STRING
  BY DialogAssumption
<1> HIDE DEF n
<1>3. /\ Shaped(m) /\ OneHost(m) /\ Sited(m, {}) /\ Planned(m) = Planned(n)
      /\ \A i \in Planned(n) : /\ m.protocols[i].dom = Replace(n.protocols[i].dom, z[1], z[2])
                               /\ m.protocols[i].facts = n.protocols[i].facts
  BY <1>1, <1>2, Migrated
<1> HIDE DEF m
<1>4. FreshFacts(m, db)
  BY <1>1, <1>3 DEF FreshFacts
<1>5. Made(m, Seen)
  BY <1>1, <1>3, <1>4, FreshMade
<1>6. MovedTo(m, z)
  <2> SUFFICES ASSUME NEW i \in Planned(m), m.protocols[i].facts.share # NoName
               PROVE  m.protocols[i].dom = Replace(m.protocols[i].facts.share, z[1], z[2])
    BY DEF MovedTo
  <2>1. m.protocols[i].facts = Facts(db, i)
    BY <1>4 DEF FreshFacts
  <2>2. m.protocols[i].facts.share = Share(db, i)
    BY <2>1 DEF Facts
  <2>3. n.protocols[i].dom = Share(db, i)
    BY <1>1, <1>3, <2>2
  <2> QED BY <1>3, <2>2, <2>3
<1>7. ASSUME NEW c PROVE LET s == Switched(m, c) IN Made(s, Seen) /\ Sited(s, {}) /\ MovedTo(s, z)
  <2>1. Shaped(Switched(m, c)) /\ SameNames(Switched(m, c), m)
    BY <1>3, SwitchedTo
  <2> QED BY <1>3, <1>5, <1>6, <2>1, SameNamesKeep DEF Made
<1> QED BY <1>3, <1>5, <1>6, <1>7 DEF m, n

\* An order was placed for a certificate of a zone.
LEMMA OrderKeeps ==
  ASSUME DialogIInv, NEW kind \in {"zone", "certbot"}, NEW m, NEW read, NEW zones, NEW z \in Zones,
         Made(m, read), kind = "zone" => MovedTo(m, zones), Open,
         job' = [stage |-> "order", kind |-> kind, m |-> m, seen |-> read, zones |-> zones, seal |-> z[2]],
         UNCHANGED <<db, certs, saved, failed, pending, file, touched, edits, faults>>
  PROVE  DialogIInv'
<1>1. /\ job'.stage = "order" /\ job'.kind = kind /\ job'.m = m /\ job'.seen = read /\ job'.zones = zones
      /\ job'.seal = z[2]
  OBVIOUS
<1>2. JobKept'
  BY <1>1 DEF JobKept
<1>3. DialogTypeOK'
  BY <1>1, OpenTypes DEF DialogIInv, DialogTypeOK, Kinds
<1> QED BY <1>2, <1>3, SavedStays, StoredStay DEF DialogIInv

LEMMA ZoneStep == ASSUME DialogIInv, NEW z \in Zones, Zone(z) PROVE DialogIInv'
<1> DEFINE m == Migrate(Refresh(saved.m, db), z[1], z[2])
           found == {c \in certs : Covers(c, Required(m))}
<1>1. /\ saved # None /\ SameInbounds(saved.m, db)
      /\ \/ \E c \in found : Open /\ Offer("zone", Switched(m, c), Seen, z)
         \/ /\ Open /\ UNCHANGED pending
            /\ job' = [stage |-> "order", kind |-> "zone", m |-> m, seen |-> Seen, zones |-> z, seal |-> z[2]]
      /\ UNCHANGED <<db, certs, saved, failed, file, touched, edits, faults, parted>>
  BY Zenon DEF Zone
<1>2. /\ Made(m, Seen) /\ MovedTo(m, z)
      /\ \A c : Made(Switched(m, c), Seen) /\ MovedTo(Switched(m, c), z)
  BY <1>1, ZoneMade
<1> HIDE DEF m
<1>3. ASSUME NEW c, Open, Offer("zone", Switched(m, c), Seen, z) PROVE DialogIInv'
  <2>1. Draft("zone", Switched(m, c), Seen, z)
    BY <1>2 DEF Draft, Kinds
  <2> QED BY <1>1, <1>3, <2>1, OpenedKeeps
<1>4. ASSUME Open, UNCHANGED pending,
             job' = [stage |-> "order", kind |-> "zone", m |-> m, seen |-> Seen, zones |-> z, seal |-> z[2]]
      PROVE  DialogIInv'
  BY <1>1, <1>2, <1>4, OrderKeeps
<1> QED BY <1>1, <1>3, <1>4

LEMMA CertbotStep == ASSUME DialogIInv, NEW z \in Zones, Certbot(z[2]) PROVE DialogIInv'
<1>1. Made(saved.m, saved.seen)
  BY DEF Certbot, DialogIInv, SavedKept
<1> QED BY <1>1, OrderKeeps DEF Certbot

LEMMA CertificateIssuedStep == ASSUME DialogIInv, CertificateIssued PROVE DialogIInv'
<1> DEFINE c == Ordered(job.seal)
           m == IF job.kind = "zone" THEN Switched(job.m, c)
                ELSE [job.m EXCEPT !.cert = c, !.renewal = TRUE, !.flags = @ \cup {"paths"}]
<1>1. /\ job # None /\ job.stage = "order" /\ certs' = certs \cup {c}
      /\ Offer(job.kind, m, job.seen, job.zones)
      /\ UNCHANGED <<db, saved, failed, file, touched, dialogs, edits, faults, parted>>
  BY Zenon DEF CertificateIssued
<1>2. /\ Made(job.m, job.seen) /\ (job.kind = "zone" => MovedTo(job.m, job.zones))
      /\ job.kind \in {"zone", "certbot"}
      /\ \E z \in Zones : job.seal = z[2]
  BY <1>1 DEF DialogIInv, JobKept
<1>3. Shaped(m) /\ SameNames(m, job.m)
  <2>1. CASE job.kind = "zone"
    BY <1>2, <2>1, SwitchedTo DEF Made
  <2>2. CASE job.kind # "zone"
    <3>1. m = [job.m EXCEPT !.cert = c, !.renewal = TRUE, !.flags = @ \cup {"paths"}]
      BY <2>2
    <3>2. Shaped(job.m) /\ DOMAIN job.m = ManifestFields
      BY <1>2 DEF Made, Shaped
    <3>3. /\ DOMAIN m = ManifestFields /\ m.protocols = job.m.protocols
          /\ m.sub = job.m.sub /\ m.sidecar = job.m.sidecar /\ m.hosts = job.m.hosts
          /\ m.decoys = job.m.decoys /\ m.sites = job.m.sites
      BY <3>1, <3>2 DEF ManifestFields
    <3> HIDE DEF m
    <3> QED BY <3>2, <3>3, SameProtocols
  <2> QED BY <2>1, <2>2
<1> HIDE DEF m
<1>4. Draft(job.kind, m, job.seen, job.zones)
  BY <1>2, <1>3, SameNamesKeep DEF Draft, Made, Kinds
<1>5. /\ PendingKept' /\ JobKept'
      /\ pending' # None => pending'.kind \in Kinds \ Apart
      /\ job' # None => job'.kind \in Kinds /\ job'.stage \in {"order", "shown"}
  BY <1>1, <1>4, OfferKeeps
<1>6. c \in {Ordered(z[2]) : z \in Zones}
  BY <1>2
<1>7. certs' \subseteq Certificates \cup {Ordered(z[2]) : z \in Zones}
  BY <1>1, <1>6 DEF DialogIInv, DialogTypeOK
<1>8. DialogTypeOK'
  BY <1>1, <1>5, <1>7 DEF DialogIInv, DialogTypeOK
<1> QED BY <1>1, <1>5, <1>8, SavedStays, StoredStay DEF DialogIInv

\* A manifest that differs from the saved one in what no name depends on.
LEMMA SavedVariant ==
  ASSUME DialogIInv, saved # None, NEW m, Shaped(m), SameNames(m, saved.m)
  PROVE  Made(m, saved.seen)
<1>1. Made(saved.m, saved.seen)
  BY DEF DialogIInv, SavedKept
<1> QED BY <1>1, SameNamesKeep DEF Made

\* The renewal switched on, and the paths of the certificate given to the panel.
RenewalOn == [saved.m EXCEPT !.renewal = TRUE]
WithPaths == [RenewalOn EXCEPT !.flags = @ \cup {"paths"}]

LEMMA RenewalVariants ==
  ASSUME Shaped(saved.m)
  PROVE  /\ Shaped(RenewalOn) /\ SameNames(RenewalOn, saved.m)
         /\ Shaped(WithPaths) /\ SameNames(WithPaths, saved.m)
<1>1. DOMAIN saved.m = ManifestFields
  BY DEF Shaped
<1>2. /\ DOMAIN RenewalOn = ManifestFields /\ DOMAIN WithPaths = ManifestFields
      /\ \A f \in ManifestFields \ {"renewal", "flags"} :
            RenewalOn[f] = saved.m[f] /\ WithPaths[f] = saved.m[f]
  BY <1>1 DEF RenewalOn, WithPaths, ManifestFields
<1> QED BY <1>2, SameProtocols DEF ManifestFields

LEMMA RenewalStep == ASSUME DialogIInv, Renewal PROVE DialogIInv'
<1>1. saved # None /\ (Dialog("renewal", RenewalOn, saved.seen) \/ Dialog("paths", WithPaths, saved.seen))
  BY Zenon DEF Renewal, RenewalOn, WithPaths
<1>2. Shaped(saved.m)
  BY <1>1 DEF DialogIInv, SavedKept, Made
<1>3. Made(RenewalOn, saved.seen) /\ Made(WithPaths, saved.seen)
  BY <1>1, <1>2, RenewalVariants, SavedVariant
<1> QED BY <1>1, <1>3, DialogKeeps DEF Kinds

\* The extended mode, of any manifest.
LEMMA ExtendedMade ==
  ASSUME DialogIInv, NEW m, Shaped(m), Planned(m) = db.on
  PROVE  /\ Shaped(Extended(m)) /\ OneHost(Extended(m)) /\ FreshFacts(Extended(m), db)
         /\ Planned(Extended(m)) = db.on /\ Sited(Extended(m), {})
<1> DEFINE n == Refresh(m, db)
<1>1. IsDatabase(db) /\ db.on \subseteq DOMAIN db.hosts
  BY DEF DialogIInv, PanelKept, IsDatabase
<1>2. Shaped(n) /\ OneHost(n) /\ FreshFacts(n, db) /\ Sited(n, {}) /\ Planned(n) = db.on
  BY <1>1, Refreshed
<1> HIDE DEF n
<1>3. Shaped([n EXCEPT !.mode = "extended"]) /\ SameNames([n EXCEPT !.mode = "extended"], n)
  BY <1>2, Plain
<1>4. Extended(m) = [n EXCEPT !.mode = "extended"]
  BY DEF Extended, n
<1> QED BY <1>2, <1>3, <1>4, SameNamesKeep DEF SameNames, FreshFacts

LEMMA DecoysMade ==
  ASSUME DialogIInv, saved # None, SameInbounds(saved.m, db), NEW apex, NEW repath \in BOOLEAN
  PROVE  LET m == Repath(Extended(WithDecoys(saved.m, apex)), db, repath)
             r == IF repath THEN Extended(m) ELSE m
         IN Made(r, Seen) /\ Sited(r, {})
<1> DEFINE w == WithDecoys(saved.m, apex)
           e == Extended(w)
           m == Repath(e, db, repath)
           r == IF repath THEN Extended(m) ELSE m
<1>1. Shaped(saved.m) /\ Planned(saved.m) = db.on
  BY DEF DialogIInv, SavedKept, Made, SameInbounds
<1>2. Shaped(w) /\ Planned(w) = db.on
  BY <1>1, WithDecoysSited
<1> HIDE DEF w
<1>3. Shaped(e) /\ OneHost(e) /\ FreshFacts(e, db) /\ Planned(e) = db.on /\ Sited(e, {})
  BY <1>2, ExtendedMade
<1> HIDE DEF e
<1>4. Shaped(m) /\ SameNames(m, e)
  BY <1>3, RepathKeeps
<1> HIDE DEF m
<1>5. OneHost(m) /\ FreshFacts(m, db) /\ Planned(m) = db.on /\ Sited(m, {})
  BY <1>3, <1>4, SameNamesKeep DEF SameNames, FreshFacts
<1>6. Shaped(r) /\ OneHost(r) /\ FreshFacts(r, db) /\ Planned(r) = db.on /\ Sited(r, {})
  BY <1>4, <1>5, ExtendedMade
<1> HIDE DEF r
<1>7. Made(r, Seen)
  BY <1>6, FreshMade
<1> QED BY <1>6, <1>7 DEF r, m, e, w

LEMMA DecoysStep ==
  ASSUME DialogIInv, NEW apex \in Apexes, NEW repath \in BOOLEAN, Decoys(apex, repath)
  PROVE  DialogIInv'
<1> DEFINE m == Repath(Extended(WithDecoys(saved.m, apex)), db, repath)
           r == IF repath THEN Extended(m) ELSE m
<1>1. saved # None /\ SameInbounds(saved.m, db) /\ Dialog("decoys", r, Seen)
  BY Zenon DEF Decoys
<1>2. Made(r, Seen)
  BY <1>1, DecoysMade
<1> HIDE DEF r
<1> QED BY <1>1, <1>2, DialogKeeps DEF Kinds

LEMMA ModeMade ==
  ASSUME DialogIInv, saved # None, SameInbounds(saved.m, db), NEW x
  PROVE  LET r == [Refresh(saved.m, db) EXCEPT !.mode = x] IN Made(r, Seen) /\ Sited(r, {})
<1> DEFINE n == Refresh(saved.m, db)
<1>1. Made(n, Seen) /\ Sited(n, {})
  BY SavedRefreshed
<1> HIDE DEF n
<1>2. Shaped([n EXCEPT !.mode = x]) /\ SameNames([n EXCEPT !.mode = x], n)
  BY <1>1, Plain DEF Made
<1> QED BY <1>1, <1>2, SameNamesKeep DEF Made, n

LEMMA ModeStep == ASSUME DialogIInv, Mode PROVE DialogIInv'
<1>1. /\ saved # None /\ SameInbounds(saved.m, db)
      /\ \E x : Dialog("mode", [Refresh(saved.m, db) EXCEPT !.mode = x], Seen)
  BY Zenon DEF Mode
<1> QED BY <1>1, ModeMade, DialogKeeps DEF Kinds

LEMMA SidecarMade ==
  ASSUME DialogIInv, saved # None, NEW yes
  PROVE  Made(WithSidecar(saved.m, yes), saved.seen)
<1>1. Shaped(saved.m) /\ KnownAddresses(saved.m, saved.seen)
  BY DEF DialogIInv, SavedKept, Made
<1>2. LET r == WithSidecar(saved.m, yes) IN
      Shaped(r) /\ OneHost(r) /\ Planned(r) = Planned(saved.m) /\ r.protocols = saved.m.protocols
  BY <1>1, WithSidecarKeeps
<1> QED BY <1>1, <1>2 DEF KnownAddresses, Made

LEMMA SidecarStep == ASSUME DialogIInv, NEW yes \in BOOLEAN, Sidecar(yes) PROVE DialogIInv'
<1>1. saved # None /\ Dialog("sidecar", WithSidecar(saved.m, yes), saved.seen)
  BY DEF Sidecar
<1> QED BY <1>1, SidecarMade, DialogKeeps DEF Kinds

Restriction == [saved.m EXCEPT !.cloud = ~@]

LEMMA RestrictionVariant ==
  ASSUME Shaped(saved.m) PROVE Shaped(Restriction) /\ SameNames(Restriction, saved.m)
<1>1. DOMAIN saved.m = ManifestFields
  BY DEF Shaped
<1>2. /\ DOMAIN Restriction = ManifestFields
      /\ \A f \in ManifestFields \ {"cloud"} : Restriction[f] = saved.m[f]
  BY <1>1 DEF Restriction
<1> QED BY <1>2, SameProtocols DEF ManifestFields

LEMMA CloudflareStep == ASSUME DialogIInv, Cloudflare PROVE DialogIInv'
<1>1. saved # None /\ Dialog("cloudflare", Restriction, saved.seen)
  BY Zenon DEF Cloudflare, Restriction
<1>2. Shaped(saved.m)
  BY <1>1 DEF DialogIInv, SavedKept, Made
<1>3. Made(Restriction, saved.seen)
  BY <1>1, <1>2, RestrictionVariant, SavedVariant
<1> QED BY <1>1, <1>3, DialogKeeps DEF Kinds

LEMMA RetryStep == ASSUME DialogIInv, Retry PROVE DialogIInv'
<1>1. /\ Open
      /\ UNCHANGED <<db, certs, saved, failed, file, touched, edits, faults, parted>>
      /\ \/ pending # None /\ Offer(pending.kind, pending.m, pending.seen, pending.zones)
         \/ saved # None /\ Offer("saved", saved.m, saved.seen, None)
  BY DEF Retry
<1>2. pending # None => Draft(pending.kind, pending.m, pending.seen, pending.zones)
  BY DEF DialogIInv, DialogTypeOK, PendingKept, Draft, Apart
<1>3. saved # None => Draft("saved", saved.m, saved.seen, None)
  BY DEF DialogIInv, SavedKept, Draft, Kinds
<1> QED BY <1>1, <1>2, <1>3, OpenedKeeps

LEMMA ResumeStep == ASSUME DialogIInv, Resume PROVE DialogIInv'
<1>1. Made(failed.m, failed.seen)
  BY DEF Resume, DialogIInv, FailedKept
<1> QED BY <1>1, DialogKeeps DEF Resume, Kinds

LEMMA RepairStep == ASSUME DialogIInv, Repair PROVE DialogIInv'
<1>1. Made(Refresh(saved.m, db), Seen)
  BY SavedRefreshed DEF Repair
<1> QED BY <1>1, DialogKeeps DEF Repair, Kinds

LEMMA FromFileStep == ASSUME DialogIInv, FromFile PROVE DialogIInv'
<1>1. Draft("file", file.m, file.seen, None)
  BY DEF FromFile, DialogIInv, FileKept, Draft, Kinds
<1> QED BY <1>1, OpenedKeeps DEF FromFile, Dialog

-----------------------------------------------------------------------------
(* The answer to the plan. *)

\* What a plan that was admitted was made with is what the panel still has.
LEMMA AdmittedPlan ==
  ASSUME DialogIInv, Shown, Admitted, job.kind # "renewal"
  PROVE  /\ Made(job.m, job.seen) /\ Planned(job.m) = db.on /\ Planned(job.m) \subseteq DOMAIN db.hosts
         /\ IsDatabase(db)
         /\ \A i \in Planned(job.m) : /\ job.m.protocols[i].facts = Facts(db, i)
                                      /\ job.m.protocols[i].facts.share = Share(db, i)
<1>1. Made(job.m, job.seen) /\ IsDatabase(db) /\ db.on \subseteq DOMAIN db.hosts
  BY DEF Shown, DialogIInv, JobKept, PanelKept, IsDatabase
<1>2. Audited(job.m, db, TRUE)
  BY DEF Admitted
<1>3. Planned(job.m) = db.on /\ \A i \in Planned(job.m) : job.m.protocols[i].facts = Facts(db, i)
  BY <1>2, Zenon DEF Audited, SameInbounds
<1>4. \A i : Facts(db, i).share = Share(db, i)
  BY DEF Facts
<1> QED BY <1>1, <1>3, <1>4

LEMMA AfterRun ==
  ASSUME DialogIInv, Shown, Admitted, job.kind # "renewal"
  PROVE  /\ IsDatabase(After) /\ DOMAIN After.hosts = DOMAIN db.hosts /\ After.on = db.on
         /\ "paths" \in job.m.flags => After.cert = job.m.cert
         /\ \A i \in DOMAIN db.hosts :
              Share(After, i) = Share(db, i)
                \/ (i \in Planned(job.m) /\ Share(After, i) = job.m.protocols[i].dom)
BY AdmittedPlan, PublishedPanel DEF After, Made

LEMMA FinalMade ==
  ASSUME DialogIInv, Shown, Admitted, job.kind # "renewal"
  PROVE  /\ Made(Final, job.seen) /\ Planned(Final) = Planned(job.m)
         /\ Final.flags = job.m.flags /\ Final.panel = job.m.panel /\ Final.sub = job.m.sub
         /\ Final.cert = job.m.cert /\ Final.cloud = job.m.cloud
         /\ \A P : Sited(job.m, P) => Sited(Final, P)
<1>1. Made(job.m, job.seen)
  BY AdmittedPlan
<1>2. /\ Shaped(Final) /\ Planned(Final) = Planned(job.m)
      /\ Final = job.m \/ FreshFacts(Final, After)
      /\ \A i \in Planned(job.m) : Final.protocols[i].dom = job.m.protocols[i].dom
      /\ OneHost(job.m) => OneHost(Final)
      /\ \A P : Sited(job.m, P) => Sited(Final, P)
      /\ Final.flags = job.m.flags /\ Final.panel = job.m.panel /\ Final.sub = job.m.sub
      /\ Final.cert = job.m.cert /\ Final.cloud = job.m.cloud
  BY <1>1, RereadKeeps DEF Final, Made
<1>3. KnownAddresses(Final, job.seen)
  <2>1. CASE Final = job.m
    BY <1>1, <2>1 DEF Made
  <2>2. CASE FreshFacts(Final, After)
    <3> SUFFICES ASSUME NEW i \in Planned(Final)
                 PROVE  Final.protocols[i].facts.share \in {job.seen[i], Final.protocols[i].dom}
      BY DEF KnownAddresses
    <3>1. Final.protocols[i].facts = Facts(After, i)
      BY <2>2 DEF FreshFacts
    <3>2. Final.protocols[i].facts.share = Share(After, i)
      BY <3>1 DEF Facts
    <3>3. Share(db, i) \in {job.seen[i], job.m.protocols[i].dom}
      BY <1>1, <1>2, AdmittedPlan DEF Made, KnownAddresses
    <3> QED BY <1>2, <3>2, <3>3, AdmittedPlan, AfterRun
  <2> QED BY <1>2, <2>1, <2>2
<1> QED BY <1>1, <1>2, <1>3 DEF Made

LEMMA ClosedKeeps ==
  ASSUME DialogIInv, job' = None, UNCHANGED <<db, certs, saved, pending, file, touched, dialogs, edits>>,
         FailedKept', faults' \in 0..MaxFaults, failed' # None => DOMAIN failed' = {"m", "seen"}
  PROVE  DialogIInv'
<1>1. DialogTypeOK'
  BY DEF DialogIInv, DialogTypeOK
<1>2. JobKept'
  BY DEF JobKept
<1> QED BY <1>1, <1>2, SavedStays, StoredStay DEF DialogIInv

LEMMA DeclineStep == ASSUME DialogIInv, Decline \/ CertificateRefused PROVE DialogIInv'
<1>1. job' = None /\ UNCHANGED <<db, certs, saved, failed, pending, file, touched, dialogs, edits, faults, parted>>
  BY DEF Decline, CertificateRefused
<1>2. FailedKept' /\ faults' \in 0..MaxFaults /\ (failed' # None => DOMAIN failed' = {"m", "seen"})
  BY <1>1, StoredStay DEF DialogIInv, DialogTypeOK
<1> QED BY <1>1, <1>2, ClosedKeeps

LEMMA RefusedKeeps ==
  ASSUME DialogIInv, Shown, job' = None, pending' = Left(job.kind, job.m, job.seen, job.zones),
         UNCHANGED <<db, certs, saved, file, touched, dialogs, edits>>,
         FailedKept', faults' \in 0..MaxFaults, failed' # None => DOMAIN failed' = {"m", "seen"}
  PROVE  DialogIInv'
<1>1. /\ job.kind \in Kinds /\ Made(job.m, job.seen)
      /\ job.kind = "zone" => MovedTo(job.m, job.zones)
  BY DEF Shown, DialogIInv, DialogTypeOK, JobKept
<1>2. PendingKept' /\ (pending' # None => pending'.kind \in Kinds \ Apart)
  BY <1>1, LeftKeeps
<1>3. DialogTypeOK'
  BY <1>2 DEF DialogIInv, DialogTypeOK
<1>4. JobKept'
  BY DEF JobKept
<1> QED BY <1>2, <1>3, <1>4, SavedStays, StoredStay DEF DialogIInv

LEMMA ApplyRefusedStep == ASSUME DialogIInv, ApplyRefused PROVE DialogIInv'
<1>1. FailedKept' /\ faults' \in 0..MaxFaults /\ (failed' # None => DOMAIN failed' = {"m", "seen"})
  BY StoredStay DEF ApplyRefused, DialogIInv, DialogTypeOK
<1> QED BY <1>1, RefusedKeeps DEF ApplyRefused

LEMMA ApplyFailedStep == ASSUME DialogIInv, ApplyFailed PROVE DialogIInv'
<1>1. /\ Shown /\ Admitted
      /\ job' = None /\ pending' = Left(job.kind, job.m, job.seen, job.zones)
      /\ \/ UNCHANGED failed
         \/ job.kind # "renewal" /\ failed' = [m |-> job.m, seen |-> job.seen]
         \/ job.kind # "renewal" /\ failed' = [m |-> Final, seen |-> job.seen]
      /\ UNCHANGED <<db, certs, saved, file, touched, dialogs, edits, parted>>
  BY Zenon DEF ApplyFailed
<1>2. faults' \in 0..MaxFaults
  <2>1. faults' = faults \/ (faults < MaxFaults /\ faults' = faults + 1)
    BY Zenon DEF ApplyFailed
  <2>2. faults \in 0..MaxFaults /\ MaxFaults \in Nat
    BY DialogAssumption DEF DialogIInv, DialogTypeOK
  <2> QED BY <2>1, <2>2
<1>3. FailedKept' /\ (failed' # None => DOMAIN failed' = {"m", "seen"})
  <2>1. CASE UNCHANGED failed
    BY <2>1, StoredStay DEF DialogIInv, DialogTypeOK
  <2>2. CASE job.kind # "renewal" /\ failed' = [m |-> job.m, seen |-> job.seen]
    <3>1. Made(job.m, job.seen)
      BY <1>1, <2>2, AdmittedPlan
    <3> QED BY <2>2, <3>1 DEF FailedKept
  <2>3. CASE job.kind # "renewal" /\ failed' = [m |-> Final, seen |-> job.seen]
    <3>1. Made(Final, job.seen)
      BY <1>1, <2>3, FinalMade
    <3> QED BY <2>3, <3>1 DEF FailedKept
  <2> QED BY <1>1, <2>1, <2>2, <2>3
<1> QED BY <1>1, <1>2, <1>3, RefusedKeeps

LEMMA AppliedStep == ASSUME DialogIInv, Applied PROVE DialogIInv'
<1>1. /\ Shown /\ Admitted /\ job.kind # "renewal"
      /\ Audited(Final, After, FALSE) /\ Certified(Final)
      /\ db' = After
      /\ saved' = [m |-> Final, run |-> Run + 1, seen |-> [i \in DOMAIN db.hosts |-> Share(After, i)]]
      /\ failed' = None /\ job' = None /\ touched' = FALSE
      /\ pending' = IF job.kind \in Apart THEN pending ELSE None
      /\ UNCHANGED <<certs, file, dialogs, edits, faults>>
  BY DEF Applied, Succeeds
<1>2. /\ saved'.m = Final /\ saved'.run = Run + 1
      /\ saved'.seen = [i \in DOMAIN db.hosts |-> Share(After, i)]
      /\ DOMAIN saved' = {"m", "run", "seen"}
  BY <1>1
<1>3. Run \in Nat
  BY DEF Run, DialogIInv, DialogTypeOK
<1>4. PanelKept'
  BY <1>1, AfterRun DEF DialogIInv, PanelKept
<1>5. /\ After.web = Final.panel /\ After.sub = Final.sub /\ SameInbounds(Final, After)
      /\ \A i \in Planned(Final) : /\ Final.protocols[i].facts = Facts(After, i)
                                   /\ Share(After, i) \in {NoName, Final.protocols[i].dom}
  BY <1>1, Zenon DEF Audited
<1>6. Planned(Final) \subseteq DOMAIN db.hosts
  BY <1>1, FinalMade, AdmittedPlan
<1>7. Made(Final, saved'.seen)
  <2>1. \A i \in Planned(Final) : saved'.seen[i] = Share(After, i)
    BY <1>2, <1>6
  <2>2. KnownAddresses(Final, saved'.seen)
    BY <1>5, <2>1, FreshKnown DEF FreshFacts
  <2> QED BY <1>1, <2>2, FinalMade DEF Made
<1>8. Covers(saved'.m.cert, Required(saved'.m))
  BY <1>1, <1>2 DEF Certified
<1>9. InStep'
  <2>1. "paths" \in Final.flags => After.cert = Final.cert
    BY <1>1, AfterRun, FinalMade
  <2>2. /\ db'.web = saved'.m.panel /\ db'.sub = saved'.m.sub /\ SameInbounds(saved'.m, db')
        /\ \A i \in Planned(saved'.m) : /\ Share(db', i) \in {NoName, saved'.m.protocols[i].dom}
                                        /\ saved'.m.protocols[i].facts = Facts(db', i)
        /\ "paths" \in saved'.m.flags => db'.cert = saved'.m.cert
    BY <1>1, <1>2, <1>5, <2>1
  <2> QED BY <2>2 DEF InStep
<1>10. SavedKept'
  BY <1>2, <1>7, <1>8, <1>9 DEF SavedKept
<1>11. FailedKept' /\ JobKept'
  BY <1>1 DEF FailedKept, JobKept
<1>12. PendingKept' /\ (pending' # None => pending'.kind \in Kinds \ Apart)
  BY <1>1 DEF DialogIInv, DialogTypeOK, PendingKept
<1>13. DialogTypeOK'
  <2>1. saved'.run \in Nat
    BY <1>2, <1>3
  <2>2. /\ failed' = None /\ job' = None /\ touched' \in BOOLEAN
        /\ UNCHANGED <<certs, dialogs, edits, faults>>
    BY <1>1
  <2>3. DOMAIN saved' = {"m", "run", "seen"}
    BY <1>2
  <2> QED BY <1>12, <2>1, <2>2, <2>3 DEF DialogIInv, DialogTypeOK
<1> QED BY <1>1, <1>4, <1>10, <1>11, <1>12, <1>13, StoredStay DEF DialogIInv

\* The renewal is registered beside the saved manifest, renewal apart.
LEMMA RenewalSame ==
  ASSUME DialogIInv, Shown, Admitted, job.kind = "renewal"
  PROVE  /\ saved # None
         /\ \A f \in ManifestFields \ {"renewal"} : job.m[f] = saved.m[f]
         /\ Shaped(job.m) /\ SameNames(job.m, saved.m)
<1>1. saved # None /\ [job.m EXCEPT !.renewal = saved.m.renewal] = saved.m
  BY DEF Admitted, RenewalOnly
<1>2. DOMAIN job.m = ManifestFields /\ Shaped(job.m) /\ Shaped(saved.m)
  BY <1>1 DEF Shown, DialogIInv, JobKept, SavedKept, Made, Shaped
<1>3. \A f \in ManifestFields \ {"renewal"} : job.m[f] = [job.m EXCEPT !.renewal = saved.m.renewal][f]
  BY <1>2
<1>4. \A f \in ManifestFields \ {"renewal"} : job.m[f] = saved.m[f]
  BY <1>1, <1>3
<1> QED BY <1>1, <1>2, <1>4, SameProtocols DEF ManifestFields

LEMMA RenewalAppliedStep == ASSUME DialogIInv, RenewalApplied PROVE DialogIInv'
<1>1. /\ Shown /\ Admitted /\ job.kind = "renewal" /\ Certified(job.m)
      /\ saved' = [saved EXCEPT !.m = job.m, !.run = @ + 1]
      /\ job' = None /\ pending' = None
      /\ UNCHANGED <<db, certs, failed, file, touched, dialogs, edits, faults, parted>>
  BY DEF RenewalApplied
<1>2. /\ saved # None
      /\ \A f \in ManifestFields \ {"renewal"} : job.m[f] = saved.m[f]
      /\ Shaped(job.m) /\ SameNames(job.m, saved.m)
  BY <1>1, RenewalSame
<1>3. /\ DOMAIN saved = {"m", "run", "seen"} /\ saved.run \in Nat
      /\ Made(saved.m, saved.seen) /\ (~touched => InStep)
  BY <1>2 DEF DialogIInv, DialogTypeOK, SavedKept
<1>4. /\ DOMAIN saved' = {"m", "run", "seen"} /\ saved'.run \in Nat /\ saved'.seen = saved.seen
      /\ saved'.m = job.m
  BY <1>1, <1>3
<1>5. Made(saved'.m, saved'.seen)
  BY <1>2, <1>4, SavedVariant
<1>6. Covers(saved'.m.cert, Required(saved'.m))
  BY <1>1, <1>4 DEF Certified
<1>7. /\ saved'.m.cert = saved.m.cert /\ saved'.m.panel = saved.m.panel /\ saved'.m.sub = saved.m.sub
      /\ saved'.m.flags = saved.m.flags /\ saved'.m.protocols = saved.m.protocols
  BY <1>2, <1>4 DEF ManifestFields
<1>8. ~touched' => InStep'
  BY <1>1, <1>3, <1>7 DEF InStep, SameInbounds, Planned
<1>9. SavedKept'
  BY <1>5, <1>6, <1>8 DEF SavedKept
<1>10. PendingKept' /\ JobKept'
  BY <1>1 DEF PendingKept, JobKept
<1>11. DialogTypeOK'
  BY <1>1, <1>4 DEF DialogIInv, DialogTypeOK
<1> QED BY <1>1, <1>9, <1>10, <1>11, StoredStay DEF DialogIInv

LEMMA StepDialogs == ASSUME DialogIInv, [DialogNext]_dialogVars PROVE DialogIInv'
<1>1. CASE UNCHANGED dialogVars
  <2>1. UNCHANGED <<db, certs, saved, failed, pending, job, file, touched, dialogs, edits, faults, parted>>
    BY <1>1 DEF dialogVars
  <2>2. DialogTypeOK'
    BY <2>1 DEF DialogIInv, DialogTypeOK
  <2> QED BY <2>1, <2>2, SavedStays, StoredStay DEF DialogIInv
<1>2. CASE \/ \E i \in DOMAIN db.hosts, n \in PanelNames :
                PanelHost(i, <<n>>) \/ PanelHost(i, db.hosts[i] \o <<n>>)
           \/ \E n \in PanelNames : PanelDomain(n)
           \/ \E i \in DOMAIN db.hosts : PanelSwitch(i)
  BY <1>2, PanelSteps
<1>3. CASE OtherSession \/ FileEdited
  BY <1>3, OtherSessionStep, FileEditedStep
<1>4. CASE \E a \in WizardAnswers, c \in certs : Initial(a, c) \/ PlanToFile(a, c)
  BY <1>4, InitialStep
<1>5. CASE \E a \in DomainAnswers, c \in certs : Domain(a, c)
  BY <1>5, DomainStep
<1>6. CASE \E z \in Zones : Zone(z) \/ Certbot(z[2])
  BY <1>6, ZoneStep, CertbotStep
<1>7. CASE CertificateIssued \/ CertificateRefused \/ Decline
  BY <1>7, CertificateIssuedStep, DeclineStep
<1>8. CASE Renewal \/ Mode \/ Cloudflare \/ Retry \/ Resume \/ Repair \/ FromFile
  BY <1>8, RenewalStep, ModeStep, CloudflareStep, RetryStep, ResumeStep, RepairStep, FromFileStep
<1>9. CASE \E apex \in Apexes, repath \in BOOLEAN : Decoys(apex, repath)
  BY <1>9, DecoysStep
<1>10. CASE \E yes \in BOOLEAN : Sidecar(yes)
  BY <1>10, SidecarStep
<1>11. CASE ApplyRefused \/ ApplyFailed \/ Applied \/ RenewalApplied
  BY <1>11, ApplyRefusedStep, ApplyFailedStep, AppliedStep, RenewalAppliedStep
<1> QED
  BY <1>1, <1>2, <1>3, <1>4, <1>5, <1>6, <1>7, <1>8, <1>9, <1>10, <1>11 DEF DialogNext

LEMMA DialogInvariant == DialogSpec => []DialogIInv
<1>1. DialogInit => DialogIInv
  BY InitDialogs
<1>2. DialogIInv /\ [DialogNext]_dialogVars => DialogIInv'
  BY StepDialogs
<1> QED BY <1>1, <1>2, PTL DEF DialogSpec

\* Only a run of this session, or another session, changes what is saved.
LEMMA SavedByRuns ==
  ASSUME [DialogNext]_dialogVars, saved' # saved, job' # job
  PROVE  Applied \/ RenewalApplied
<1>1. DialogNext
  BY DEF dialogVars
<1>2. ASSUME NEW kind, NEW m, NEW read, Dialog(kind, m, read) PROVE saved' = saved
  BY <1>2 DEF Dialog
<1>3. ASSUME NEW i, NEW hosts, PanelHost(i, hosts) PROVE saved' = saved
  BY <1>3 DEF PanelHost
<1>4. ASSUME NEW n, PanelDomain(n) PROVE saved' = saved
  BY <1>4 DEF PanelDomain
<1>5. ASSUME NEW i, PanelSwitch(i) PROVE saved' = saved
  BY <1>5 DEF PanelSwitch
<1>6. ASSUME NEW a, NEW c, Initial(a, c) \/ PlanToFile(a, c) \/ Domain(a, c) PROVE saved' = saved
  BY <1>6, <1>2 DEF Initial, PlanToFile, Domain
<1>7. ASSUME NEW z, Zone(z) \/ Certbot(z) PROVE saved' = saved
  BY <1>7, Zenon DEF Zone, Certbot
<1>8. OtherSession => job' = job
  BY DEF OtherSession
<1>9. FileEdited \/ CertificateIssued \/ CertificateRefused => saved' = saved
  BY Zenon DEF FileEdited, CertificateIssued, CertificateRefused
<1>10. Renewal \/ Mode \/ Cloudflare \/ Retry \/ Resume \/ Repair \/ FromFile => saved' = saved
  BY <1>2, Zenon DEF Renewal, Mode, Cloudflare, Retry, Resume, Repair, FromFile
<1>11. ASSUME NEW x, NEW y, Decoys(x, y) \/ Sidecar(y) PROVE saved' = saved
  BY <1>11, <1>2, Zenon DEF Decoys, Sidecar
<1>12. Decline \/ ApplyRefused \/ ApplyFailed => saved' = saved
  BY Zenon DEF Decline, ApplyRefused, ApplyFailed
<1> QED
  BY <1>1, <1>3, <1>4, <1>5, <1>6, <1>7, <1>8, <1>9, <1>10, <1>11, <1>12 DEF DialogNext

\* A run replaces only what its plan was shown with: the addresses the dialog
\* has read, the file and the state as they were, the renewal alone.
THEOREM ReplacesWhatWasRead == DialogSpec => Protected
<1> DEFINE Replaced ==
      /\ \A i \in DOMAIN db.hosts :
           LET after == IF db'.hosts[i] # <<>> THEN Head(db'.hosts[i]) ELSE db'.share[i] IN
           Share(db, i) # after => Share(db, i) \in {NoName, job.seen[i]}
      /\ job.kind = "file" => saved'.m.cloud = file.m.cloud
      /\ job.kind = "repair" => saved'.run = job.seal + 1
      /\ job.kind = "renewal" => [saved'.m EXCEPT !.renewal = saved.m.renewal] = saved.m /\ db' = db
<1>1. ASSUME DialogIInv, Applied PROVE Replaced
  <2>1. /\ Shown /\ Admitted /\ job.kind # "renewal" /\ db' = After
        /\ saved' = [m |-> Final, run |-> Run + 1, seen |-> [i \in DOMAIN db.hosts |-> Share(After, i)]]
    BY <1>1 DEF Applied
  <2>2. saved'.m = Final /\ saved'.run = Run + 1
    BY <2>1
  <2>3. ASSUME NEW i \in DOMAIN db.hosts, Share(db, i) # Share(After, i)
        PROVE  Share(db, i) = job.seen[i]
    <3>1. i \in Planned(job.m) /\ Share(After, i) = job.m.protocols[i].dom
      BY <1>1, <2>1, <2>3, AfterRun
    <3>2. Share(db, i) \in {job.seen[i], job.m.protocols[i].dom}
      BY <1>1, <2>1, <3>1, AdmittedPlan DEF Made, KnownAddresses
    <3> QED BY <2>3, <3>1, <3>2
  <2>4. \A i : (IF db'.hosts[i] # <<>> THEN Head(db'.hosts[i]) ELSE db'.share[i]) = Share(After, i)
    BY <2>1 DEF Share
  <2>5. job.kind = "file" => saved'.m.cloud = file.m.cloud
    <3> SUFFICES ASSUME job.kind = "file" PROVE Final.cloud = file.m.cloud
      BY <2>2
    <3>1. job.seal = file /\ job.m.cloud = job.seal.m.cloud
      BY <1>1, <2>1 DEF Admitted, Fence, Shown, DialogIInv, JobKept
    <3> QED BY <1>1, <2>1, <3>1, FinalMade
  <2>6. job.kind = "repair" => saved'.run = job.seal + 1
    BY <2>1, <2>2 DEF Admitted, Fence
  <2> QED BY <2>1, <2>3, <2>4, <2>5, <2>6
<1>2. ASSUME DialogIInv, RenewalApplied PROVE Replaced
  <2>1. /\ Shown /\ Admitted /\ job.kind = "renewal" /\ db' = db
        /\ saved' = [saved EXCEPT !.m = job.m, !.run = @ + 1]
    BY <1>2 DEF RenewalApplied
  <2>2. saved # None /\ [job.m EXCEPT !.renewal = saved.m.renewal] = saved.m
    BY <2>1 DEF Admitted, RenewalOnly
  <2>3. saved'.m = job.m
    BY <1>2, <2>1, <2>2 DEF DialogIInv, DialogTypeOK
  <2>4. \A i : (IF db'.hosts[i] # <<>> THEN Head(db'.hosts[i]) ELSE db'.share[i]) = Share(db, i)
    BY <2>1 DEF Share
  <2> QED BY <2>1, <2>2, <2>3, <2>4
<1>3. DialogIInv /\ [DialogNext]_dialogVars => (saved' # saved /\ job' # job => Replaced)
  BY <1>1, <1>2, SavedByRuns
<1>4. DialogIInv /\ [DialogNext]_dialogVars => [saved' # saved /\ job' # job => Replaced]_dialogVars
  BY <1>3
<1> QED BY <1>4, DialogInvariant, PTL DEF Protected, DialogSpec

\* An address outside the old zone stays what it is in a move to another zone.
LEMMA StaysOutside ==
  ASSUME DialogIInv, Shown, Admitted, job.kind = "zone", NEW i \in Planned(job.m),
         Share(db, i) # NoName, Share(db, i).zone # job.zones[1]
  PROVE  job.m.protocols[i].dom = Share(db, i)
<1>1. MovedTo(job.m, job.zones)
  BY DEF Shown, DialogIInv, JobKept
<1>2. job.m.protocols[i].facts.share = Share(db, i)
  BY AdmittedPlan
<1>3. job.m.protocols[i].dom = Replace(Share(db, i), job.zones[1], job.zones[2])
  BY <1>1, <1>2 DEF MovedTo
<1> QED BY <1>3 DEF Replace

\* A move to another zone leaves alone the addresses and TLS names of other
\* zones, and every TLS name of a Reality inbound.
THEOREM MovesItsZoneOnly == DialogSpec => ZoneOnly
<1> DEFINE Outside ==
      \A i \in DOMAIN db.hosts :
        /\ \A k \in DOMAIN db.hosts[i] : db.hosts[i][k].zone # job.zones[1] => db'.hosts[i][k] = db.hosts[i][k]
        /\ \A n \in db.tls[i] : i \in Reality \/ n.zone # job.zones[1] => n \in db'.tls[i]
<1>1. ASSUME DialogIInv, Applied, job.kind = "zone" PROVE Outside
  <2>1. Shown /\ Admitted /\ job.kind # "renewal" /\ db' = After
    BY <1>1 DEF Applied
  <2> SUFFICES ASSUME NEW i \in DOMAIN db.hosts
               PROVE  /\ \A k \in DOMAIN db.hosts[i] :
                           db.hosts[i][k].zone # job.zones[1] => After.hosts[i][k] = db.hosts[i][k]
                      /\ \A n \in db.tls[i] : i \in Reality \/ n.zone # job.zones[1] => n \in After.tls[i]
    BY <2>1
  <2>2. /\ After.hosts[i] = db.hosts[i]
             \/ (i \in Planned(job.m) /\ Len(db.hosts[i]) <= 1 /\ After.hosts[i] = <<job.m.protocols[i].dom>>)
        /\ After.tls[i] = db.tls[i] \/ (i \in Planned(job.m) /\ After.tls[i] = RewrittenNames(job.m, db, i))
    BY <1>1, <2>1, AdmittedPlan, PublishedPanel DEF After, Made
  <2>3. db.hosts[i] \in Seq(Names) /\ db.tls[i] \subseteq Names /\ NoName \notin Names
    BY <1>1, DialogAssumption DEF DialogIInv, PanelKept, IsDatabase
  <2>4. ASSUME NEW k \in DOMAIN db.hosts[i], db.hosts[i][k].zone # job.zones[1]
        PROVE  After.hosts[i][k] = db.hosts[i][k]
    <3>1. CASE After.hosts[i] = db.hosts[i]
      BY <3>1
    <3>2. CASE i \in Planned(job.m) /\ Len(db.hosts[i]) <= 1 /\ After.hosts[i] = <<job.m.protocols[i].dom>>
      <4>1. k = 1 /\ db.hosts[i] # <<>> /\ Head(db.hosts[i]) = db.hosts[i][1] /\ db.hosts[i][1] \in Names
        BY <2>3, <2>4, <3>2
      <4>2. Share(db, i) = db.hosts[i][1]
        BY <4>1 DEF Share
      <4>3. job.m.protocols[i].dom = Share(db, i)
        BY <1>1, <2>1, <2>3, <2>4, <3>2, <4>1, <4>2, StaysOutside
      <4>4. After.hosts[i][1] = job.m.protocols[i].dom
        BY <3>2
      <4> QED BY <4>1, <4>2, <4>3, <4>4
    <3> QED BY <2>2, <3>1, <3>2
  <2>5. ASSUME NEW n \in db.tls[i], i \in Reality \/ n.zone # job.zones[1] PROVE n \in After.tls[i]
    <3>1. CASE After.tls[i] = db.tls[i]
      BY <3>1
    <3>2. CASE i \in Planned(job.m) /\ After.tls[i] = RewrittenNames(job.m, db, i)
      <4>1. CASE job.m.protocols[i].follow /\ i \notin Reality
        <5>1. After.tls[i] = {IF x = Share(db, i) THEN job.m.protocols[i].dom ELSE x : x \in db.tls[i]}
          BY <3>2, <4>1 DEF RewrittenNames
        <5>2. (IF n = Share(db, i) THEN job.m.protocols[i].dom ELSE n) \in After.tls[i]
          BY <5>1
        <5>3. n = Share(db, i) => job.m.protocols[i].dom = n
          <6> SUFFICES ASSUME n = Share(db, i) PROVE job.m.protocols[i].dom = n
            OBVIOUS
          <6>1. Share(db, i) # NoName /\ Share(db, i).zone # job.zones[1]
            BY <2>3, <2>5, <4>1
          <6> QED BY <1>1, <2>1, <3>2, <6>1, StaysOutside
        <5> QED BY <5>2, <5>3
      <4>2. CASE ~(job.m.protocols[i].follow /\ i \notin Reality)
        BY <3>2, <4>2 DEF RewrittenNames
      <4> QED BY <4>1, <4>2
    <3> QED BY <2>2, <3>1, <3>2
  <2> QED BY <2>4, <2>5
<1>2. RenewalApplied => job.kind = "renewal"
  BY DEF RenewalApplied
<1>3. DialogIInv /\ [DialogNext]_dialogVars =>
        [saved' # saved /\ job' # job /\ job.kind = "zone" => Outside]_dialogVars
  BY <1>1, <1>2, SavedByRuns
<1> QED BY <1>3, DialogInvariant, PTL DEF ZoneOnly, DialogSpec

-----------------------------------------------------------------------------
(* The sites of the decoys.  The change of single domains renames the site of  *)
(* an old domain, so that it loses one when two inbounds had that domain: the  *)
(* inbounds it was lost for are in parted.                                     *)

LEMMA SitedMore == ASSUME NEW m, NEW P, NEW Q, Sited(m, P), P \subseteq Q PROVE Sited(m, Q)
BY DEF Sited

LEMMA WholeSited == ASSUME NEW m, Sited(m, {}) PROVE \A P : Sited(m, P)
BY DEF Sited

LEMMA LostMore ==
  ASSUME NEW kind, NEW P, NEW Q, P \subseteq Q
  PROVE  Lost(kind, P) \subseteq Lost(kind, Q) /\ Lost(kind, P) \subseteq P
BY DEF Lost

LEMMA SitesStay ==
  ASSUME SitesKept, parted \subseteq parted'
  PROVE  /\ UNCHANGED saved => (saved' # None => Sited(saved'.m, parted'))
         /\ UNCHANGED failed => (failed' # None => Sited(failed'.m, parted'))
         /\ UNCHANGED file => (file' # None => Sited(file'.m, {}))
         /\ UNCHANGED pending => (pending' # None => Sited(pending'.m, Lost(pending'.kind, parted')))
         /\ UNCHANGED job => (job' # None => Sited(job'.m, Lost(job'.kind, parted')))
<1>1. \A m : Sited(m, parted) => Sited(m, parted')
  BY SitedMore
<1>2. \A m, kind : Sited(m, Lost(kind, parted)) => Sited(m, Lost(kind, parted'))
  BY SitedMore, LostMore
<1> QED BY <1>1, <1>2 DEF SitesKept

LEMMA LeftSites ==
  ASSUME SitesKept, parted \subseteq parted', NEW kind, NEW m, NEW read, NEW zones,
         Sited(m, Lost(kind, parted')), pending' = Left(kind, m, read, zones)
  PROVE  pending' # None => Sited(pending'.m, Lost(pending'.kind, parted'))
<1>1. CASE kind \in Apart
  <2>1. pending' = pending
    BY <1>1 DEF Left
  <2> QED BY <2>1, SitesStay
<1>2. CASE kind \notin Apart
  <2>1. pending' = [kind |-> kind, m |-> m, seen |-> read, zones |-> zones]
    BY <1>2 DEF Left, Intention
  <2>2. pending'.kind = kind /\ pending'.m = m
    BY <2>1
  <2> QED BY <2>2
<1> QED BY <1>1, <1>2

LEMMA OfferSites ==
  ASSUME SitesKept, parted \subseteq parted', NEW kind, NEW m, NEW read, NEW zones,
         Sited(m, Lost(kind, parted')), Offer(kind, m, read, zones)
  PROVE  /\ pending' # None => Sited(pending'.m, Lost(pending'.kind, parted'))
         /\ job' # None => Sited(job'.m, Lost(job'.kind, parted'))
<1>1. \/ /\ job' = [stage |-> "shown", kind |-> kind, m |-> m, seen |-> read, zones |-> zones,
                    seal |-> IF kind = "file" THEN file ELSE Run]
         /\ pending' = IF kind \in Apart THEN pending ELSE None
      \/ job' = None /\ pending' = Left(kind, m, read, zones)
  BY Zenon DEF Offer
<1>2. CASE job' = None /\ pending' = Left(kind, m, read, zones)
  BY <1>2, LeftSites
<1>3. CASE /\ job' = [stage |-> "shown", kind |-> kind, m |-> m, seen |-> read, zones |-> zones,
                      seal |-> IF kind = "file" THEN file ELSE Run]
           /\ pending' = IF kind \in Apart THEN pending ELSE None
  <2>1. job'.m = m /\ job'.kind = kind
    BY <1>3
  <2>2. pending' # None => UNCHANGED pending
    BY <1>3
  <2> QED BY <2>1, <2>2, SitesStay
<1> QED BY <1>1, <1>2, <1>3

LEMMA OpenedSites ==
  ASSUME SitesKept, parted \subseteq parted', NEW kind, NEW m, NEW read, NEW zones,
         Sited(m, Lost(kind, parted')), Offer(kind, m, read, zones), UNCHANGED <<saved, failed, file>>
  PROVE  SitesKept'
BY OfferSites, SitesStay DEF SitesKept

LEMMA DialogSites ==
  ASSUME SitesKept, NEW kind, NEW m, NEW read, Sited(m, Lost(kind, parted)), Dialog(kind, m, read)
  PROVE  SitesKept'
<1>1. /\ Offer(kind, m, read, None) /\ UNCHANGED <<saved, failed, file>>
      /\ parted' = parted
  BY DEF Dialog
<1> QED BY <1>1, OpenedSites

LEMMA SavedSited == ASSUME SitesKept, saved # None, NEW m, SameNames(m, saved.m) PROVE Sited(m, parted)
<1>1. Sited(saved.m, parted)
  BY DEF SitesKept
<1> QED BY <1>1, SameNamesKeep

LEMMA DomainSites ==
  ASSUME DialogIInv, SitesKept, NEW a \in DomainAnswers, NEW c, Domain(a, c)
  PROVE  SitesKept'
<1> DEFINE m == Reconfigure(saved.m, db, a, c)
<1>1. /\ saved # None /\ Offer("domains", m, Seen, None) /\ parted' = parted \cup Parted(saved.m, a)
      /\ UNCHANGED <<db, certs, saved, failed, file, touched, edits, faults>>
  BY Zenon DEF Domain
<1>2. Shaped(saved.m) /\ Planned(saved.m) = db.on /\ Sited(saved.m, parted)
  BY DEF Domain, DialogIInv, SavedKept, Made, SameInbounds, SitesKept
<1>3. db.on \subseteq Inbounds /\ a.dom \in [Inbounds -> Names]
  BY DialogAssumption DEF DialogIInv, PanelKept, IsDatabase
<1>4. \A i \in Planned(saved.m) : a.dom[i] \in Names
  BY <1>2, <1>3
<1>5. Sited(m, parted')
  BY <1>1, <1>2, <1>3, <1>4, Reconfigured
<1>6. Lost("domains", parted') = parted'
  BY DEF Lost, Anew
<1> HIDE DEF m
<1> QED BY <1>1, <1>5, <1>6, OpenedSites

LEMMA ZoneSites == ASSUME DialogIInv, SitesKept, NEW z \in Zones, Zone(z) PROVE SitesKept'
<1> DEFINE m == Migrate(Refresh(saved.m, db), z[1], z[2])
           found == {c \in certs : Covers(c, Required(m))}
<1>1. /\ saved # None /\ SameInbounds(saved.m, db)
      /\ \/ \E c \in found : Offer("zone", Switched(m, c), Seen, z)
         \/ /\ UNCHANGED pending
            /\ job' = [stage |-> "order", kind |-> "zone", m |-> m, seen |-> Seen, zones |-> z, seal |-> z[2]]
      /\ UNCHANGED <<db, certs, saved, failed, file, touched, edits, faults, parted>>
  BY Zenon DEF Zone
<1>2. \A P : Sited(m, P) /\ \A c : Sited(Switched(m, c), P)
  BY <1>1, ZoneMade, WholeSited
<1> HIDE DEF m
<1>3. ASSUME NEW c, Offer("zone", Switched(m, c), Seen, z) PROVE SitesKept'
  BY <1>1, <1>2, <1>3, OpenedSites
<1>4. ASSUME UNCHANGED pending,
             job' = [stage |-> "order", kind |-> "zone", m |-> m, seen |-> Seen, zones |-> z, seal |-> z[2]]
      PROVE  SitesKept'
  <2>1. job'.m = m
    BY <1>4
  <2>2. \A P : Sited(job'.m, P)
    BY <1>2, <2>1
  <2> QED BY <1>1, <1>4, <2>2, SitesStay DEF SitesKept
<1> QED BY <1>1, <1>3, <1>4

LEMMA CertificateSites ==
  ASSUME DialogIInv, SitesKept
  PROVE  /\ \A z \in Zones : Certbot(z[2]) => SitesKept'
         /\ CertificateIssued => SitesKept'
         /\ CertificateRefused => SitesKept'
<1>1. ASSUME NEW z \in Zones, Certbot(z[2]) PROVE SitesKept'
  <2>1. /\ saved # None
        /\ job' = [stage |-> "order", kind |-> "certbot", m |-> saved.m, seen |-> saved.seen,
                   zones |-> None, seal |-> z[2]]
        /\ UNCHANGED <<saved, failed, pending, file>> /\ parted' = parted
    BY <1>1 DEF Certbot
  <2>2. job'.m = saved.m /\ job'.kind = "certbot" /\ Lost("certbot", parted') = parted'
    BY <2>1 DEF Lost, Anew
  <2> QED BY <2>1, <2>2, SitesStay DEF SitesKept
<1>2. ASSUME CertificateIssued PROVE SitesKept'
  <2> DEFINE c == Ordered(job.seal)
             m == IF job.kind = "zone" THEN Switched(job.m, c)
                  ELSE [job.m EXCEPT !.cert = c, !.renewal = TRUE, !.flags = @ \cup {"paths"}]
  <2>1. /\ job # None /\ Offer(job.kind, m, job.seen, job.zones)
        /\ UNCHANGED <<db, saved, failed, file, touched, dialogs, edits, faults, parted>>
    BY <1>2, Zenon DEF CertificateIssued
  <2>2. Shaped(job.m) /\ Sited(job.m, Lost(job.kind, parted))
    BY <2>1 DEF DialogIInv, JobKept, Made, SitesKept
  <2>3. Sited(m, Lost(job.kind, parted))
    <3>1. CASE job.kind = "zone"
      BY <2>2, <3>1, SwitchedTo, SameNamesKeep
    <3>2. CASE job.kind # "zone"
      <4>1. m = [job.m EXCEPT !.cert = c, !.renewal = TRUE, !.flags = @ \cup {"paths"}]
        BY <3>2
      <4>2. m.protocols = job.m.protocols /\ m.decoys = job.m.decoys /\ m.sites = job.m.sites
        BY <2>2, <4>1 DEF Shaped, ManifestFields
      <4> QED BY <2>2, <4>2 DEF Sited, Planned
    <3> QED BY <3>1, <3>2
  <2> HIDE DEF m
  <2> QED BY <2>1, <2>3, OpenedSites
<1>3. ASSUME CertificateRefused PROVE SitesKept'
  BY <1>3, SitesStay DEF CertificateRefused, SitesKept
<1> QED BY <1>1, <1>2, <1>3

LEMMA SettingsSites ==
  ASSUME DialogIInv, SitesKept
  PROVE  /\ Renewal \/ Mode \/ Cloudflare => SitesKept'
         /\ \A apex \in Apexes, repath \in BOOLEAN : Decoys(apex, repath) => SitesKept'
         /\ \A yes \in BOOLEAN : Sidecar(yes) => SitesKept'
<1>1. ASSUME Renewal PROVE SitesKept'
  <2>1. saved # None /\ (Dialog("renewal", RenewalOn, saved.seen) \/ Dialog("paths", WithPaths, saved.seen))
    BY <1>1, Zenon DEF Renewal, RenewalOn, WithPaths
  <2>2. Shaped(saved.m)
    BY <2>1 DEF DialogIInv, SavedKept, Made
  <2>3. Sited(RenewalOn, parted) /\ Sited(WithPaths, parted)
    BY <2>1, <2>2, RenewalVariants, SavedSited
  <2>4. Lost("renewal", parted) = parted /\ Lost("paths", parted) = parted
    BY DEF Lost, Anew
  <2> QED BY <2>1, <2>3, <2>4, DialogSites
<1>2. ASSUME Mode PROVE SitesKept'
  <2>1. /\ saved # None /\ SameInbounds(saved.m, db)
        /\ \E x : Dialog("mode", [Refresh(saved.m, db) EXCEPT !.mode = x], Seen)
    BY <1>2, Zenon DEF Mode
  <2> QED BY <2>1, ModeMade, WholeSited, DialogSites
<1>3. ASSUME Cloudflare PROVE SitesKept'
  <2>1. saved # None /\ Dialog("cloudflare", Restriction, saved.seen)
    BY <1>3, Zenon DEF Cloudflare, Restriction
  <2>2. Shaped(saved.m)
    BY <2>1 DEF DialogIInv, SavedKept, Made
  <2>3. Sited(Restriction, parted)
    BY <2>1, <2>2, RestrictionVariant, SavedSited
  <2>4. Lost("cloudflare", parted) = parted
    BY DEF Lost, Anew
  <2> QED BY <2>1, <2>3, <2>4, DialogSites
<1>4. ASSUME NEW apex \in Apexes, NEW repath \in BOOLEAN, Decoys(apex, repath) PROVE SitesKept'
  <2> DEFINE m == Repath(Extended(WithDecoys(saved.m, apex)), db, repath)
             r == IF repath THEN Extended(m) ELSE m
  <2>1. saved # None /\ SameInbounds(saved.m, db) /\ Dialog("decoys", r, Seen)
    BY <1>4, Zenon DEF Decoys
  <2>2. \A P : Sited(r, P)
    BY <2>1, DecoysMade, WholeSited
  <2> HIDE DEF r
  <2> QED BY <2>1, <2>2, DialogSites
<1>5. ASSUME NEW yes \in BOOLEAN, Sidecar(yes) PROVE SitesKept'
  <2>1. saved # None /\ Dialog("sidecar", WithSidecar(saved.m, yes), saved.seen)
    BY <1>5 DEF Sidecar
  <2>2. Shaped(saved.m) /\ Sited(saved.m, parted)
    BY <2>1 DEF DialogIInv, SavedKept, Made, SitesKept
  <2>3. Sited(WithSidecar(saved.m, yes), parted)
    BY <2>2, WithSidecarKeeps
  <2>4. Lost("sidecar", parted) = parted
    BY DEF Lost, Anew
  <2> QED BY <2>1, <2>3, <2>4, DialogSites
<1> QED BY <1>1, <1>2, <1>3, <1>4, <1>5

LEMMA AgainSites ==
  ASSUME DialogIInv, SitesKept
  PROVE  Retry \/ Resume \/ Repair \/ FromFile => SitesKept'
<1>1. ASSUME Retry PROVE SitesKept'
  <2>1. /\ UNCHANGED <<db, certs, saved, failed, file, touched, edits, faults, parted>>
        /\ \/ pending # None /\ Offer(pending.kind, pending.m, pending.seen, pending.zones)
           \/ saved # None /\ Offer("saved", saved.m, saved.seen, None)
    BY <1>1 DEF Retry
  <2>2. Lost("saved", parted) = parted /\ parted' = parted
    BY <2>1 DEF Lost, Anew
  <2>3. CASE pending # None /\ Offer(pending.kind, pending.m, pending.seen, pending.zones)
    BY <2>1, <2>2, <2>3, OpenedSites DEF SitesKept
  <2>4. CASE saved # None /\ Offer("saved", saved.m, saved.seen, None)
    BY <2>1, <2>2, <2>4, OpenedSites DEF SitesKept
  <2> QED BY <2>1, <2>3, <2>4
<1>2. ASSUME Resume PROVE SitesKept'
  <2>1. Lost("resume", parted) = parted
    BY DEF Lost, Anew
  <2> QED BY <1>2, <2>1, DialogSites DEF Resume, SitesKept
<1>3. ASSUME Repair PROVE SitesKept'
  <2>1. \A P : Sited(Refresh(saved.m, db), P)
    BY <1>3, SavedRefreshed, WholeSited DEF Repair
  <2> QED BY <1>3, <2>1, DialogSites DEF Repair
<1>4. ASSUME FromFile PROVE SitesKept'
  BY <1>4, DialogSites, WholeSited DEF FromFile, SitesKept
<1> QED BY <1>1, <1>2, <1>3, <1>4

LEMMA WorldSites ==
  ASSUME DialogIInv, SitesKept
  PROVE  /\ \A i, hosts : PanelHost(i, hosts) => SitesKept'
         /\ \A n : PanelDomain(n) => SitesKept'
         /\ \A i : PanelSwitch(i) => SitesKept'
         /\ OtherSession \/ FileEdited => SitesKept'
<1>1. UNCHANGED <<saved, failed, file, pending, job, parted>> => SitesKept'
  BY SitesStay DEF SitesKept
<1>2. ASSUME OtherSession PROVE SitesKept'
  <2>1. /\ saved # None /\ DOMAIN saved = {"m", "run", "seen"} /\ Shaped(saved.m)
        /\ saved' = [saved EXCEPT !.m.cloud = ~@, !.run = @ + 1]
        /\ UNCHANGED <<failed, file, pending, job>> /\ parted' = parted
    BY <1>2 DEF OtherSession, DialogIInv, DialogTypeOK, SavedKept, Made
  <2>2. saved'.m = Restriction
    BY <2>1 DEF Restriction
  <2>3. Sited(Restriction, parted)
    BY <2>1, RestrictionVariant, SavedSited
  <2> QED BY <2>1, <2>2, <2>3, SitesStay DEF SitesKept
<1>3. ASSUME FileEdited PROVE SitesKept'
  <2>1. /\ file # None /\ DOMAIN file = {"m", "seen"} /\ DOMAIN file.m = ManifestFields
        /\ file' = [file EXCEPT !.m.cloud = ~@]
        /\ UNCHANGED <<saved, failed, pending, job>> /\ parted' = parted
    BY <1>3 DEF FileEdited, DialogIInv, FileKept, Made, Shaped
  <2>2. file'.m = [file.m EXCEPT !.cloud = ~@]
    BY <2>1
  <2>3. \A f \in ManifestFields \ {"cloud"} : file'.m[f] = file.m[f]
    BY <2>1, <2>2
  <2>4. Sited(file.m, {})
    BY <2>1 DEF SitesKept
  <2>5. Sited(file'.m, {})
    BY <2>3, <2>4 DEF Sited, Planned, ManifestFields
  <2> QED BY <2>1, <2>5, SitesStay DEF SitesKept
<1> QED BY <1>1, <1>2, <1>3 DEF PanelHost, PanelDomain, PanelSwitch

LEMMA RunSites ==
  ASSUME DialogIInv, SitesKept
  PROVE  Decline \/ ApplyRefused \/ ApplyFailed \/ Applied \/ RenewalApplied => SitesKept'
<1>1. ASSUME Decline PROVE SitesKept'
  BY <1>1, SitesStay DEF Decline, SitesKept
<1>2. Shown => Sited(job.m, Lost(job.kind, parted))
  BY DEF Shown, SitesKept
<1>3. ASSUME ApplyRefused PROVE SitesKept'
  <2>1. parted' = parted /\ UNCHANGED <<saved, failed, file>> /\ job' = None
    BY <1>3 DEF ApplyRefused
  <2>2. pending' # None => Sited(pending'.m, Lost(pending'.kind, parted'))
    BY <1>2, <1>3, <2>1, LeftSites DEF ApplyRefused
  <2> QED BY <2>1, <2>2, SitesStay DEF SitesKept
<1>4. ASSUME ApplyFailed PROVE SitesKept'
  <2>1. /\ Shown /\ Admitted
        /\ job' = None /\ pending' = Left(job.kind, job.m, job.seen, job.zones)
        /\ \/ UNCHANGED failed
           \/ job.kind # "renewal" /\ failed' = [m |-> job.m, seen |-> job.seen]
           \/ job.kind # "renewal" /\ failed' = [m |-> Final, seen |-> job.seen]
        /\ UNCHANGED <<db, certs, saved, file, touched, dialogs, edits, parted>>
    BY <1>4, Zenon DEF ApplyFailed
  <2>2. pending' # None => Sited(pending'.m, Lost(pending'.kind, parted'))
    BY <1>2, <2>1, LeftSites
  <2>3. Sited(job.m, parted)
    BY <1>2, <2>1, LostMore, SitedMore
  <2>4. job.kind # "renewal" => Sited(Final, parted)
    BY <2>1, <2>3, FinalMade
  <2>5. failed' # None => Sited(failed'.m, parted')
    BY <2>1, <2>3, <2>4, SitesStay
  <2> QED BY <2>1, <2>2, <2>5, SitesStay DEF SitesKept
<1>5. ASSUME Applied PROVE SitesKept'
  <2>1. /\ Shown /\ Admitted /\ job.kind # "renewal"
        /\ saved' = [m |-> Final, run |-> Run + 1, seen |-> [i \in DOMAIN db.hosts |-> Share(After, i)]]
        /\ failed' = None /\ job' = None
        /\ pending' = IF job.kind \in Apart THEN pending ELSE None
        /\ parted' = IF job.kind \in Anew THEN {} ELSE parted
        /\ UNCHANGED file
    BY <1>5 DEF Applied
  <2>2. parted' = Lost(job.kind, parted)
    BY <2>1 DEF Lost
  <2>3. Sited(Final, parted')
    BY <1>2, <2>1, <2>2, FinalMade
  <2>4. saved'.m = Final
    BY <2>1
  <2>5. pending' # None => Sited(pending'.m, Lost(pending'.kind, parted'))
    <3>1. CASE job.kind \in Apart
      <4>1. pending' = pending /\ parted' = parted
        BY <2>1, <3>1 DEF Apart, Anew
      <4> QED BY <4>1, SitesStay
    <3> QED BY <2>1, <3>1
  <2>6. file' # None => Sited(file'.m, {})
    BY <2>1 DEF SitesKept
  <2> QED BY <2>1, <2>3, <2>4, <2>5, <2>6 DEF SitesKept
<1>6. ASSUME RenewalApplied PROVE SitesKept'
  <2>1. /\ Shown /\ Admitted /\ job.kind = "renewal"
        /\ saved' = [saved EXCEPT !.m = job.m, !.run = @ + 1]
        /\ job' = None /\ pending' = None /\ UNCHANGED <<failed, file>> /\ parted' = parted
    BY <1>6 DEF RenewalApplied
  <2>2. saved # None
    BY <2>1, RenewalSame
  <2>3. saved'.m = job.m
    BY <2>1, <2>2 DEF DialogIInv, DialogTypeOK
  <2>4. Sited(job.m, parted)
    BY <1>2, <2>1 DEF Lost, Anew
  <2> QED BY <2>1, <2>3, <2>4, SitesStay DEF SitesKept
<1> QED BY <1>1, <1>3, <1>4, <1>5, <1>6

LEMMA StepSites ==
  ASSUME DialogIInv, SitesKept, [DialogNext]_dialogVars
  PROVE  SitesKept'
<1>1. CASE UNCHANGED dialogVars
  BY <1>1, SitesStay DEF dialogVars, SitesKept
<1>2. CASE \/ \E i \in DOMAIN db.hosts, n \in PanelNames :
                PanelHost(i, <<n>>) \/ PanelHost(i, db.hosts[i] \o <<n>>)
           \/ \E n \in PanelNames : PanelDomain(n)
           \/ \E i \in DOMAIN db.hosts : PanelSwitch(i)
           \/ OtherSession \/ FileEdited
  BY <1>2, WorldSites
<1>3. CASE \E a \in WizardAnswers, c \in certs : Initial(a, c) \/ PlanToFile(a, c)
  <2> SUFFICES ASSUME NEW a \in WizardAnswers, NEW c, Initial(a, c) \/ PlanToFile(a, c) PROVE SitesKept'
    BY <1>3
  <2>1. \A P : Sited(Wizard(db, a, c), P)
    BY InitialStep, WholeSited
  <2>2. Initial(a, c) => SitesKept'
    BY <2>1, DialogSites DEF Initial
  <2>3. ASSUME PlanToFile(a, c) PROVE SitesKept'
    <3>1. file' = [m |-> Wizard(db, a, c), seen |-> Seen] /\ UNCHANGED <<saved, failed, pending, job, parted>>
      BY <2>3 DEF PlanToFile
    <3>2. file'.m = Wizard(db, a, c)
      BY <3>1
    <3> QED BY <2>1, <3>1, <3>2, SitesStay DEF SitesKept
  <2> QED BY <2>2, <2>3
<1>4. CASE \E a \in DomainAnswers, c \in certs : Domain(a, c)
  BY <1>4, DomainSites
<1>5. CASE \E z \in Zones : Zone(z) \/ Certbot(z[2])
  BY <1>5, ZoneSites, CertificateSites
<1>6. CASE CertificateIssued \/ CertificateRefused
  BY <1>6, CertificateSites
<1>7. CASE \/ Renewal \/ Mode \/ Cloudflare
           \/ \E apex \in Apexes, repath \in BOOLEAN : Decoys(apex, repath)
           \/ \E yes \in BOOLEAN : Sidecar(yes)
  BY <1>7, SettingsSites
<1>8. CASE Retry \/ Resume \/ Repair \/ FromFile
  BY <1>8, AgainSites
<1>9. CASE Decline \/ ApplyRefused \/ ApplyFailed \/ Applied \/ RenewalApplied
  BY <1>9, RunSites
<1> QED BY <1>1, <1>2, <1>3, <1>4, <1>5, <1>6, <1>7, <1>8, <1>9 DEF DialogNext

\* Whatever dialogs, failures and edits went before, what is saved is complete
\* (the certificate covers it, the sidecar answers for its subscription domain
\* alone, every domain has a site but those of the inbounds that lost it to a
\* later one with the same domain), and the panel and the saved manifest agree
\* until somebody edits the panel (engine.py saves what it has read back;
\* questionnaire.py derives the sites).
THEOREM DialogsAgree == DialogSpec => []DialogInv
<1>1. DialogInit => SitesKept
  BY InitDialogs
<1>2. DialogIInv /\ SitesKept /\ [DialogNext]_dialogVars => SitesKept'
  BY StepSites
<1>3. DialogIInv /\ SitesKept => DialogInv
  BY DEF DialogIInv, SavedKept, Made, SitesKept, OneHost, Sited, DialogInv, Served
<1> QED BY <1>1, <1>2, <1>3, DialogInvariant, PTL DEF DialogSpec
==============================================================================
