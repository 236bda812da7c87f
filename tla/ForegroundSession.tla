-------------------------- MODULE ForegroundSession --------------------------
(***************************************************************************)
(* The coordinator of one functional test (staging_processes.py): it       *)
(* starts the candidate frontends in its own process group, waits until    *)
(* exactly the expected listeners are theirs, and does not report its      *)
(* cleanup as complete while one process of the group is left.             *)
(*                                                                         *)
(* /proc is read piece by piece while frontends fork, bind and exit, and   *)
(* while the system gives a process id to somebody else.                   *)
(***************************************************************************)
EXTENDS Integers, Sequences, FiniteSets

CONSTANTS
    MaxPid,      \* bound on process ids, the coordinator's left out
    Roles,       \* the frontends, in the order of their start: <<"haproxy", "nginx">>
    Expected,    \* [the roles -> the addresses each is to listen on]
    Addresses,   \* loopback addresses
    MaxInodes,   \* bound on sockets ever opened
    MaxReuses    \* bound on process ids given to somebody else

ASSUME ConstantsAssumption ==
    /\ MaxPid \in Nat
    /\ Roles \in Seq(DOMAIN Expected) /\ "none" \notin DOMAIN Expected
    /\ \A r \in DOMAIN Expected : Expected[r] \subseteq Addresses
    /\ MaxInodes \in Nat /\ MaxReuses \in Nat

Pids == 1 .. MaxPid

VARIABLES
    proc,      \* [Pids -> [state, owned, parent, life, origin]]; life stands for starttime
    bound,     \* [Addresses -> [inode, holders]]; inode 0 is no listener
    inodes,    \* sockets opened so far
    stage,     \* of the coordinator
    started,   \* _frontends: <<[role, pid, life], ...>>
    tcp,       \* the listeners read first: [Addresses -> inode]
    members,   \* the group as read: pid -> [life, dead], with the parent while listeners are awaited
    fds,       \* socket inodes read so far: pid -> inodes
    seen,      \* _seen_inodes
    cursor,    \* where the scan of /proc is
    first,     \* no SIGTERM has been sent yet
    grace,     \* _TERM_SECONDS are over
    aim,       \* the signal at hand: [pid, fd]; fd is the life that the pidfd holds
    complete,  \* _cleanup_complete
    harmed     \* history: a signal has reached a process outside the group

world == <<proc, bound, inodes>>
reading == <<tcp, members, fds, seen, cursor>>
killing == <<first, grace, aim>>
ending == <<complete, harmed>>
vars == <<world, stage, started, reading, killing, ending>>

Coordinator == 0

Unused == [state |-> "free", owned |-> FALSE, parent |-> Coordinator, life |-> 0, origin |-> "none"]

Unbound == [inode |-> 0, holders |-> {}]

NoAim == [pid |-> 0, fd |-> 0]

NoMembers == [x \in {} |-> 0]

Init ==
    /\ proc = [p \in Pids |-> Unused]
    /\ bound = [a \in Addresses |-> Unbound] /\ inodes = 0
    /\ stage = "entered" /\ started = <<>> 
    /\ tcp = [a \in Addresses |-> 0] /\ members = NoMembers /\ fds = NoMembers
    /\ seen = {} /\ cursor = 0
    /\ first = TRUE /\ grace = FALSE /\ aim = NoAim
    /\ complete = FALSE /\ harmed = FALSE

Live(p) == proc[p].state = "live"

Exists(p) == proc[p].state # "free"

\* Process ids grow while the group lives.
Fresh(p) == proc[p].life = 0 /\ \A q \in Pids : q < p => proc[q].life > 0

Goto(from, to) == stage = from /\ stage' = to

Forget == tcp' = [a \in Addresses |-> 0] /\ members' = NoMembers /\ fds' = NoMembers

Raise == stage' = "cleanup" /\ Forget

-----------------------------------------------------------------------------
(* The frontends and the system. *)

Spawn(p, parent, origin) ==
    [proc EXCEPT ![p] = [state |-> "live", owned |-> TRUE, parent |-> parent, life |-> 1,
                         origin |-> origin]]

\* A child has the descriptors of its parent.
Fork(p, q) ==
    /\ stage # "done" /\ Live(p) /\ proc[p].owned /\ Fresh(q)
    /\ proc' = Spawn(q, p, proc[p].origin)
    /\ bound' = [a \in Addresses |->
                   IF p \in bound[a].holders
                     THEN [bound[a] EXCEPT !.holders = @ \cup {q}] ELSE bound[a]]
    /\ UNCHANGED <<inodes, stage, started, reading, killing, ending>>

Bind(p, a) ==
    /\ stage # "done" /\ Live(p) /\ bound[a] = Unbound /\ inodes < MaxInodes
    /\ inodes' = inodes + 1
    /\ bound' = [bound EXCEPT ![a] = [inode |-> inodes + 1, holders |-> {p}]]
    /\ UNCHANGED <<proc, stage, started, reading, killing, ending>>

Without(p) ==
    [a \in Addresses |->
        IF bound[a].holders = {p} THEN Unbound
        ELSE [bound[a] EXCEPT !.holders = @ \ {p}]]

\* Its children go to the subreaper; it stays a zombie until its parent has read its status.
Gone(p) ==
    [q \in Pids |->
        IF q = p THEN [proc[p] EXCEPT !.state = "zombie"]
        ELSE IF proc[q].parent = p THEN [proc[q] EXCEPT !.parent = Coordinator]
        ELSE proc[q]]

Exit(p) ==
    /\ stage # "done" /\ Live(p) /\ proc[p].owned
    /\ proc' = Gone(p) /\ bound' = Without(p)
    /\ UNCHANGED <<inodes, stage, started, reading, killing, ending>>

ReapedByParent(p) ==
    /\ proc[p].state = "zombie" /\ proc[p].parent # Coordinator
    /\ proc' = [proc EXCEPT ![p].state = "free"]
    /\ UNCHANGED <<bound, inodes, stage, started, reading, killing, ending>>

\* The id of a process that is gone is given to a process of somebody else, which stays.
Reuse(p) ==
    /\ stage # "done" /\ ~Exists(p) /\ proc[p].life = 1
    /\ Cardinality({q \in Pids : proc[q].life = 2}) < MaxReuses
    /\ proc' = [proc EXCEPT ![p] = [state |-> "live", owned |-> FALSE, parent |-> Coordinator,
                                    life |-> 2, origin |-> "other"]]
    /\ UNCHANGED <<bound, inodes, stage, started, reading, killing, ending>>

-----------------------------------------------------------------------------
(* ForegroundSession.start and wait_for_listeners *)

Start(p) ==
    /\ stage = "entered" /\ Len(started) < Len(Roles) /\ Fresh(p)
    /\ proc' = Spawn(p, Coordinator, Roles[Len(started) + 1])
    /\ stage' = "identity"
    /\ started' = Append(started, [role |-> Roles[Len(started) + 1], pid |-> p, life |-> 1])
    /\ UNCHANGED <<bound, inodes, reading, killing, ending>>

\* Its identity is read, and process.poll reaps it when it has ended already.
Identified ==
    LET p == started[Len(started)].pid IN
    /\ stage = "identity"
    /\ IF Live(p) THEN stage' = "entered" /\ UNCHANGED <<tcp, members, fds>> ELSE Raise
    /\ UNCHANGED <<world, started, seen, cursor, killing, ending>>

Alive(f) == Live(f.pid) /\ proc[f.pid].life = f.life

Snapshot == [a \in Addresses |-> bound[a].inode]

\* The listeners are read before the descriptors.
ReadListeners ==
    /\ stage \in {"entered", "waiting"} /\ Len(started) = Len(Roles)
    /\ stage' = "members"
    /\ tcp' = Snapshot
    /\ UNCHANGED <<world, started, members, fds, seen, cursor, killing, ending>>

Group == {p \in Pids : Exists(p) /\ proc[p].owned}

ReadMembers ==
    /\ stage = "members"
    /\ IF \A i \in DOMAIN started : Alive(started[i])
         THEN /\ stage' = "sockets"
              /\ members' = [p \in Group |-> [life |-> proc[p].life, parent |-> proc[p].parent,
                                              dead |-> ~Live(p)]]
              /\ fds' = NoMembers /\ UNCHANGED tcp
         ELSE Raise
    /\ UNCHANGED <<world, started, seen, cursor, killing, ending>>

Unread == {p \in DOMAIN members : ~members[p].dead} \ DOMAIN fds

SocketsOf(p) == {bound[a].inode : a \in {b \in Addresses : p \in bound[b].holders}}

\* A member that is gone or is not the same any more ends the wait.
ReadSockets(p) ==
    /\ stage = "sockets" /\ p \in Unread
    /\ IF Exists(p) /\ proc[p].life = members[p].life
         THEN /\ fds' = [q \in DOMAIN fds \cup {p} |-> IF q = p THEN SocketsOf(p) ELSE fds[q]]
              /\ UNCHANGED <<stage, tcp, members>>
         ELSE Raise
    /\ UNCHANGED <<world, started, seen, cursor, killing, ending>>

Frontends == {started[i].pid : i \in DOMAIN started}

\* Only confirmed ancestry: the least set of members with the frontend f that has, with a
\* member, its children, the other frontends left out.
Family(f) ==
    {p \in DOMAIN members : \A S \in SUBSET DOMAIN members :
        f \in S /\ (\A q \in DOMAIN members \ Frontends : members[q].parent \in S => q \in S)
          => p \in S}

RoleOf(p) ==
    LET own == {i \in DOMAIN started : p \in Family(started[i].pid)} IN
    IF own = {} THEN "none" ELSE started[CHOOSE i \in own : TRUE].role

Owners(a) == {RoleOf(p) : p \in {q \in DOMAIN fds : tcp[a] # 0 /\ tcp[a] \in fds[q]}}

Wanted(a) == {Roles[i] : i \in {j \in DOMAIN Roles : a \in Expected[Roles[j]]}}

Observed == {a \in Addresses : Owners(a) # {}}

\* Somebody else's listener at an expected address, or an extra one of ours.
Wrong ==
    \/ \E a \in Observed : Owners(a) # Wanted(a)
    \/ \E a \in Addresses \ Observed : tcp[a] # 0 /\ Wanted(a) # {}

Compare ==
    /\ stage = "sockets" /\ Unread = {}
    /\ seen' = seen \cup {tcp[a] : a \in Observed}
    /\ CASE Wrong -> Raise
         [] ~Wrong /\ {a \in Addresses : Wanted(a) # {}} \subseteq Observed ->
              stage' = "again" /\ UNCHANGED tcp /\ members' = NoMembers /\ fds' = NoMembers
         [] OTHER -> stage' = "waiting" /\ Forget
    /\ UNCHANGED <<world, started, cursor, killing, ending>>

\* Faulty variant: the listeners are not read again.
ReadOnce ==
    /\ Goto("again", "recheck") /\ Forget
    /\ UNCHANGED <<world, started, seen, cursor, killing, ending>>

\* Listeners that have changed since then need a whole new reading.
ReadAgain ==
    /\ stage = "again"
    /\ stage' = IF Snapshot = tcp THEN "recheck" ELSE "waiting"
    /\ Forget
    /\ UNCHANGED <<world, started, seen, cursor, killing, ending>>

Recheck ==
    /\ stage = "recheck"
    /\ IF \A i \in DOMAIN started : Alive(started[i])
         THEN stage' = "ready" /\ UNCHANGED <<tcp, members, fds>>
         ELSE Raise
    /\ UNCHANGED <<world, started, seen, cursor, killing, ending>>

\* The probes run against the listeners, which are then waited for once more.
Probe ==
    /\ Goto("ready", "waiting")
    /\ UNCHANGED <<world, started, reading, killing, ending>>

\* The end of the block, SIGTERM, SIGINT, a deadline, or an error of the probes or of Popen.
Abort ==
    /\ stage \notin {"cleanup", "scan", "decide", "check", "open", "verify", "send", "done"}
    /\ Raise
    /\ UNCHANGED <<world, started, seen, cursor, killing, ending>>

-----------------------------------------------------------------------------
(* ForegroundSession.cleanup *)

Reap ==
    /\ Goto("cleanup", "scan")
    /\ proc' = [p \in Pids |->
                  IF proc[p].state = "zombie" /\ proc[p].owned /\ proc[p].parent = Coordinator
                    THEN [proc[p] EXCEPT !.state = "free"] ELSE proc[p]]
    /\ members' = NoMembers /\ cursor' = 0
    /\ UNCHANGED <<bound, inodes, started, tcp, fds, seen, killing, ending>>

\* _members: /proc is read in the order of the process ids.
Scan(p) ==
    /\ stage = "scan" /\ p > cursor /\ \A q \in cursor + 1 .. p - 1 : ~Exists(q)
    /\ Exists(p)
    /\ cursor' = p
    /\ members' = IF proc[p].owned
                    THEN [q \in DOMAIN members \cup {p} |->
                            IF q = p THEN [life |-> proc[p].life, dead |-> ~Live(p)] ELSE members[q]]
                    ELSE members
    /\ UNCHANGED <<world, stage, started, tcp, fds, seen, killing, ending>>

ScanEnds ==
    /\ stage = "scan" /\ \A q \in Pids : q > cursor => ~Exists(q)
    /\ stage' = "decide" /\ cursor' = 0
    /\ UNCHANGED <<world, started, tcp, members, fds, seen, killing, ending>>

Restore == stage' = "done" /\ aim' = NoAim

Confirm ==
    /\ stage = "decide" /\ DOMAIN members = {}
    /\ complete' = (\A a \in Addresses : bound[a].inode \notin seen)
    /\ Restore
    /\ UNCHANGED <<world, started, reading, first, grace, harmed>>

\* SIGTERM once, then SIGKILL when the grace is over; between them another round.
Decide ==
    /\ stage = "decide" /\ DOMAIN members # {}
    /\ stage' = IF first \/ grace THEN "check" ELSE "cleanup"
    /\ UNCHANGED <<world, started, reading, killing, ending>>

GraceEnds ==
    /\ stage # "done" /\ ~first /\ ~grace
    /\ grace' = TRUE
    /\ UNCHANGED <<world, stage, started, reading, first, aim, ending>>

Targets == {p \in DOMAIN members : ~members[p].dead}

RankOf(p) == IF \E i \in DOMAIN started : started[i].pid = p
               THEN -(CHOOSE i \in DOMAIN started : started[i].pid = p) ELSE p

Next1(p) == p \in Targets /\ \A q \in Targets : RankOf(p) <= RankOf(q)

Drop(p) == members' = [q \in DOMAIN members \ {p} |-> members[q]]

Fail == Restore /\ complete' = FALSE /\ UNCHANGED harmed

Same(p) == Exists(p) /\ proc[p].life = members[p].life

\* _signal: the identity is read before and after the pidfd is opened.
CheckIdentity(p) ==
    /\ stage = "check" /\ Next1(p)
    /\ CASE Same(p) -> stage' = "open" /\ aim' = [pid |-> p, fd |-> 0]
                       /\ UNCHANGED <<members, ending>>
         [] ~Exists(p) -> Drop(p) /\ UNCHANGED <<stage, aim, ending>>
         [] OTHER -> Fail /\ UNCHANGED members
    /\ UNCHANGED <<world, started, tcp, fds, seen, cursor, first, grace>>

OpenPidfd ==
    /\ stage = "open"
    /\ IF Exists(aim.pid)
         THEN /\ stage' = "verify" /\ aim' = [aim EXCEPT !.fd = proc[aim.pid].life]
              /\ UNCHANGED members
         ELSE stage' = "check" /\ aim' = NoAim /\ Drop(aim.pid)
    /\ UNCHANGED <<world, started, tcp, fds, seen, cursor, first, grace, ending>>

\* Faulty variant: the identity is not read again.
VerifyNothing ==
    /\ Goto("verify", "send")
    /\ UNCHANGED <<world, started, reading, killing, ending>>

VerifyIdentity ==
    /\ stage = "verify"
    /\ CASE Same(aim.pid) -> stage' = "send" /\ UNCHANGED <<members, aim, ending>>
         [] ~Exists(aim.pid) -> stage' = "check" /\ aim' = NoAim /\ Drop(aim.pid)
                                /\ UNCHANGED ending
         [] OTHER -> Fail /\ UNCHANGED members
    /\ UNCHANGED <<world, started, tcp, fds, seen, cursor, first, grace>>

\* Faulty variant: SIGTERM again and again.
SendTerm ==
    /\ Goto("send", "check")
    /\ harmed' = (harmed \/ (aim.fd = proc[aim.pid].life /\ Live(aim.pid) /\ ~proc[aim.pid].owned))
    /\ Drop(aim.pid)
    /\ aim' = NoAim
    /\ UNCHANGED <<world, started, tcp, fds, seen, cursor, first, grace, complete>>

\* SIGTERM may be ignored, SIGKILL may not.
Send ==
    /\ Goto("send", "check")
    /\ LET hit == aim.fd = proc[aim.pid].life /\ Live(aim.pid) IN
       /\ harmed' = (harmed \/ (hit /\ ~proc[aim.pid].owned))
       /\ IF hit /\ ~first THEN proc' = Gone(aim.pid) /\ bound' = Without(aim.pid)
          ELSE UNCHANGED <<proc, bound>>
    /\ Drop(aim.pid)
    /\ aim' = NoAim
    /\ UNCHANGED <<inodes, started, tcp, fds, seen, cursor, first, grace, complete>>

Round ==
    /\ stage = "check" /\ Targets = {}
    /\ stage' = "cleanup" /\ first' = FALSE
    /\ UNCHANGED <<world, started, reading, grace, aim, ending>>

\* The deadline of the session or of its cleanup.
Late ==
    /\ stage \in {"scan", "decide", "check", "open", "verify"}
    /\ Fail
    /\ UNCHANGED <<world, started, reading, first, grace>>

Session ==
    \/ \E p \in Pids : Start(p) \/ ReadSockets(p) \/ Scan(p) \/ CheckIdentity(p)
    \/ Identified \/ ReadListeners \/ ReadMembers \/ Compare \/ ReadAgain \/ Recheck \/ Probe
    \/ Reap \/ ScanEnds \/ Confirm \/ Decide \/ OpenPidfd \/ VerifyIdentity \/ Send \/ Round

Next ==
    \/ \E p \in Pids : Exit(p) \/ ReapedByParent(p) \/ Reuse(p)
                       \/ \E q \in Pids : Fork(p, q)
                       \/ \E a \in Addresses : Bind(p, a)
    \/ Session \/ Abort \/ GraceEnds \/ Late

\* The coordinator runs and time passes.
Fairness == WF_vars(Session) /\ WF_vars(GraceEnds)

Spec == Init /\ [][Next]_vars /\ Fairness

-----------------------------------------------------------------------------
TypeOK ==
    /\ \A p \in Pids : proc[p].state \in {"free", "live", "zombie"} /\ proc[p].life \in 0 .. 2
    /\ \A a \in Addresses : \A p \in bound[a].holders : Live(p)
    /\ inodes \in 0 .. MaxInodes /\ seen \subseteq 1 .. MaxInodes
    /\ DOMAIN members \subseteq Pids /\ DOMAIN fds \subseteq Pids
    /\ Len(started) <= Len(Roles) /\ cursor \in 0 .. Cardinality(Pids)
    /\ first \in BOOLEAN /\ grace \in BOOLEAN /\ complete \in BOOLEAN
    /\ aim.pid \in {0} \cup Pids

Origins(a) == {proc[p].origin : p \in bound[a].holders}

(***************************************************************************)
(* The wait ends only if there was a moment at which every expected        *)
(* listener was held by its own frontend or descendants of it and by       *)
(* nobody else, and no frontend held another one, although listeners,      *)
(* members and descriptors are read one after the other.                   *)
(***************************************************************************)
ReadyWasTrue ==
    [][stage = "again" /\ stage' = "recheck" /\ (\A i \in DOMAIN started : Alive(started[i])) =>
          \A a \in Addresses :
             /\ Wanted(a) # {} => Origins(a) = Wanted(a)
             /\ (\E i \in DOMAIN started : started[i].pid \in bound[a].holders) => Wanted(a) # {}]_vars

(***************************************************************************)
(* The cleanup is complete only when no process of the group is left, not  *)
(* even one that was forked while /proc was read.                          *)
(***************************************************************************)
CompleteMeansGone == complete => \A p \in Pids : ~(Exists(p) /\ proc[p].owned)

(***************************************************************************)
(* No signal reaches a process outside the group, although process ids are *)
(* reused.                                                                 *)
(***************************************************************************)
OutsidersUnharmed == ~harmed

(***************************************************************************)
(* The cleanup ends, with processes that ignore SIGTERM too.               *)
(***************************************************************************)
CleanupEnds == stage = "cleanup" ~> stage = "done"

(***************************************************************************)
(* Types and the two promises about processes: a cleanup that calls itself *)
(* complete leaves no process of the session behind, and none that belongs *)
(* to somebody else is ever signalled.                                     *)
(***************************************************************************)
Inv == TypeOK /\ CompleteMeansGone /\ OutsidersUnharmed

=============================================================================
