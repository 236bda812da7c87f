--------------------------- MODULE ApplyRunProofs ---------------------------
(***************************************************************************)
(* Proofs about ApplyRun for any plans, components and numbers of renewals.*)
(*                                                                         *)
(* RenewalsKept needs to know what the stamps can be.  The stamp of the    *)
(* record is never ahead of the certificate (Behind), so a renewal raises  *)
(* it.  What a registration writes, and what its undo puts back, is the    *)
(* record that it saw (Remembers): when it had compared them the stamps    *)
(* were the same, and they are unless acme.sh came in between (Window).    *)
(* And it looks at the certificate once more before it ends (Unlost).      *)
(*                                                                         *)
(* Inv is about a run that has ended, so the invariant must say how far a  *)
(* run at work has come, forwards or backwards (AInv): which run can have  *)
(* written a version that is there (World); what a backup holds (Backups,  *)
(* Mind); and of an apply, what it knows of where it began (ApplyMind),    *)
(* what it has done to files, field and services (ApplyFiles, ApplyPanel,  *)
(* ApplyServices), and what has worked so far (ApplyForwards).  Nothing    *)
(* runs what the run has written unless it is in the journal, and what is  *)
(* not in the journal is as it was: so an undo that has put the journal    *)
(* back, stopped the orphans and started the rest has undone the run.      *)
(***************************************************************************)
EXTENDS ApplyRun, TLAPS

Records == [hook : BOOLEAN, stamp : Nat]

Behind == cert \in Nat /\ record \in Records /\ record.stamp <= cert

\* Every process remembers a record, from its first step to its last.
Remembers ==
    "seen" \in DOMAIN me /\ me.seen.record \in Records /\ me.seen.record.stamp <= cert

\* Between a comparison and the replacement that follows, only a renewal changes the stamp.
Window == (pc \in {"replace", "putBack"} /\ ~raced) => record.stamp = me.seen.record.stamp

\* A renewal has been overwritten since the record was seen.
Lost == me.seen.record.stamp = me.seen.cert /\ record.stamp # cert

\* Where a run is before it writes the record, or after it has looked at all of it again.
Unlost ==
    \/ pc \in {"publish", "panel", "packages", "stage", "stop", "commit", "activate", "acme", "hook",
               "record", "replace", "save", "report"}
    \/ op # "renewal" /\ pc = "health"
    \/ pc = "idle" /\ verdict = "complete"

IInv == Behind /\ Remembers /\ Window /\ (Unlost => ~Lost)

\* What most steps do: nothing of acme.sh's, and the record they remember is the same, or
\* the one that is there.
Aside ==
    /\ record' = record /\ cert' = cert
    /\ "seen" \in DOMAIN me'
    /\ \/ me'.seen = [record |-> record, cert |-> cert]
       \/ me'.seen = me.seen /\ (Unlost' => Unlost)
    /\ pc' \in {"replace", "putBack"} => pc' = pc /\ raced' = raced /\ me'.seen = me.seen

LEMMA InitIInv == Init => IInv
<1> SUFFICES ASSUME Init PROVE IInv
  OBVIOUS
<1>1. record = [hook |-> FALSE, stamp |-> 0] /\ cert = 0 /\ me = Blank /\ pc = "idle"
      /\ verdict = "none"
  BY DEF Init
<1>2. Behind
  BY <1>1 DEF Behind, Records
<1>3. DOMAIN Blank = {"backup", "before", "journal", "removal", "published", "fresh", "touched",
                      "seen", "wroteHook", "registered", "todo", "errors"}
  BY DEF Blank
<1>4. Blank.seen = [record |-> record, cert |-> cert]
  BY DEF Blank
<1>5. ~Unlost /\ Window
  BY <1>1 DEF Unlost, Window
<1> QED
  BY <1>1, <1>2, <1>3, <1>4, <1>5 DEF IInv, Behind, Remembers

LEMMA AsideKeeps == ASSUME IInv, Aside PROVE IInv' /\ record'.stamp >= record.stamp /\ cert' >= cert
<1>1. Behind' /\ Remembers' /\ record'.stamp >= record.stamp /\ cert' >= cert
  BY DEF IInv, Aside, Behind, Remembers, Records
<1>2. Window'
  BY DEF IInv, Aside, Window
<1>3. Unlost' => ~Lost'
  BY DEF IInv, Aside, Lost
<1> QED
  BY <1>1, <1>2, <1>3 DEF IInv

\* The steps that begin something: they remember what they find.
LEMMA BeginAside == ASSUME IInv, Begin \/ BeginRenewal \/ Rollback PROVE Aside
<1>1. CASE Begin
  BY <1>1 DEF Begin, Aside, Blank, Goto, acme
<1>2. CASE BeginRenewal
  BY <1>2 DEF BeginRenewal, Aside, Blank, Goto, acme
<1>3. CASE Rollback
  BY <1>3 DEF Rollback, Aside, Blank, Goto, acme
<1> QED
  BY <1>1, <1>2, <1>3

\* The steps of a run on its way, but for those around the record.
LEMMA ForwardsAside ==
    ASSUME IInv, Forwards, ~MatchRecord, ~WriteRecord, ~Confirm PROVE Aside
<1> USE DEF IInv, Remembers, Aside, Unlost, Goto, acme
<1>1. CASE Publish \/ RestartPanel \/ Install \/ Stage \/ StopRemoved
  BY <1>1 DEF Publish, RestartPanel, Install, Stage, StopRemoved
<1>2. CASE Commit \/ Activate \/ Activated
  BY <1>2 DEF Commit, Write, Activate, Activated
<1>3. CASE Health \/ Save \/ Report \/ Raise
  <2>1. CASE Health
    BY <2>1 DEF Health
  <2>2. CASE Save
    BY <2>2 DEF Save
  <2>3. CASE Report \/ Raise
    BY <2>3 DEF Report, Raise
  <2> QED
    BY <1>3, <2>1, <2>2, <2>3
<1>4. CASE Register \/ WriteHook \/ RunHook
  BY <1>4 DEF Register, WriteHook, RunHook, world
<1> QED
  BY <1>1, <1>2, <1>3, <1>4 DEF Forwards

\* The steps of an undo or a rollback, but for those that put the record back.
LEMMA BackwardsAside == ASSUME IInv, Backwards, ~Unregister, ~PutBack PROVE Aside
<1> USE DEF IInv, Remembers, Aside, Unlost, Goto, End, acme
<1>1. CASE Restore \/ Unpublish \/ Quieten
  BY <1>1 DEF Restore, Unpublish, Quieten, Disable
<1>2. CASE Again \/ Revive \/ Revived \/ Reenable \/ Judge
  BY <1>2 DEF Again, Revive, Revived, Reenable, Judge
<1>3. CASE UnpublishOld \/ QuietenOld \/ AgainOld \/ ReviveOld \/ JudgeOld
  BY <1>3 DEF UnpublishOld, QuietenOld, Disable, AgainOld, ReviveOld, JudgeOld
<1> QED
  BY <1>1, <1>2, <1>3 DEF Backwards

LEMMA Step ==
    ASSUME IInv, [Next]_vars
    PROVE  IInv' /\ (record'.stamp < record.stamp => raced) /\ cert' >= cert
<1>0. ASSUME Aside PROVE IInv' /\ (record'.stamp < record.stamp => raced) /\ cert' >= cert
  BY <1>0, AsideKeeps DEF IInv, Behind, Records
<1>1. CASE UNCHANGED vars
  <2>1. Aside
    BY <1>1 DEF vars, acme, Aside, IInv, Remembers, Unlost
  <2> QED
    BY <2>1, <1>0
<1>2. CASE Begin \/ BeginRenewal \/ Rollback
  BY <1>2, BeginAside, <1>0
<1>3. CASE MatchRecord
  <2>1. UNCHANGED <<record, cert, me, op, verdict>> /\ pc = "record" /\ pc' \in {"replace", "unregister"}
        /\ (pc' = "replace" => Intact)
    BY <1>3 DEF MatchRecord, Goto
  <2>2. Window'
    BY <2>1 DEF Window, Intact, IInv, Remembers, Records
  <2>3. Unlost' => ~Lost'
    BY <2>1 DEF IInv, Unlost, Lost
  <2> QED
    BY <2>1, <2>2, <2>3 DEF IInv, Behind, Remembers, Records
<1>4. CASE WriteRecord
  \* It writes what was seen: the stamp is lower only if acme.sh came in between.
  <2>1. /\ record' = [me.seen.record EXCEPT !.hook = TRUE] /\ me' = [me EXCEPT !.registered = TRUE]
        /\ cert' = cert /\ pc = "replace" /\ pc' = "reload"
    BY <1>4 DEF WriteRecord, Goto
  <2>2. record' \in Records /\ record'.stamp = me.seen.record.stamp
    BY <2>1 DEF IInv, Remembers, Records
  <2>3. Behind' /\ Remembers'
    BY <2>1, <2>2 DEF IInv, Behind, Remembers, Records
  <2>4. Window' /\ ~Unlost'
    BY <2>1 DEF Window, Unlost
  <2>5. record'.stamp < record.stamp => raced
    BY <2>1, <2>2 DEF IInv, Window, Behind, Records
  <2> QED
    BY <2>1, <2>3, <2>4, <2>5 DEF IInv, Behind
<1>5. CASE Confirm
  \* It looks at the certificate and the stamp again.
  <2>1. UNCHANGED <<record, cert, me>> /\ pc' \in {"unregister", "save", "health"}
        /\ (pc' # "unregister" => Intact)
    BY <1>5 DEF Confirm, Goto, acme
  <2>2. Window'
    BY <2>1 DEF Window
  <2>3. Unlost' => ~Lost'
    BY <2>1 DEF IInv, Unlost, Lost, Intact, Remembers, Records
  <2> QED
    BY <2>1, <2>2, <2>3 DEF IInv, Behind, Remembers, Records
<1>6. CASE Forwards /\ ~MatchRecord /\ ~WriteRecord /\ ~Confirm
  BY <1>6, ForwardsAside, <1>0
<1>7. CASE Unregister
  <2>1. UNCHANGED <<record, cert, me>> /\ pc' \in {"putBack", "restore"}
        /\ (pc' = "putBack" => ~Theirs)
    BY <1>7 DEF Unregister, Goto
  <2>2. Window' /\ ~Unlost'
    BY <2>1 DEF Window, Unlost, Theirs, IInv, Remembers, Records
  <2> QED
    BY <2>1, <2>2 DEF IInv, Behind, Remembers, Records
<1>8. CASE PutBack
  <2>1. record' = me.seen.record /\ UNCHANGED <<cert, me>> /\ pc = "putBack" /\ pc' = "restore"
    BY <1>8 DEF PutBack, Goto
  <2>2. Window' /\ ~Unlost'
    BY <2>1 DEF Window, Unlost
  <2>3. record'.stamp < record.stamp => raced
    BY <2>1 DEF IInv, Window, Behind, Remembers, Records
  <2> QED
    BY <2>1, <2>2, <2>3 DEF IInv, Behind, Remembers, Records
<1>9. CASE Backwards /\ ~Unregister /\ ~PutBack
  BY <1>9, BackwardsAside, <1>0
<1>10. CASE Renew
  <2>1. cert' = cert + 1 /\ record' = [record EXCEPT !.stamp = cert'] /\ UNCHANGED <<me, pc>>
        /\ raced' = (pc \in {"replace", "putBack"})
    BY <1>10 DEF Renew
  <2>2. Behind' /\ Remembers' /\ record'.stamp = cert' /\ record'.stamp >= record.stamp /\ cert' >= cert
    BY <2>1 DEF IInv, Behind, Remembers, Records
  <2>3. Window' /\ ~Lost'
    BY <2>1, <2>2 DEF Window, Lost
  <2> QED
    BY <2>2, <2>3 DEF IInv, Behind, Records
<1>11. CASE AcmeHook \/ EditPanel
  <2>1. Aside
    BY <1>11 DEF AcmeHook, EditPanel, acme, Aside, IInv, Remembers, Unlost
  <2> QED
    BY <2>1, <1>0
<1> QED
  BY <1>1, <1>2, <1>3, <1>4, <1>5, <1>6, <1>7, <1>8, <1>9, <1>10, <1>11 DEF Next, Forwards, Backwards

(***************************************************************************)
(* The stamp of the record is never ahead of the certificate, what an undo *)
(* would put back is a record, and a run that has overwritten a renewal is *)
(* not past its last look at the certificate.                              *)
(***************************************************************************)
THEOREM RecordBehind == Spec => []IInv
<1>1. IInv /\ [Next]_vars => IInv'
  BY Step
<1> QED
  BY InitIInv, <1>1, PTL DEF Spec

(***************************************************************************)
(* Whatever the plans, and however often acme.sh renews and steps raise:   *)
(* no registration of the hook, no undo of one and no rollback puts an     *)
(* older record over what acme.sh has written, but for a renewal that      *)
(* comes between the comparison and the replacement, which are two steps   *)
(* (certificate_renewal.py, restore_backup).                               *)
(***************************************************************************)
THEOREM RenewalsStay == Spec => RenewalsKept
<1>1. IInv /\ [Next]_vars => [(record'.stamp < record.stamp => raced) /\ cert' >= cert]_vars
  BY Step
<1> QED
  BY RecordBehind, <1>1, PTL DEF Spec, RenewalsKept

-------------------------------------------------------------------------------
(* The inductive invariant: types, versions, and what a run at work knows. *)

Services == [All -> [on : BOOLEAN, runs : Int, cert : 0 .. MaxRenewals]]

States == [run : Nat, wants : SUBSET Components, hook : BOOLEAN, published : SUBSET Int,
           fresh : SUBSET Packaged]

Moments == [file : [Components -> Int], hook : SUBSET CertUsers, state : States, svc : Services,
            db : Int, record : Records]

Minds == [backup : Moments, before : Moments, journal : SUBSET (Components \cup {"hook", "state"}),
          removal : SUBSET Components, published : SUBSET Int, fresh : SUBSET Packaged,
          touched : BOOLEAN, seen : [record : Records, cert : Nat], wroteHook : BOOLEAN,
          registered : BOOLEAN, todo : SUBSET Components, errors : BOOLEAN]

Typed ==
    /\ file \in [Components -> Int] /\ hook \in SUBSET CertUsers /\ packages \in SUBSET Packaged
    /\ svc \in Services /\ db \in Int
    /\ cert = renewals /\ record \in Records
    /\ due \in BOOLEAN /\ clash \in BOOLEAN
    /\ state \in States
    /\ backups \in [Runs -> [was : Moments, entries : SUBSET (Components \cup {"hook"})]]
    /\ run \in 0 .. Len(Plans) /\ me \in Minds
    /\ renewals \in 0 .. MaxRenewals /\ edits \in 0 .. MaxEdits /\ faults \in 0 .. MaxFaults

Removable == {"sidecar", "naive", "trusttunnel"}

\* Run k writes the files of c, or the published field.
Made(k, c) ==
    /\ k \in Runs /\ Plans[k].kind = "apply"
    /\ IF c = "panel" THEN Plans[k].publishes ELSE c \in Plans[k].wants

\* A version of c that may be there after r runs.
Wrote(v, c, r) == v <= r /\ Made(v, c)

FileOk(f, r) == \A c \in Components : f[c] \in {0, Absent} \/ Wrote(f[c], c, r)

DbOk(d, r) == d \in {0, PanelEdit} \/ Wrote(d, "panel", r)

\* Only Nginx runs without files of ours.
RunsOk(s, r) ==
    /\ DbOk(s["panel"].runs, r)
    /\ \A c \in Components :
         s[c].runs \in {0, Down} \/ (c = "nginx" /\ s[c].runs = Absent) \/ Wrote(s[c].runs, c, r)

\* What run k has published is the one value that it found.
Receipts(p, k) ==
    IF Plans[k].publishes THEN \E d \in Int : DbOk(d, k - 1) /\ p = {d} ELSE p = {}

StateOk(s, r) ==
    /\ s.run <= r
    /\ IF s.run = 0
         THEN s.wants = {} /\ s.published = {} /\ s.fresh = {}
         ELSE /\ s.run \in Runs /\ Plans[s.run].kind = "apply" /\ s.wants = Plans[s.run].wants
              /\ Receipts(s.published, s.run) /\ s.fresh \subseteq s.wants

MomentOk(w, r) == FileOk(w.file, r) /\ RunsOk(w.svc, r) /\ DbOk(w.db, r) /\ StateOk(w.state, r)

\* Its new packages had not run before the run that s speaks of.
FreshOk(s) == s.run # 0 => \A c \in s.fresh : backups[s.run].was.svc[c].runs = Down

World ==
    /\ FileOk(file, run) /\ RunsOk(svc, run) /\ DbOk(db, run) /\ StateOk(state, run)
    /\ \A c \in Packaged \ packages : svc[c].runs = Down
    /\ FreshOk(state)

Mind ==
    /\ MomentOk(me.before, run) /\ MomentOk(me.backup, run)
    /\ FreshOk(me.before.state) /\ FreshOk(me.backup.state)

Backups ==
    \A k \in Runs : k <= run /\ Plans[k].kind = "apply" =>
      /\ MomentOk(backups[k].was, k - 1) /\ FreshOk(backups[k].was.state)
      /\ Plans[k].wants \subseteq backups[k].entries
      /\ backups[k].entries \subseteq Plans[k].wants \cup Removable \cup {"hook"}

Early == {"publish", "panel", "packages", "stage", "stop", "commit"}

Registering == {"acme", "hook", "record", "replace", "reload", "confirm"}

Late == {"activate", "health", "save", "report"} \cup Registering

Undoing == {"unregister", "putBack", "restore"}

Putting == {"quieten", "judge", "again", "revive", "reenable"}

RollingBack == {"unpublishOld", "quietenOld", "againOld", "reviveOld"}

Stages ==
    /\ op \in {"none", "apply", "renewal", "rollback"}
    /\ op = "none" => pc = "idle" /\ verdict = "none"
    /\ op = "apply" => pc \in {"idle", "unpublish"} \cup Early \cup Late \cup Undoing \cup Putting
    /\ op = "renewal" => pc \in {"idle", "health", "save", "report"} \cup Registering \cup Undoing
    /\ op = "rollback" => pc \in {"idle"} \cup RollingBack
    /\ pc # "idle" => verdict = "none"

Whole == pc = "idle" /\ verdict = "rolledBack"

Done == pc = "idle" /\ verdict = "complete"

was == me.before

\* What an apply at work remembers of where it began.
ApplyMind ==
    /\ run \in Runs /\ Plan.kind = "apply"
    /\ MomentOk(was, run - 1) /\ backups[run].was = was
    /\ me.removal \subseteq Removable \ Plan.wants /\ \A c \in me.removal : was.file[c] # Absent
    /\ me.fresh \subseteq Plan.wants /\ \A c \in me.fresh : was.svc[c].runs = Down
    /\ pc \in {"publish", "panel", "packages"} =>
         me.fresh = {} /\ \A c \in Packaged \ packages : was.svc[c].runs = Down
    /\ me.journal \subseteq Plan.wants \cup me.removal \cup {"hook", "state"}
    /\ FileOk(me.backup.file, run - 1)
    /\ \A c \in Components \ me.fresh : me.backup.file[c] = was.file[c]
    /\ me.backup.hook = was.hook /\ me.backup.state = was.state
    /\ me.seen.record.hook = was.record.hook

ApplyFiles ==
    /\ pc \in Early \cup Late \cup Undoing =>
         /\ \A c \in Components \ me.journal : file[c] # run
         /\ \A c \in Components \ (me.journal \cup me.fresh) : file[c] = was.file[c]
         /\ ("hook" \notin me.journal /\ (~me.wroteHook \/ pc = "restore")) => hook = was.hook
         /\ "state" \notin me.journal => state = was.state
         /\ (~me.registered \/ pc = "restore") => record.hook = was.record.hook \/ clash
    /\ pc \in Early => me.journal = {}
    /\ pc \in Early \cup {"activate", "acme", "hook"} => ~me.wroteHook
    /\ pc \in Early \cup {"activate", "acme", "hook", "record", "replace"} =>
         ~me.registered /\ record.hook = was.record.hook
    /\ (pc = "unpublish" \/ pc \in Putting \/ Whole) =>
         /\ \A c \in Components : file[c] # run
         /\ \A c \in Components \ me.fresh : file[c] = was.file[c]
         /\ hook = was.hook /\ state = was.state
         /\ record.hook = was.record.hook \/ clash

ApplyPanel ==
    /\ me.published \in IF pc = "publish" \/ ~Plan.publishes THEN {{}} ELSE {{was.db}, {PanelEdit}}
    /\ (pc = "publish" \/ ~Plan.publishes \/ pc \in Putting \/ Whole) => db \in {was.db, PanelEdit}
    /\ ~Plan.publishes => (Ran(was, "panel") => svc["panel"].runs = db)
    /\ ((pc \in Putting \/ Whole) /\ Plan.publishes) => me.errors \/ svc["panel"].runs = db
    /\ Whole => ~me.errors

\* What had run goes on as long as nothing was stopped or started.
Goes(c) == Ran(was, c) => svc[c].runs = was.file[c]

Calm == me.journal = {} /\ ~me.touched /\ me.fresh = {}

Backed == pc \in {"again", "revive", "reenable"}

ApplyServices ==
    /\ pc # "idle" =>
         /\ \A c \in Components : svc[c].runs = run => c \in me.journal
         /\ \A c \in Components \ (Plan.wants \cup ToStop) : Goes(c)
         /\ ~me.touched => \A c \in ToStop : Goes(c)
         /\ Calm => \A c \in Components : Goes(c)
    /\ me.touched \/ ToStop = {} \/ me.journal = {}
    /\ pc = "judge" => Calm
    /\ Backed => ~Calm
    /\ (Backed /\ ~me.errors) => \A c \in Orphans \cap Plan.wants : svc[c].runs = Down
    /\ (pc \in {"revive", "reenable"} /\ ~me.errors) =>
         \A c \in Revivable : svc[c].runs = file[c] \/ (pc = "revive" /\ c \in me.todo)
    /\ (pc = "reenable" /\ me.touched) => \A c \in ToStop : svc[c].runs = file[c] \/ c \in me.todo
    /\ pc = "revive" => me.todo \subseteq Revivable
    /\ pc = "reenable" => me.todo \subseteq IF me.touched THEN ToStop ELSE {}
    /\ Whole => \A c \in Components : svc[c].runs # run /\ Goes(c)

ApplyForwards ==
    /\ (pc = "commit" \/ pc \in Late \/ Done) => \A c \in ToStop : ~svc[c].on /\ svc[c].runs = Down
    /\ pc \in Early => ~me.touched \/ pc = "commit"
    /\ pc = "commit" => (me.touched <=> ToStop # {})
    /\ (pc \in Late \/ Done) =>
         /\ Plan.wants \subseteq me.journal
         /\ \A c \in Plan.wants : file[c] = run
         /\ \A c \in me.removal : file[c] = Absent
         /\ Plan.hook => hook = HookOf(Plan.wants)
         /\ \A c \in Plan.wants : (svc[c].on /\ svc[c].runs = run) \/ (pc = "activate" /\ c \in me.todo)
    /\ pc = "activate" => me.todo \subseteq Plan.wants
    /\ pc \in Registering => Plan.hook
    /\ (Plan.hook /\ (pc \in {"reload", "confirm", "health", "save", "report"} \/ Done)) => record.hook
    /\ (pc = "report" \/ Done) => state.run = run

ApplyInv == op = "apply" => ApplyMind /\ ApplyFiles /\ ApplyPanel /\ ApplyServices /\ ApplyForwards

\* The services that a rollback stops, and those that it starts again.
StopsOld ==
    me.fresh \cup (Components \cap {"firewall"}) \cup ((Components \cap {"sidecar", "cloudflare"}) \ Kept)
      \cup ((Undone.entries \cap {"naive"}) \ Kept)

StartsOld ==
    {c \in ({"haproxy", "nginx"} \cap was.state.wants) \ me.fresh : c = "haproxy" => file[c] # Absent}
      \cup (Kept \cap {"naive", "firewall", "sidecar", "cloudflare"})

RollbackInv ==
    op = "rollback" =>
      /\ was.state.run \in Runs /\ Plans[was.state.run].kind = "apply"
      /\ me.published = was.state.published /\ me.fresh = was.state.fresh
      /\ (pc \in RollingBack \/ Whole) =>
           /\ \A c \in Undone.entries \cap Components : file[c] = Undone.was.file[c]
           /\ \A c \in Components : file[c] # was.state.run
           /\ state = Undone.was.state
      /\ (pc \in RollingBack \ {"unpublishOld"} \/ Whole) =>
           db # was.state.run /\ (me.published # {} => svc["panel"].runs = db)
      /\ ((pc \in {"againOld", "reviveOld"} \/ Whole) /\ ~me.errors) =>
           \A c \in StopsOld \ (IF pc = "againOld" THEN {} ELSE StartsOld) : svc[c].runs = Down
      /\ ((pc = "reviveOld" \/ Whole) /\ ~me.errors) =>
           \A c \in StartsOld : svc[c].runs = file[c] \/ (pc = "reviveOld" /\ c \in me.todo)
      /\ pc = "reviveOld" => me.todo \subseteq StartsOld
      /\ Whole => ~me.errors

AInv == Typed /\ World /\ Mind /\ Backups /\ Stages /\ ApplyInv /\ RollbackInv

-------------------------------------------------------------------------------
(* Types. *)

LEMMA Names ==
    /\ Components \subseteq {"nginx", "naive", "haproxy", "firewall", "sidecar", "trusttunnel",
                             "cloudflare"}
    /\ "panel" \notin Components /\ "panel" \in All /\ Components \subseteq All
    /\ "hook" \notin Components /\ "state" \notin Components
    /\ Packaged \subseteq Components
<1>1. DOMAIN Order = 1 .. 7
  BY DEF Order
<1>2. ASSUME NEW i \in DOMAIN Order
      PROVE  Order[i] \in {"nginx", "naive", "haproxy", "firewall", "sidecar", "trusttunnel",
                           "cloudflare"}
  BY <1>1, <1>2 DEF Order
<1>3. Components \subseteq {"nginx", "naive", "haproxy", "firewall", "sidecar", "trusttunnel",
                            "cloudflare"}
  BY <1>2, ConstantsAssumption
<1> QED
  BY <1>3 DEF All, Packaged

LEMMA Picks == ASSUME NEW S, S # {} PROVE (CHOOSE v \in S : TRUE) \in S
  OBVIOUS

\* The plan at work.
LEMMA PlanTyped ==
    ASSUME AInv, op = "apply"
    PROVE  /\ run \in Runs /\ run \in Nat /\ run > 0 /\ Plan.kind = "apply" /\ Plan.wants \subseteq Components
           /\ Plan.hook \in BOOLEAN /\ Plan.publishes \in BOOLEAN
<1>1. run \in Runs /\ Plan.kind = "apply"
  BY DEF AInv, ApplyInv, ApplyMind
<1> QED
  BY <1>1, ConstantsAssumption DEF Plan, Runs

\* What is at work shows in where it is.
LEMMA ApplyAt ==
    ASSUME AInv,
           pc \in Early \cup {"activate", "unpublish"} \cup Putting
    PROVE  op = "apply"
  BY DEF AInv, Stages, Early, Registering, Undoing, Putting, RollingBack

LEMMA RollbackAt == ASSUME AInv, pc \in RollingBack PROVE op = "rollback"
  BY DEF AInv, Stages, Early, Late, Registering, Undoing, Putting, RollingBack

LEMMA LoadTyped ==
    ASSUME Typed, NEW S PROVE Load(S) \in Services
<1> SUFFICES ASSUME NEW c \in All PROVE Load(S)[c] \in [on : BOOLEAN, runs : Int, cert : 0 .. MaxRenewals]
  BY DEF Load, Services
<1>1. Version(c) \in Int
  BY Names DEF Typed, Version, All
<1>2. svc[c] \in [on : BOOLEAN, runs : Int, cert : 0 .. MaxRenewals] /\ cert \in 0 .. MaxRenewals
  BY DEF Typed, Services
<1> DEFINE v == Version(c)
           r == [svc[c] EXCEPT !.runs = v]
<1>3. r \in [on : BOOLEAN, runs : Int, cert : 0 .. MaxRenewals]
  <2> HIDE DEF v
  <2> QED
    BY <1>1, <1>2 DEF v
<1>4. [r EXCEPT !.cert = cert] \in [on : BOOLEAN, runs : Int, cert : 0 .. MaxRenewals]
  <2> HIDE DEF r
  <2> QED
    BY <1>2, <1>3
<1> QED
  BY <1>2, <1>4 DEF Load

LEMMA StoppedTyped == ASSUME Typed, NEW S PROVE Stopped(S) \in Services
<1> SUFFICES ASSUME NEW c \in All PROVE Stopped(S)[c] \in [on : BOOLEAN, runs : Int, cert : 0 .. MaxRenewals]
  BY DEF Stopped, Services
<1>1. svc[c] \in [on : BOOLEAN, runs : Int, cert : 0 .. MaxRenewals]
  BY DEF Typed, Services
<1> DEFINE off == [svc[c] EXCEPT !.on = FALSE]
<1>2. off \in [on : BOOLEAN, runs : Int, cert : 0 .. MaxRenewals]
  BY <1>1
<1>3. [off EXCEPT !.runs = Down] \in [on : BOOLEAN, runs : Int, cert : 0 .. MaxRenewals]
  <2> HIDE DEF off
  <2> QED
    BY <1>2 DEF Down
<1> QED
  BY <1>1, <1>3 DEF Stopped

LEMMA SavedTyped == ASSUME Typed PROVE Saved \in Moments
  BY DEF Typed, Saved, Moments

LEMMA BlankTyped == ASSUME Typed PROVE Blank \in Minds
<1>1. Saved \in Moments /\ record \in Records /\ cert \in Nat
  BY SavedTyped, ConstantsAssumption DEF Typed
<1> QED
  BY <1>1 DEF Blank, Minds

LEMMA InitTyped == Init => Typed
<1> SUFFICES ASSUME Init PROVE Typed
  OBVIOUS
<1>1. file \in [Components -> Int] /\ hook \in SUBSET CertUsers /\ packages \in SUBSET Packaged
  BY ConstantsAssumption DEF Init, Absent
<1>2. svc \in Services
  BY <1>1, Names, ConstantsAssumption DEF Init, Services, All, Packaged, Down
<1>3. state \in States /\ record \in Records
  BY DEF Init, States, NoState, Records
<1>4. cert = renewals /\ record.stamp <= cert /\ cert \in 0 .. MaxRenewals
  BY ConstantsAssumption DEF Init
<1>5. Saved \in Moments
  BY <1>1, <1>2, <1>3 DEF Init, Saved, Moments
<1>6. backups \in [Runs -> [was : Moments, entries : SUBSET (Components \cup {"hook"})]]
  BY <1>5 DEF Init
<1>7. me \in Minds
  BY <1>3, <1>4, <1>5 DEF Init, Blank, Minds, Records
<1>8. db \in Int /\ due = FALSE /\ clash = FALSE
  BY DEF Init
<1>9. run \in 0 .. Len(Plans) /\ edits \in 0 .. MaxEdits /\ faults \in 0 .. MaxFaults
  BY ConstantsAssumption DEF Init
<1> QED
  BY <1>1, <1>2, <1>3, <1>4, <1>6, <1>7, <1>8, <1>9 DEF Init, Typed

\* The steps that start or stop services, and what they remember meanwhile.
LEMMA StartTyped ==
    ASSUME Typed, NEW c \in Components, NEW enable \in BOOLEAN, Start(c, enable)
    PROVE  svc' \in Services
<1>1. Load({c}) \in Services /\ c \in All
  BY LoadTyped, Names
<1> QED
  BY <1>1 DEF Start, Services

LEMMA StartFailsTyped ==
    ASSUME Typed, NEW c \in Components, StartFails(c)
    PROVE  svc' \in Services /\ faults' \in 0 .. MaxFaults
<1>1. CASE HasUnit(c)
  <2>1. PICK up \in {svc[c].runs, Down} : svc' = [svc EXCEPT ![c].runs = up]
    BY <1>1 DEF StartFails
  <2>2. svc[c] \in [on : BOOLEAN, runs : Int, cert : 0 .. MaxRenewals] /\ up \in Int
    BY Names, <2>1 DEF Typed, Services, Down
  <2>3. svc' \in Services
    BY <2>1, <2>2 DEF Typed, Services
  <2> QED
    BY <1>1, <2>3, ConstantsAssumption DEF Typed, StartFails, Fault
<1>2. CASE ~HasUnit(c)
  BY <1>2 DEF StartFails, Typed
<1> QED
  BY <1>1, <1>2

\* The panel is started again, or goes on with another value.
LEMMA PanelTyped ==
    ASSUME Typed, NEW v \in Int
    PROVE  /\ [svc EXCEPT !["panel"].runs = v] \in Services
           /\ [svc EXCEPT !["panel"].runs = v, !["panel"].cert = cert] \in Services
<1> DEFINE s == [svc EXCEPT !["panel"].runs = v]
<1>1. svc \in Services /\ cert \in 0 .. MaxRenewals /\ "panel" \in All
  BY Names DEF Typed
<1>2. s \in Services
  BY <1>1 DEF Services
<1>3. [s EXCEPT !["panel"].cert = cert] \in Services
  <2> HIDE DEF s
  <2> QED
    BY <1>1, <1>2 DEF Services
<1> QED
  BY <1>2, <1>3

LEMMA DisableTyped ==
    ASSUME Typed, NEW S, Disable(S)
    PROVE  svc' \in Services /\ faults' \in 0 .. MaxFaults /\ me' \in Minds
<1>1. CASE svc' = Stopped(S) /\ UNCHANGED <<me, faults>>
  BY <1>1, StoppedTyped DEF Typed
<1>2. CASE Fault /\ (\E c \in S : svc' = Stopped(S \ {c})) /\ me' = [me EXCEPT !.errors = TRUE]
  <2>1. svc' \in Services
    BY <1>2, StoppedTyped
  <2>2. me' \in Minds
    BY <1>2 DEF Typed, Minds
  <2> QED
    BY <1>2, <2>1, <2>2, ConstantsAssumption DEF Typed, Fault
<1> QED
  BY <1>1, <1>2 DEF Disable

LEMMA BeginTyped == ASSUME AInv, Begin \/ BeginRenewal \/ Rollback PROVE Typed'
<1> USE ConstantsAssumption
<1>0. Typed /\ Blank \in Minds /\ Saved \in Moments
  BY BlankTyped, SavedTyped DEF AInv
<1>1. CASE Begin
  <2>1. run' \in Runs /\ run' \in 0 .. Len(Plans) /\ run' = run + 1
    BY <1>0, <1>1 DEF Begin, Typed, Runs
  <2>2. Removed(run') \subseteq Components
    BY <1>0 DEF Removed, Typed, States
  <2>3. me' \in Minds
    BY <1>0, <1>1, <2>2 DEF Begin, Minds
  <2>4. backups' \in [Runs -> [was : Moments, entries : SUBSET (Components \cup {"hook"})]]
    BY <1>0, <1>1, <2>1, <2>2 DEF Begin, Typed
  <2> QED
    BY <1>0, <1>1, <2>1, <2>3, <2>4 DEF Begin, Typed, world, acme, bounds
<1>2. CASE BeginRenewal
  BY <1>0, <1>2 DEF BeginRenewal, Typed, world, acme, bounds
<1>3. CASE Rollback
  <2>1. state.run \in Runs
    BY <1>0, <1>3 DEF AInv, World, StateOk, Rollback
  <2>2. backups[state.run].was \in Moments
    BY <1>0, <2>1 DEF Typed
  <2>3. file' \in [Components -> Int] /\ hook' \in SUBSET CertUsers /\ state' \in States
    BY <1>0, <1>3, <2>2 DEF Rollback, Typed, Moments
  <2>4. me' \in Minds
    BY <1>0, <1>3 DEF Rollback, Minds, Typed, States
  <2> QED
    BY <1>0, <1>3, <2>3, <2>4 DEF Rollback, Typed, acme, bounds
<1> QED
  BY <1>1, <1>2, <1>3

LEMMA ForwardsTyped1 ==
    ASSUME AInv, Publish \/ RestartPanel \/ Install \/ Stage \/ StopRemoved PROVE Typed'
<1> USE ConstantsAssumption
<1>0. Typed
  BY DEF AInv
<1>1. CASE Publish
  <2>1. db \in Int /\ run \in Int /\ me \in Minds
    BY <1>0 DEF Typed
  <2>2. db' \in Int
    BY <1>1, <2>1 DEF Publish
  <2>3. me' \in Minds
    BY <1>1, <2>1 DEF Publish, Minds
  <2> QED
    BY <1>0, <1>1, <2>2, <2>3 DEF Publish, Typed, acme, bounds
<1>2. CASE RestartPanel
  BY <1>0, <1>2, LoadTyped DEF RestartPanel, Typed, acme, bounds
<1>3. CASE Install
  <2> DEFINE new == (Plan.wants \cap Packaged) \ packages
  <2>1. me' \in Minds /\ packages' \in SUBSET Packaged
    BY <1>0, <1>3 DEF Install, Typed, Minds
  <2>2. file' \in [Components -> Int]
    BY <1>0, <1>3 DEF Install, Typed
  <2>3. svc' \in Services /\ faults' \in 0 .. MaxFaults
    <3>1. CASE svc' = Stopped(new) /\ UNCHANGED faults
      BY <1>0, <3>1, StoppedTyped DEF Typed
    <3>2. CASE /\ Fault
               /\ svc' = [c \in All |-> IF c \in new THEN [on |-> TRUE, runs |-> file'[c], cert |-> cert]
                                        ELSE svc[c]]
      <4>1. new \subseteq Components
        BY DEF Packaged
      <4> HIDE DEF new
      <4> QED
        BY <1>0, <2>2, <3>2, <4>1 DEF Typed, Fault, Services
    <3> QED
      BY <1>3, <3>1, <3>2 DEF Install
  <2> QED
    BY <1>0, <1>3, <2>1, <2>2, <2>3 DEF Install, Typed, acme
<1>4. CASE Stage
  <2>1. me' \in Minds
    BY <1>0, <1>4, SavedTyped DEF Stage, Typed, Minds
  <2> QED
    BY <1>0, <1>4, <2>1 DEF Stage, Typed, world, acme, bounds
<1>5. CASE StopRemoved
  <2>1. me' \in Minds
    BY <1>0, <1>5 DEF StopRemoved, Typed, Minds
  <2>2. svc' \in Services /\ faults' \in 0 .. MaxFaults
    BY <1>0, <1>5, StoppedTyped DEF StopRemoved, Fault, Typed
  <2> QED
    BY <1>0, <1>5, <2>1, <2>2 DEF StopRemoved, Typed, acme
<1> QED
  BY <1>1, <1>2, <1>3, <1>4, <1>5

LEMMA ForwardsTyped2 ==
    ASSUME AInv, Commit \/ Activate \/ Activated \/ Raise \/ Health \/ Save \/ Report PROVE Typed'
<1> USE ConstantsAssumption
<1>0. Typed
  BY DEF AInv
<1>1. CASE Commit
  <2>1. PICK S \in SUBSET Changes : Write(S)
    BY <1>1 DEF Commit
  <2>2. Plan.wants \subseteq Components
    BY <1>1, ApplyAt, PlanTyped DEF Commit, Early
  <2>3. Changes \subseteq Components \cup {"hook"}
    BY <1>0, <2>2 DEF Changes, Typed, Minds
  <2>4. me' \in Minds
    BY <1>0, <2>1, <2>2, <2>3 DEF Write, Typed, Minds
  <2>5. file' \in [Components -> Int] /\ hook' \in SUBSET CertUsers
    BY <1>0, <2>1 DEF Write, Typed, Absent, HookOf, CertUsers, All
  <2>6. faults' \in 0 .. MaxFaults
    BY <1>0, <1>1 DEF Commit, Fault, Typed
  <2> QED
    BY <1>0, <1>1, <2>4, <2>5, <2>6 DEF Commit, Typed, acme
<1>2. CASE Activate
  <2>1. PICK c \in me.todo : /\ Start(c, TRUE) \/ StartFails(c)
                             /\ me' = [me EXCEPT !.todo = @ \ {c}]
    BY <1>2 DEF Activate
  <2>2. c \in Components /\ me' \in Minds
    BY <1>0, <2>1 DEF Typed, Minds
  <2>3. svc' \in Services /\ faults' \in 0 .. MaxFaults
    BY <1>0, <2>1, <2>2, StartTyped, StartFailsTyped DEF Start, Typed
  <2> QED
    BY <1>0, <1>2, <2>2, <2>3 DEF Activate, Typed, acme
<1>3. CASE Activated \/ Raise \/ Health \/ Report
  BY <1>0, <1>3 DEF Activated, Raise, Fault, Health, Report, Typed, world, acme, bounds
<1>4. CASE Save
  <2>1. me' \in Minds
    BY <1>0, <1>4 DEF Save, Typed, Minds
  <2>2. CASE op = "renewal"
    <3>1. state' \in States
      BY <1>0, <1>4, <2>2 DEF Save, Typed, States
    <3> QED
      BY <1>0, <1>4, <2>1, <3>1 DEF Save, Typed, world, acme, bounds
  <2>3. CASE op # "renewal"
    <3>1. op = "apply"
      BY <1>4, <2>3 DEF AInv, Stages, Save, Early, Late, Registering, Undoing, Putting, RollingBack
    <3>2. /\ run \in Nat /\ Plan.wants \in SUBSET Components /\ Plan.hook \in BOOLEAN
          /\ me.published \in SUBSET Int /\ me.fresh \in SUBSET Packaged
      BY <1>0, <3>1, PlanTyped DEF Typed, Minds
    <3>3. state' = [run |-> run, wants |-> Plan.wants, hook |-> Plan.hook,
                    published |-> me.published, fresh |-> me.fresh]
      BY <1>4, <2>3 DEF Save
    <3>4. state' \in States
      BY <3>2, <3>3 DEF States
    <3> QED
      BY <1>0, <1>4, <2>1, <3>4 DEF Save, Typed, world, acme, bounds
  <2> QED
    BY <2>2, <2>3
<1> QED
  BY <1>1, <1>2, <1>3, <1>4

LEMMA RegisteringTyped ==
    ASSUME AInv, Register \/ WriteHook \/ MatchRecord \/ WriteRecord \/ RunHook \/ Confirm PROVE Typed'
<1> USE ConstantsAssumption
<1>0. Typed
  BY DEF AInv
<1>1. CASE Register
  <2>1. record \in Records /\ cert \in Nat /\ me \in Minds
    BY <1>0 DEF Typed
  <2>2. me' = [me EXCEPT !.seen = [record |-> record, cert |-> cert]]
    BY <1>1 DEF Register
  <2>3. me' \in Minds
    BY <2>1, <2>2 DEF Minds
  <2> QED
    BY <1>0, <1>1, <2>3 DEF Register, Typed, world, acme, bounds
<1>2. CASE WriteHook
  <2>1. CASE Intact
    <3>1. hook' \in SUBSET CertUsers
      BY <1>2, <2>1 DEF WriteHook, HookOf, CertUsers, All
    <3>2. me' = [me EXCEPT !.wroteHook = hook # HookOf(Wants)]
      BY <1>2, <2>1 DEF WriteHook
    <3>3. me' \in Minds
      BY <1>0, <3>2 DEF Typed, Minds
    <3> QED
      BY <1>0, <1>2, <3>1, <3>3 DEF WriteHook, Typed, acme, bounds
  <2>2. CASE ~Intact
    BY <1>0, <1>2, <2>2 DEF WriteHook, Typed, acme, bounds
  <2> QED
    BY <2>1, <2>2
<1>3. CASE WriteRecord
  <2>1. record' \in Records
    BY <1>0, <1>3 DEF WriteRecord, Typed, Minds, Records
  <2>2. me' \in Minds
    <3>1. me' = [me EXCEPT !.registered = TRUE]
      BY <1>3 DEF WriteRecord
    <3>2. [me EXCEPT !.registered = TRUE] \in Minds
      BY <1>0 DEF Typed, Minds
    <3> QED
      BY <1>0, <3>1, <3>2 DEF Typed
  <2> QED
    BY <1>0, <1>3, <2>1, <2>2 DEF WriteRecord, Typed, world, bounds
<1>4. CASE RunHook
  <2>1. svc' \in Services /\ faults' \in 0 .. MaxFaults
    BY <1>0, <1>4, LoadTyped DEF RunHook, Reloaded, Fault, Typed
  <2> QED
    BY <1>0, <1>4, <2>1 DEF RunHook, Typed, acme
<1>5. CASE MatchRecord \/ Confirm
  BY <1>0, <1>5 DEF MatchRecord, Confirm, Typed, world, acme, bounds
<1> QED
  BY <1>1, <1>2, <1>3, <1>4, <1>5

LEMMA BackwardsTyped1 ==
    ASSUME AInv, Unregister \/ PutBack \/ Restore \/ Unpublish \/ Quieten \/ Again PROVE Typed'
<1> USE ConstantsAssumption
<1>0. Typed
  BY DEF AInv
<1>1. CASE Unregister \/ PutBack
  <2>1. record' \in Records
    BY <1>0, <1>1 DEF Unregister, PutBack, Typed, Minds
  <2>2. hook' \in SUBSET CertUsers
    BY <1>0, <1>1 DEF Unregister, PutBack, PutHookBack, Typed, Minds, Moments
  <2>3. clash' \in BOOLEAN
    BY <1>0, <1>1 DEF Unregister, PutBack, Typed, Minds
  <2> QED
    BY <1>0, <1>1, <2>1, <2>2, <2>3 DEF Unregister, PutBack, Typed, bounds
<1>2. CASE Restore
  <2>1. file' \in [Components -> Int] /\ hook' \in SUBSET CertUsers /\ state' \in States
    BY <1>0, <1>2 DEF Restore, Typed, Minds, Moments
  <2> QED
    BY <1>0, <1>2, <2>1 DEF Restore, Typed, acme, bounds
<1>3. CASE Unpublish
  <2>1. CASE me.published = {} \/ db # run
    BY <1>0, <1>3, <2>1 DEF Unpublish, Typed, acme
  <2>2. CASE me.published # {} /\ db = run
    <3>1. db' \in Int
      BY <1>0, <1>3, <2>2, Picks DEF Unpublish, Typed, Minds
    <3>2. CASE svc' = [svc EXCEPT !["panel"].runs = db', !["panel"].cert = cert] /\ UNCHANGED <<me, faults>>
      <4>1. svc' \in Services
        BY <1>0, <3>1, <3>2, PanelTyped
      <4> QED
        BY <1>0, <1>3, <3>1, <3>2, <4>1 DEF Unpublish, Typed, acme
    <3>3. CASE Fault /\ me' = [me EXCEPT !.errors = TRUE] /\ UNCHANGED svc
      <4>1. me' \in Minds
        BY <1>0, <3>3 DEF Typed, Minds
      <4> QED
        BY <1>0, <1>3, <3>1, <3>3, <4>1 DEF Unpublish, Fault, Typed, acme
    <3> QED
      BY <1>3, <2>2, <3>2, <3>3 DEF Unpublish
  <2> QED
    BY <2>1, <2>2
<1>4. CASE Quieten
  <2>1. svc' \in Services /\ faults' \in 0 .. MaxFaults /\ me' \in Minds
    BY <1>0, <1>4, DisableTyped DEF Quieten, Typed
  <2> QED
    BY <1>0, <1>4, <2>1 DEF Quieten, Typed, acme
<1>5. CASE Again
  <2>1. Revivable \subseteq Components
    BY <1>5, ApplyAt, PlanTyped DEF Again, Putting, Revivable
  <2>2. me' \in Minds
    BY <1>0, <1>5, <2>1 DEF Again, Typed, Minds
  <2> QED
    BY <1>0, <1>5, <2>2 DEF Again, Typed, world, acme, bounds
<1> QED
  BY <1>1, <1>2, <1>3, <1>4, <1>5

LEMMA BackwardsTyped2 ==
    ASSUME AInv, Revive \/ Revived \/ Reenable \/ Judge PROVE Typed'
<1> USE ConstantsAssumption
<1>0. Typed
  BY DEF AInv
<1>1. CASE Revive
  <2>1. PICK c \in me.todo : \/ Start(c, TRUE) /\ me' = [me EXCEPT !.todo = @ \ {c}]
                             \/ StartFails(c) /\ me' = [me EXCEPT !.todo = {}, !.errors = TRUE]
    BY <1>1 DEF Revive
  <2>2. c \in Components
    BY <1>0 DEF Typed, Minds
  <2>3. me' \in Minds
    <3>1. [me EXCEPT !.todo = @ \ {c}] \in Minds
      BY <1>0 DEF Typed, Minds
    <3> DEFINE m == [me EXCEPT !.todo = {}]
    <3>2. m \in Minds
      BY <1>0 DEF Typed, Minds
    <3>3. [m EXCEPT !.errors = TRUE] \in Minds
      <4> HIDE DEF m
      <4> QED
        BY <3>2 DEF Minds
    <3> QED
      BY <2>1, <3>1, <3>3
  <2>4. svc' \in Services /\ faults' \in 0 .. MaxFaults
    BY <1>0, <2>1, <2>2, StartTyped, StartFailsTyped DEF Start, Typed
  <2> QED
    BY <1>0, <1>1, <2>3, <2>4 DEF Revive, Typed, acme
<1>2. CASE Revived
  <2>1. me' \in Minds
    BY <1>0, <1>2 DEF Revived, ToStop, Typed, Minds
  <2> QED
    BY <1>0, <1>2, <2>1 DEF Revived, Typed, world, acme, bounds
<1>3. CASE Reenable
  <2>1. PICK c \in me.todo : (Start(c, TRUE) \/ StartFails(c)) /\ me' = [me EXCEPT !.todo = @ \ {c}]
    BY <1>3 DEF Reenable
  <2>2. c \in Components /\ me' \in Minds
    BY <1>0, <2>1 DEF Typed, Minds
  <2>3. svc' \in Services /\ faults' \in 0 .. MaxFaults
    BY <1>0, <2>1, <2>2, StartTyped, StartFailsTyped DEF Start, Typed
  <2> QED
    BY <1>0, <1>3, <2>2, <2>3 DEF Reenable, Typed, acme
<1>4. CASE Judge
  BY <1>0, <1>4 DEF Judge, Typed, world, acme, bounds
<1> QED
  BY <1>1, <1>2, <1>3, <1>4

LEMMA RollingBackTyped ==
    ASSUME AInv, UnpublishOld \/ QuietenOld \/ AgainOld \/ ReviveOld \/ JudgeOld PROVE Typed'
<1> USE ConstantsAssumption
<1>0. Typed
  BY DEF AInv
<1>1. CASE UnpublishOld
  <2>1. db' \in Int
    <3>1. CASE db' = db
      BY <1>0, <3>1 DEF Typed
    <3>2. CASE me.published # {} /\ db' = CHOOSE v \in me.published : TRUE
      BY <1>0, <3>2, Picks DEF Typed, Minds
    <3> QED
      BY <1>1, <3>1, <3>2 DEF UnpublishOld
  <2>3. faults' \in 0 .. MaxFaults
    <3>1. faults' = faults \/ Fault
      BY <1>1 DEF UnpublishOld
    <3> QED
      BY <1>0, <3>1 DEF Typed, Fault
  <2>2. svc' \in Services
    <3>1. CASE svc' = [svc EXCEPT !["panel"].runs = db', !["panel"].cert = cert]
      BY <1>0, <2>1, <3>1, PanelTyped
    <3>2. CASE svc' = svc
      BY <1>0, <3>2 DEF Typed
    <3> QED
      BY <1>1, <3>1, <3>2 DEF UnpublishOld
  <2> QED
    BY <1>0, <1>1, <2>1, <2>2, <2>3 DEF UnpublishOld, Typed, acme
<1>2. CASE QuietenOld
  BY <1>0, <1>2, DisableTyped DEF QuietenOld, Typed, acme
<1>3. CASE AgainOld
  <2>1. me' \in Minds
    BY <1>0, <1>3 DEF AgainOld, Kept, Typed, Minds, Moments, States
  <2> QED
    BY <1>0, <1>3, <2>1 DEF AgainOld, Typed, world, acme, bounds
<1>4. CASE ReviveOld
  <2>1. PICK c \in me.todo : /\ Start(c, c = "naive") \/ StartFails(c)
                             /\ me' = [me EXCEPT !.todo = @ \ {c}]
    BY <1>4 DEF ReviveOld
  <2>2. c \in Components /\ me' \in Minds
    BY <1>0, <2>1 DEF Typed, Minds
  <2>3. svc' \in Services /\ faults' \in 0 .. MaxFaults
    BY <1>0, <2>1, <2>2, StartTyped, StartFailsTyped DEF Start, Typed
  <2> QED
    BY <1>0, <1>4, <2>2, <2>3 DEF ReviveOld, Typed, acme
<1>5. CASE JudgeOld
  BY <1>0, <1>5 DEF JudgeOld, Typed, world, acme, bounds
<1> QED
  BY <1>1, <1>2, <1>3, <1>4, <1>5

LEMMA OthersTyped == ASSUME AInv, Renew \/ AcmeHook \/ EditPanel PROVE Typed'
<1> USE ConstantsAssumption
<1>0. Typed
  BY DEF AInv
<1>1. CASE Renew
  <2>1. record' \in Records /\ record'.stamp = cert' /\ cert' = renewals' /\ renewals' \in 0 .. MaxRenewals
    BY <1>0, <1>1 DEF Renew, Typed, Records
  <2>2. due' \in BOOLEAN
    BY <1>1 DEF Renew
  <2> QED
    BY <1>0, <1>1, <2>1, <2>2 DEF Renew, Typed, world
<1>2. CASE AcmeHook
  <2>1. svc' \in Services
    BY <1>0, <1>2, LoadTyped DEF AcmeHook, Reloaded, Typed
  <2> QED
    BY <1>0, <1>2, <2>1 DEF AcmeHook, Typed, bounds
<1>3. CASE EditPanel
  <2>1. db' \in Int /\ edits' \in 0 .. MaxEdits
    BY <1>0, <1>3 DEF EditPanel, Typed, PanelEdit
  <2>2. svc' \in Services
    BY <1>0, <1>3, <2>1, PanelTyped DEF EditPanel
  <2> QED
    BY <1>0, <1>3, <2>1, <2>2 DEF EditPanel, Typed, acme
<1> QED
  BY <1>1, <1>2, <1>3

LEMMA TypedStep == AInv /\ [Next]_vars => Typed'
<1> SUFFICES ASSUME AInv, [Next]_vars PROVE Typed'
  OBVIOUS
<1>1. CASE UNCHANGED vars
  BY <1>1 DEF AInv, Typed, vars, world, acme, bounds
<1> QED
  BY <1>1, BeginTyped, ForwardsTyped1, ForwardsTyped2, RegisteringTyped, BackwardsTyped1,
     BackwardsTyped2, RollingBackTyped, OthersTyped DEF Next, Forwards, Backwards

-------------------------------------------------------------------------------
(* What the steps change, and what becomes of the services. *)

LEMMA Frames ==
    ASSUME [Next]_vars
    PROVE  /\ UNCHANGED file \/ Rollback \/ Install \/ Commit \/ Restore
           /\ UNCHANGED run \/ Begin \/ BeginRenewal
           /\ UNCHANGED db \/ Publish \/ Unpublish \/ UnpublishOld \/ EditPanel
           /\ UNCHANGED state \/ Save \/ Restore \/ Rollback
           /\ UNCHANGED backups \/ Begin
           /\ UNCHANGED packages \/ Install
           /\ \/ UNCHANGED svc
              \/ RestartPanel \/ Install \/ StopRemoved \/ Activate \/ RunHook
              \/ Unpublish \/ Quieten \/ Revive \/ Reenable
              \/ UnpublishOld \/ QuietenOld \/ ReviveOld
              \/ AcmeHook \/ EditPanel
<1>1. CASE UNCHANGED vars
  BY <1>1 DEF vars, world
<1>2. CASE Begin \/ BeginRenewal \/ Rollback
  BY <1>2 DEF Begin, BeginRenewal, Rollback, world
<1>3. CASE Publish \/ RestartPanel \/ Install \/ Stage \/ StopRemoved \/ Commit
  BY <1>3 DEF Publish, RestartPanel, Install, Stage, StopRemoved, Commit, world
<1>4. CASE Activate \/ Activated \/ Health \/ Save \/ Report \/ Raise
  BY <1>4 DEF Activate, Activated, Health, Save, Report, Raise, world
<1>5. CASE Register \/ WriteHook \/ MatchRecord \/ WriteRecord \/ RunHook \/ Confirm
  BY <1>5 DEF Register, WriteHook, MatchRecord, WriteRecord, RunHook, Confirm, world
<1>6. CASE Unregister \/ PutBack \/ Restore \/ Unpublish \/ Quieten \/ Again
  BY <1>6 DEF Unregister, PutBack, PutHookBack, Restore, Unpublish, Quieten, Again, world
<1>7. CASE Revive \/ Revived \/ Reenable \/ Judge
  BY <1>7 DEF Revive, Revived, Reenable, Judge, world
<1>8. CASE UnpublishOld \/ QuietenOld \/ AgainOld \/ ReviveOld \/ JudgeOld
  BY <1>8 DEF UnpublishOld, QuietenOld, AgainOld, ReviveOld, JudgeOld, world
<1>9. CASE Renew \/ AcmeHook \/ EditPanel
  BY <1>9 DEF Renew, AcmeHook, EditPanel, world
<1> QED
  BY <1>1, <1>2, <1>3, <1>4, <1>5, <1>6, <1>7, <1>8, <1>9 DEF Next, Forwards, Backwards

LEMMA Loads ==
    ASSUME Typed, NEW S, NEW c \in All
    PROVE  /\ Load(S)[c].on = svc[c].on
           /\ c \in S => Load(S)[c].runs = Version(c)
           /\ c \notin S => Load(S)[c].runs = svc[c].runs
<1>1. svc[c] \in [on : BOOLEAN, runs : Int, cert : 0 .. MaxRenewals]
  BY DEF Typed, Services
<1> QED
  BY <1>1 DEF Load

LEMMA Stops ==
    ASSUME Typed, NEW S, NEW c \in All
    PROVE  /\ c \in S => Stopped(S)[c].runs = Down /\ ~Stopped(S)[c].on
           /\ c \notin S => Stopped(S)[c] = svc[c]
<1>1. svc[c] \in [on : BOOLEAN, runs : Int, cert : 0 .. MaxRenewals]
  BY DEF Typed, Services
<1> QED
  BY <1>1 DEF Stopped

LEMMA Started ==
    ASSUME Typed, NEW c \in Components, NEW enable \in BOOLEAN, Start(c, enable)
    PROVE  /\ HasUnit(c) /\ svc'[c].runs = file[c] /\ (enable => svc'[c].on)
           /\ \A d \in All \ {c} : svc'[d].on = svc[d].on /\ svc'[d].runs = svc[d].runs
<1>1. c \in All /\ c # "panel" /\ Load({c}) \in Services
  BY Names, LoadTyped
<1>2. svc' = [Load({c}) EXCEPT ![c].on = @ \/ enable] /\ HasUnit(c)
  BY DEF Start
<1>3. svc'[c].runs = Load({c})[c].runs /\ (enable => svc'[c].on)
  BY <1>1, <1>2 DEF Services
<1>4. \A d \in All \ {c} : svc'[d] = Load({c})[d]
  BY <1>1, <1>2 DEF Services
<1> QED
  BY <1>1, <1>2, <1>3, <1>4, Loads DEF Version

LEMMA StartFailed ==
    ASSUME Typed, NEW c \in Components, StartFails(c)
    PROVE  /\ svc'[c].runs \in {svc[c].runs, Down} /\ svc'[c].on = svc[c].on
           /\ \A d \in All \ {c} : svc'[d] = svc[d]
<1>1. CASE HasUnit(c)
  <2>1. PICK up \in {svc[c].runs, Down} : svc' = [svc EXCEPT ![c].runs = up]
    BY <1>1 DEF StartFails
  <2>2. c \in All /\ svc[c] \in [on : BOOLEAN, runs : Int, cert : 0 .. MaxRenewals]
    BY Names DEF Typed, Services
  <2> QED
    BY <2>1, <2>2 DEF Typed, Services
<1>2. CASE ~HasUnit(c)
  BY <1>2 DEF StartFails
<1> QED
  BY <1>1, <1>2

LEMMA Disabled ==
    ASSUME Typed, NEW S, Disable(S)
    PROVE  /\ \A f \in DOMAIN me \ {"errors"} : me'[f] = me[f]
           /\ \A c \in All : IF c \in S THEN svc'[c].runs = Down \/ svc'[c] = svc[c]
                             ELSE svc'[c] = svc[c]
           /\ \/ me'.errors
              \/ me' = me /\ \A c \in All \cap S : svc'[c].runs = Down
<1>1. CASE svc' = Stopped(S) /\ UNCHANGED <<me, faults>>
  BY <1>1, Stops
<1>2. CASE Fault /\ (\E c \in S : svc' = Stopped(S \ {c})) /\ me' = [me EXCEPT !.errors = TRUE]
  BY <1>2, Stops DEF Typed, Minds
<1> QED
  BY <1>1, <1>2 DEF Disable

\* What acme.sh's hook does to a component.
LEMMA Reloads ==
    ASSUME Typed
    PROVE  /\ \A c \in All : Reloaded[c].on = svc[c].on
           /\ Reloaded["panel"].runs \in {svc["panel"].runs, db}
           /\ \A c \in Components :
                \/ Reloaded[c].runs = svc[c].runs
                \/ /\ c \in hook /\ svc[c].runs # Down /\ Reloaded[c].runs = file[c]
                   /\ c = "nginx" \/ file[c] # Absent
<1>1. CASE Checked
  BY <1>1, Loads, Names DEF Reloaded, Reloadable, Version
<1>2. CASE ~Checked
  BY <1>2, Names DEF Reloaded
<1> QED
  BY <1>1, <1>2

LEMMA PanelRuns ==
    ASSUME Typed, NEW v, \/ svc' = [svc EXCEPT !["panel"].runs = v]
                         \/ svc' = [svc EXCEPT !["panel"].runs = v, !["panel"].cert = cert]
    PROVE  svc'["panel"].runs = v /\ \A c \in Components : svc'[c] = svc[c]
<1>1. svc["panel"] \in [on : BOOLEAN, runs : Int, cert : 0 .. MaxRenewals] /\ "panel" \in All
  BY Names DEF Typed, Services
<1> QED
  BY <1>1, Names DEF Typed, Services

-------------------------------------------------------------------------------
(* Versions: what there is was written by a run up to this one. *)

LEMMA FileUp ==
    ASSUME NEW f \in [Components -> Int], NEW r \in Int, NEW q \in Int, FileOk(f, r), r <= q
    PROVE  FileOk(f, q)
  BY DEF FileOk, Wrote

LEMMA DbUp ==
    ASSUME NEW d \in Int, NEW r \in Int, NEW q \in Int, DbOk(d, r), r <= q
    PROVE  DbOk(d, q)
  BY DEF DbOk, Wrote

LEMMA RunsUp ==
    ASSUME NEW s \in Services, NEW r \in Int, NEW q \in Int, RunsOk(s, r), r <= q
    PROVE  RunsOk(s, q)
<1>1. s["panel"].runs \in Int /\ \A c \in Components : s[c].runs \in Int
  BY Names DEF Services
<1>2. DbOk(s["panel"].runs, q)
  BY <1>1, DbUp DEF RunsOk
<1> QED
  BY <1>1, <1>2 DEF RunsOk, Wrote

LEMMA StateUp ==
    ASSUME NEW s \in States, NEW r \in Int, NEW q \in Int, StateOk(s, r), r <= q
    PROVE  StateOk(s, q)
  BY DEF StateOk, States

LEMMA MomentUp ==
    ASSUME NEW w \in Moments, NEW r \in Int, NEW q \in Int, MomentOk(w, r), r <= q
    PROVE  MomentOk(w, q)
  BY FileUp, DbUp, RunsUp, StateUp DEF MomentOk, Moments

LEMMA SavedOk == ASSUME AInv PROVE Saved \in Moments /\ MomentOk(Saved, run)
  BY SavedTyped DEF AInv, World, MomentOk, Saved

\* The run that state.json speaks of, and its backup.
LEMMA LastRun ==
    ASSUME AInv, NEW s \in States, StateOk(s, run), s.run # 0
    PROVE  /\ s.run \in Runs /\ s.run \in Nat /\ 0 < s.run /\ s.run <= run
           /\ Plans[s.run].kind = "apply" /\ s.wants = Plans[s.run].wants
           /\ backups[s.run].was \in Moments /\ MomentOk(backups[s.run].was, s.run - 1)
           /\ FreshOk(backups[s.run].was.state)
           /\ s.wants \subseteq backups[s.run].entries
           /\ backups[s.run].entries \subseteq s.wants \cup Removable \cup {"hook"}
<1>1. /\ s.run \in Runs /\ s.run <= run /\ Plans[s.run].kind = "apply"
      /\ s.wants = Plans[s.run].wants
  BY DEF StateOk
<1>2. s.run \in Nat /\ 0 < s.run
  BY <1>1, ConstantsAssumption DEF Runs
<1>3. backups[s.run].was \in Moments
  BY <1>1 DEF AInv, Typed
<1> QED
  BY <1>1, <1>2, <1>3 DEF AInv, Backups

LEMMA FilesStep == ASSUME AInv, [Next]_vars PROVE FileOk(file', run')
<1>0. Typed /\ Typed' /\ FileOk(file, run) /\ run \in Int /\ run' \in Int /\ run <= run'
  <2>1. Typed /\ Typed' /\ FileOk(file, run)
    BY TypedStep DEF AInv, World
  <2>2. run \in Int
    BY <2>1 DEF Typed
  <2> QED
    BY <2>1, <2>2, Frames DEF Begin, BeginRenewal
<1>1. CASE UNCHANGED file
  BY <1>0, <1>1, FileUp DEF Typed
<1>2. CASE Rollback
  <2>1. state \in States /\ StateOk(state, run) /\ state.run # 0
    BY <1>2 DEF AInv, Typed, World, Rollback
  <2>2. /\ backups[state.run].was \in Moments /\ MomentOk(backups[state.run].was, state.run - 1)
        /\ state.run \in Nat /\ state.run <= run
    BY <2>1, LastRun
  <2>3. FileOk(backups[state.run].was.file, run)
    BY <1>0, <2>2, FileUp DEF MomentOk, Moments
  <2> QED
    BY <1>0, <1>2, <2>3 DEF Rollback, FileOk
<1>3. CASE Install
  BY <1>0, <1>3 DEF Install, FileOk
<1>4. CASE Commit
  <2>1. /\ run \in Runs /\ Plan.kind = "apply" /\ run' = run
        /\ me.removal \cap Plan.wants = {}
    BY <1>4, ApplyAt DEF AInv, ApplyInv, ApplyMind, Commit, Early
  <2>2. PICK S \in SUBSET Changes : Write(S)
    BY <1>4 DEF Commit
  <2>3. \A c \in Components : \/ file'[c] = file[c] \/ file'[c] = Absent
                              \/ file'[c] = run /\ c \in Plan.wants
    BY <2>2, Names DEF Write, Changes
  <2>4. \A c \in Components \cap Plan.wants : Wrote(run, c, run)
    BY <1>0, <2>1, Names DEF Wrote, Made, Plan
  <2> QED
    BY <1>0, <2>1, <2>3, <2>4 DEF FileOk
<1>5. CASE Restore
  <2>1. FileOk(me.backup.file, run)
    BY DEF AInv, Mind, MomentOk
  <2> QED
    BY <1>0, <1>5, <2>1 DEF Restore, FileOk
<1> QED
  BY <1>1, <1>2, <1>3, <1>4, <1>5, Frames

\* A value that an undo puts back in the published field.
LEMMA FieldBack ==
    ASSUME AInv, Unpublish \/ UnpublishOld, db' # db
    PROVE  DbOk(db', run)
<1>0. db' \in me.published /\ run \in Int /\ me.before \in Moments
  <2>1. me.published # {} /\ db' = CHOOSE v \in me.published : TRUE
    BY DEF Unpublish, UnpublishOld
  <2> QED
    BY <2>1, Picks DEF AInv, Typed, Minds
<1>1. MomentOk(me.before, run)
  BY DEF AInv, Mind
<1>2. CASE Unpublish
  <2>1. me.published \subseteq {me.before.db, PanelEdit}
    BY <1>2, ApplyAt DEF AInv, ApplyInv, ApplyPanel, Unpublish, was
  <2> QED
    BY <1>0, <1>1, <2>1 DEF MomentOk, DbOk
<1>3. CASE UnpublishOld
  <2> DEFINE s == me.before.state
  <2>1. s.run \in Runs /\ me.published = s.published
    BY <1>3, RollbackAt DEF AInv, RollbackInv, UnpublishOld, RollingBack, was
  <2>2. s \in States /\ StateOk(s, run) /\ s.run # 0
    BY <1>0, <1>1, <2>1, ConstantsAssumption DEF Moments, MomentOk, Runs
  <2>3. s.run \in Nat /\ s.run <= run /\ Receipts(s.published, s.run)
    BY <2>2, LastRun DEF StateOk
  <2>4. PICK d \in Int : DbOk(d, s.run - 1) /\ s.published = {d}
    BY <1>0, <2>1, <2>3 DEF Receipts
  <2> HIDE DEF s
  <2>5. DbOk(d, run)
    BY <1>0, <2>3, <2>4, DbUp
  <2> QED
    BY <1>0, <2>1, <2>4, <2>5
<1> QED
  BY <1>2, <1>3

LEMMA DbStep == ASSUME AInv, [Next]_vars PROVE DbOk(db', run')
<1>0. db \in Int /\ DbOk(db, run) /\ run \in Int /\ run' \in Int /\ run <= run'
  <2>1. db \in Int /\ DbOk(db, run) /\ run \in Int
    BY DEF AInv, World, Typed
  <2> QED
    BY <2>1, Frames DEF Begin, BeginRenewal
<1>1. CASE UNCHANGED db
  BY <1>0, <1>1, DbUp
<1>2. CASE Publish
  <2>1. run \in Runs /\ Plan.kind = "apply" /\ run' = run
    BY <1>2, ApplyAt, PlanTyped DEF Publish, Early
  <2> QED
    BY <1>0, <1>2, <2>1 DEF Publish, DbOk, Wrote, Made, Plan
<1>3. CASE (Unpublish \/ UnpublishOld) /\ db' # db
  BY <1>0, <1>3, FieldBack DEF Unpublish, UnpublishOld
<1>4. CASE EditPanel
  BY <1>4 DEF EditPanel, DbOk
<1> QED
  BY <1>1, <1>2, <1>3, <1>4, Frames

\* What a component may run after a step: what it ran, nothing, or its files.
LEMMA RunsKeep ==
    ASSUME AInv, NEW s \in Services, NEW f \in [Components -> Int], FileOk(f, run),
           DbOk(s["panel"].runs, run),
           \A c \in Components : \/ s[c].runs \in {svc[c].runs, Down}
                                 \/ s[c].runs = f[c] /\ (c = "nginx" \/ f[c] # Absent)
    PROVE  RunsOk(s, run)
<1>1. RunsOk(svc, run)
  BY DEF AInv, World
<1> QED
  BY <1>1 DEF RunsOk, FileOk, Wrote

\* Whatever a run, an undo or a rollback starts has its files, but for Nginx.
LEMMA StartsWithFiles ==
    ASSUME AInv, NEW c \in me.todo, HasUnit(c), Activate \/ Revive \/ Reenable \/ ReviveOld
    PROVE  c \in Components /\ (c = "nginx" \/ file[c] # Absent)
<1>0. c \in Components
  BY DEF AInv, Typed, Minds
<1>1. CASE c \notin Packaged
  BY <1>0, <1>1 DEF HasUnit
<1>2. CASE c = "haproxy"
  <2>1. CASE Activate
    <3>1. op = "apply" /\ pc = "activate"
      BY <2>1, ApplyAt DEF Activate
    <3>2. file[c] = run /\ run > 0 /\ run \in Nat
      BY <3>1, PlanTyped DEF AInv, ApplyInv, ApplyForwards, Late
    <3> QED
      BY <1>0, <3>2 DEF Absent
  <2>2. CASE Revive
    <3>1. op = "apply" /\ pc = "revive"
      BY <2>2, ApplyAt DEF Revive, Putting
    <3>2. c \in Revivable
      BY <3>1 DEF AInv, ApplyInv, ApplyServices
    <3> QED
      BY <1>0, <1>2, <3>2 DEF Revivable, Owned
  <2>3. CASE Reenable
    <3>1. op = "apply" /\ pc = "reenable"
      BY <2>3, ApplyAt DEF Reenable, Putting
    <3>2. c \in ToStop
      BY <3>1 DEF AInv, ApplyInv, ApplyServices
    <3> QED
      BY <1>0, <1>2, <3>2 DEF ToStop
  <2>4. CASE ReviveOld
    <3>1. op = "rollback" /\ pc = "reviveOld"
      BY <2>4, RollbackAt DEF ReviveOld, RollingBack
    <3>2. c \in StartsOld
      BY <3>1 DEF AInv, RollbackInv
    <3> QED
      BY <1>0, <1>2, <3>2 DEF StartsOld
  <2> QED
    BY <2>1, <2>2, <2>3, <2>4
<1> QED
  BY <1>1, <1>2 DEF Packaged

LEMMA RunsStep == ASSUME AInv, [Next]_vars PROVE RunsOk(svc', run')
<1>0. /\ Typed /\ Typed' /\ svc \in Services /\ svc' \in Services /\ RunsOk(svc, run)
      /\ file \in [Components -> Int] /\ FileOk(file, run)
      /\ run \in Int /\ run' \in Int /\ run <= run' /\ DbOk(db, run)
  <2>1. Typed /\ Typed' /\ RunsOk(svc, run) /\ FileOk(file, run) /\ DbOk(db, run)
    BY TypedStep DEF AInv, World
  <2>2. run \in Int /\ svc \in Services /\ svc' \in Services /\ file \in [Components -> Int]
    BY <2>1 DEF Typed
  <2> QED
    BY <2>1, <2>2, Frames DEF Begin, BeginRenewal
<1>a. DbOk(svc["panel"].runs, run)
  BY <1>0 DEF RunsOk
<1>1. CASE UNCHANGED svc
  BY <1>0, <1>1, RunsUp
<1>2. CASE RestartPanel
  <2>1. /\ svc'["panel"].runs = db /\ run' = run
        /\ \A c \in Components : svc'[c].runs = svc[c].runs
    BY <1>0, <1>2, Loads, Names DEF RestartPanel, Version
  <2> QED
    BY <1>0, <2>1, RunsKeep
<1>3. CASE Install
  <2> DEFINE new == (Plan.wants \cap Packaged) \ packages
  <2>1. /\ file' = [c \in Components |-> IF c = "haproxy" /\ c \in new THEN 0 ELSE file[c]]
        /\ run' = run /\ FileOk(file', run)
    BY <1>3, FilesStep DEF Install
  <2>2. new \subseteq {"nginx", "haproxy"} /\ new \subseteq Components
    BY DEF Packaged
  <2>3. \/ svc' = Stopped(new)
        \/ svc' = [c \in All |-> IF c \in new THEN [on |-> TRUE, runs |-> file'[c], cert |-> cert]
                                 ELSE svc[c]]
    BY <1>3 DEF Install
  <2> HIDE DEF new
  <2>4. \A c \in Components : \/ svc'[c].runs \in {svc[c].runs, Down}
                              \/ svc'[c].runs = file'[c] /\ (c = "nginx" \/ file'[c] # Absent)
    BY <1>0, <2>1, <2>2, <2>3, Stops, Names DEF Absent
  <2>5. svc'["panel"].runs = svc["panel"].runs
    BY <1>0, <2>2, <2>3, Stops, Names
  <2>6. file' \in [Components -> Int]
    BY <1>0 DEF Typed
  <2> QED
    BY <1>0, <1>a, <2>1, <2>4, <2>5, <2>6, RunsKeep
<1>4. CASE StopRemoved
  <2>1. PICK S \in SUBSET ToStop : svc' = Stopped(S)
    BY <1>4 DEF StopRemoved
  <2>2. "panel" \notin S /\ run' = run
    BY <1>4, <2>1 DEF ToStop, StopRemoved
  <2>3. \A c \in All : svc'[c].runs \in {svc[c].runs, Down} /\ (c = "panel" => svc'[c] = svc[c])
    BY <1>0, <2>1, <2>2, Stops
  <2> QED
    BY <1>0, <1>a, <2>2, <2>3, Names, RunsKeep
<1>5. CASE RunHook \/ AcmeHook
  <2>1. svc' \in {svc, Reloaded} /\ run' = run
    BY <1>5 DEF RunHook, AcmeHook
  <2>2. /\ svc'["panel"].runs \in {svc["panel"].runs, db}
        /\ \A c \in Components : \/ svc'[c].runs = svc[c].runs
                                 \/ svc'[c].runs = file[c] /\ (c = "nginx" \/ file[c] # Absent)
    BY <1>0, <2>1, Reloads
  <2> QED
    BY <1>0, <1>a, <2>1, <2>2, RunsKeep
<1>6. CASE Unpublish \/ UnpublishOld \/ EditPanel
  <2>1. CASE svc' = svc
    BY <1>0, <1>6, <2>1 DEF Unpublish, UnpublishOld, EditPanel
  <2>2. CASE svc' # svc
    <3>1. \/ svc' = [svc EXCEPT !["panel"].runs = db']
          \/ svc' = [svc EXCEPT !["panel"].runs = db', !["panel"].cert = cert]
      BY <1>6, <2>2 DEF Unpublish, UnpublishOld, EditPanel
    <3>2. svc'["panel"].runs = db' /\ \A c \in Components : svc'[c] = svc[c]
      BY <1>0, <3>1, PanelRuns
    <3>3. DbOk(db', run) /\ run' = run
      BY <1>6, DbStep DEF Unpublish, UnpublishOld, EditPanel
    <3> QED
      BY <1>0, <3>2, <3>3, RunsKeep
  <2> QED
    BY <2>1, <2>2
<1>7. CASE Quieten \/ QuietenOld
  <2>1. PICK S : (svc' = svc \/ Disable(S)) /\ "panel" \notin S /\ run' = run
    <3>1. CASE Quieten
      <4>1. me.fresh \subseteq Components
        BY <1>0, Names DEF Typed, Minds
      <4>2. "panel" \notin Orphans \cup ({"firewall"} \cap Plan.wants)
        BY <4>1, Names DEF Orphans, Owned
      <4> QED
        BY <3>1, <4>2 DEF Quieten
    <3>2. CASE QuietenOld
      <4>1. me.fresh \subseteq Components
        BY <1>0, Names DEF Typed, Minds
      <4> QED
        BY <3>2, <4>1, Names DEF QuietenOld
    <3> QED
      BY <1>7, <3>1, <3>2
  <2>2. \A c \in All : svc'[c].runs \in {svc[c].runs, Down} /\ (c = "panel" => svc'[c] = svc[c])
    BY <1>0, <2>1, Disabled
  <2> QED
    BY <1>0, <1>a, <2>1, <2>2, Names, RunsKeep
<1>8. CASE Activate \/ Revive \/ Reenable \/ ReviveOld
  <2>1. PICK c \in me.todo, e \in BOOLEAN : Start(c, e) \/ StartFails(c)
    BY <1>8 DEF Activate, Revive, Reenable, ReviveOld
  <2>2. c \in Components /\ c # "panel" /\ run' = run
    BY <1>0, <1>8, Names DEF Typed, Minds, Activate, Revive, Reenable, ReviveOld
  <2>3. CASE Start(c, e)
    <3>1. /\ HasUnit(c) /\ svc'[c].runs = file[c]
          /\ \A d \in All \ {c} : svc'[d].runs = svc[d].runs
      BY <1>0, <2>2, <2>3, Started
    <3>2. c = "nginx" \/ file[c] # Absent
      BY <1>8, <3>1, StartsWithFiles
    <3> QED
      BY <1>0, <1>a, <2>2, <3>1, <3>2, Names, RunsKeep
  <2>4. CASE StartFails(c)
    <3>1. svc'[c].runs \in {svc[c].runs, Down} /\ \A d \in All \ {c} : svc'[d] = svc[d]
      BY <1>0, <2>2, <2>4, StartFailed
    <3> QED
      BY <1>0, <1>a, <2>2, <3>1, Names, RunsKeep
  <2> QED
    BY <2>1, <2>3, <2>4
<1> QED
  BY <1>1, <1>2, <1>3, <1>4, <1>5, <1>6, <1>7, <1>8, Frames

LEMMA StateStep == ASSUME AInv, [Next]_vars PROVE StateOk(state', run') /\ FreshOk(state)'
<1>0. /\ state \in States /\ StateOk(state, run) /\ FreshOk(state) /\ me \in Minds
      /\ run \in Int /\ run' \in Int /\ run <= run' /\ (UNCHANGED run \/ Begin \/ BeginRenewal)
  <2>1. /\ state \in States /\ StateOk(state, run) /\ FreshOk(state) /\ run \in Int
        /\ me \in Minds
    BY DEF AInv, World, Typed
  <2> QED
    BY <2>1, Frames DEF Begin, BeginRenewal
<1>1. CASE UNCHANGED state
  <2>1. StateOk(state', run')
    BY <1>0, <1>1, StateUp
  <2>2. CASE UNCHANGED backups
    BY <1>0, <1>1, <2>1, <2>2 DEF FreshOk
  <2>3. CASE Begin
    <3>1. state.run # 0 => state.run \in Runs /\ state.run <= run
      BY <1>0 DEF StateOk
    <3>2. state.run # 0 => backups'[state.run] = backups[state.run]
      BY <1>0, <2>3, <3>1 DEF AInv, Typed, Begin
    <3> QED
      BY <1>0, <1>1, <2>1, <3>2 DEF FreshOk
  <2> QED
    BY <2>1, <2>2, <2>3, Frames
<1>2. CASE Save
  <2>0. UNCHANGED <<backups, run>>
    BY <1>2 DEF Save
  <2>1. CASE op = "renewal"
    <3>1. /\ state'.run = state.run /\ state'.wants = state.wants
          /\ state'.published = state.published /\ state'.fresh = state.fresh
      BY <1>0, <1>2, <2>1 DEF Save, States
    <3> QED
      BY <1>0, <2>0, <3>1 DEF StateOk, FreshOk
  <2>2. CASE op # "renewal"
    <3>1. op = "apply" /\ pc = "save"
      BY <1>2, <2>2 DEF AInv, Stages, Save, Early, Late, Registering, Undoing, Putting, RollingBack
    <3>2. /\ state'.run = run /\ state'.wants = Plan.wants
          /\ state'.published = me.published /\ state'.fresh = me.fresh
      BY <1>2, <2>2 DEF Save
    <3>3. /\ run \in Runs /\ Plan.kind = "apply" /\ run > 0
          /\ MomentOk(was, run - 1) /\ backups[run].was = was
          /\ me.fresh \subseteq Plan.wants /\ \A c \in me.fresh : was.svc[c].runs = Down
      BY <3>1, PlanTyped DEF AInv, ApplyInv, ApplyMind
    <3>4. me.published \in IF ~Plan.publishes THEN {{}} ELSE {{was.db}, {PanelEdit}}
      BY <3>1 DEF AInv, ApplyInv, ApplyPanel
    <3>5. was.db \in Int /\ DbOk(was.db, run - 1) /\ PanelEdit \in Int /\ DbOk(PanelEdit, run - 1)
      BY <1>0, <3>3 DEF MomentOk, was, Minds, Moments, DbOk, PanelEdit
    <3>6. Receipts(me.published, run)
      BY <3>4, <3>5 DEF Receipts, Plan
    <3>7. StateOk(state', run)
      BY <1>0, <3>2, <3>3, <3>6 DEF StateOk, Plan
    <3>8. FreshOk(state)'
      BY <2>0, <3>2, <3>3 DEF FreshOk
    <3> QED
      BY <2>0, <3>7, <3>8
  <2> QED
    BY <2>1, <2>2
<1>3. CASE Restore
  <2>1. state' \in {state, me.backup.state} /\ UNCHANGED <<backups, run>>
    BY <1>3 DEF Restore
  <2>2. StateOk(me.backup.state, run) /\ FreshOk(me.backup.state)
    BY DEF AInv, Mind, MomentOk
  <2> QED
    BY <1>0, <2>1, <2>2 DEF FreshOk
<1>4. CASE Rollback
  <2>0. state.run # 0 /\ UNCHANGED <<backups, run>> /\ state' = backups[state.run].was.state
    BY <1>4 DEF Rollback
  <2>1. /\ MomentOk(backups[state.run].was, state.run - 1) /\ backups[state.run].was \in Moments
        /\ state.run \in Nat /\ state.run <= run /\ FreshOk(backups[state.run].was.state)
    BY <1>0, <2>0, LastRun
  <2>2. StateOk(state', run)
    BY <1>0, <2>0, <2>1, StateUp DEF MomentOk, Moments
  <2> QED
    BY <2>0, <2>1, <2>2 DEF FreshOk
<1> QED
  BY <1>1, <1>2, <1>3, <1>4, Frames

\* Without its package a service does not run.
LEMMA PackagesStep == ASSUME AInv, [Next]_vars PROVE \A c \in Packaged' \ packages' : svc'[c].runs = Down
<1> SUFFICES ASSUME NEW c \in Packaged \ packages' PROVE svc'[c].runs = Down
  BY DEF Packaged
<1>0. /\ Typed /\ packages \subseteq packages' /\ c \in Components /\ c \in All /\ c # "panel"
      /\ svc[c].runs = Down /\ ~HasUnit(c)
  <2>1. Typed /\ packages \subseteq packages'
    BY Frames DEF AInv, Install
  <2>2. c \in Packaged \ packages
    BY <2>1
  <2> QED
    BY <2>1, <2>2, Names DEF AInv, World, HasUnit
<1>1. CASE UNCHANGED svc
  BY <1>0, <1>1
<1>2. CASE RestartPanel
  BY <1>0, <1>2, Loads DEF RestartPanel
<1>3. CASE Install
  <2>1. c \notin Plan.wants
    BY <1>3 DEF Install
  <2> QED
    BY <1>0, <1>3, <2>1, Stops DEF Install
<1>4. CASE StopRemoved
  BY <1>0, <1>4, Stops DEF StopRemoved
<1>5. CASE RunHook \/ AcmeHook
  <2>1. svc' \in {svc, Reloaded}
    BY <1>5 DEF RunHook, AcmeHook
  <2> QED
    BY <1>0, <2>1, Reloads
<1>6. CASE Unpublish \/ UnpublishOld \/ EditPanel
  BY <1>0, <1>6, PanelRuns DEF Unpublish, UnpublishOld, EditPanel
<1>7. CASE Quieten \/ QuietenOld
  <2>1. PICK S : svc' = svc \/ Disable(S)
    BY <1>7 DEF Quieten, QuietenOld
  <2> QED
    BY <1>0, <2>1, Disabled
<1>8. CASE Activate \/ Revive \/ Reenable \/ ReviveOld
  <2>1. PICK d \in me.todo, e \in BOOLEAN : Start(d, e) \/ StartFails(d)
    BY <1>8 DEF Activate, Revive, Reenable, ReviveOld
  <2>2. d \in Components
    BY <1>0 DEF Typed, Minds
  <2> QED
    BY <1>0, <2>1, <2>2, Started, StartFailed
<1> QED
  BY <1>1, <1>2, <1>3, <1>4, <1>5, <1>6, <1>7, <1>8, Frames

LEMMA WorldStep == AInv /\ [Next]_vars => World'
<1> SUFFICES ASSUME AInv, [Next]_vars PROVE World'
  OBVIOUS
<1> QED
  BY FilesStep, DbStep, RunsStep, StateStep, PackagesStep DEF World

\* What a process remembers changes in few steps.
LEMMA MindFrames ==
    ASSUME AInv, [Next]_vars, ~Begin, ~BeginRenewal, ~Rollback
    PROVE  /\ me'.before = me.before /\ me'.removal = me.removal
           /\ me'.backup = me.backup \/ (Stage /\ me'.backup = Saved)
           /\ me'.journal = me.journal \/ Commit \/ (Save /\ me'.journal = me.journal \cup {"state"})
           /\ me'.published = me.published \/ Publish
           /\ me'.fresh = me.fresh \/ (Install /\ me'.fresh = (Plan.wants \cap Packaged) \ packages)
           /\ me'.touched = me.touched \/ StopRemoved
           /\ me'.seen = me.seen \/ (Register /\ me'.seen = [record |-> record, cert |-> cert])
           /\ me'.wroteHook = me.wroteHook \/ WriteHook
           /\ me'.registered = me.registered \/ WriteRecord
           /\ \/ me'.todo = me.todo \/ Commit \/ Activate \/ Again \/ Revive \/ Revived \/ Reenable
              \/ AgainOld \/ ReviveOld
           /\ me'.errors = me.errors \/ (me'.errors /\ (Unpublish \/ Quieten \/ QuietenOld \/ Revive))
<1>0. DOMAIN me = DOMAIN Blank /\ me \in Minds
  BY DEF AInv, Typed, Minds, Blank
<1>1. CASE UNCHANGED vars
  BY <1>1 DEF vars
<1>2. CASE Publish \/ RestartPanel \/ Install \/ Stage \/ StopRemoved \/ Commit
  <2>1. CASE Publish
    BY <1>0, <2>1 DEF Publish, Minds
  <2>2. CASE Install
    BY <1>0, <2>2 DEF Install, Minds
  <2>3. CASE Stage \/ RestartPanel
    BY <1>0, <2>3 DEF Stage, RestartPanel, Minds
  <2>4. CASE StopRemoved
    BY <1>0, <2>4 DEF StopRemoved, Minds
  <2>5. CASE Commit
    <3>1. PICK S \in SUBSET Changes : me' = [me EXCEPT !.journal = S, !.todo = Plan.wants]
      BY <2>5 DEF Commit, Write
    <3> QED
      BY <1>0, <2>5, <3>1 DEF Minds
  <2> QED
    BY <1>2, <2>1, <2>2, <2>3, <2>4, <2>5
<1>3. CASE Activate \/ Activated \/ Health \/ Save \/ Report \/ Raise
  <2>1. CASE Activate
    BY <1>0, <2>1 DEF Activate, Minds
  <2>2. CASE Save
    BY <1>0, <2>2 DEF Save, Minds
  <2>3. CASE Activated \/ Health \/ Report \/ Raise
    BY <2>3 DEF Activated, Health, Report, Raise
  <2> QED
    BY <1>3, <2>1, <2>2, <2>3
<1>4. CASE Register \/ WriteHook \/ MatchRecord \/ WriteRecord \/ RunHook \/ Confirm
  <2>1. CASE Register
    BY <1>0, <2>1 DEF Register, Minds
  <2>2. CASE WriteHook
    BY <1>0, <2>2 DEF WriteHook, Minds
  <2>3. CASE WriteRecord
    BY <1>0, <2>3 DEF WriteRecord, Minds
  <2>4. CASE MatchRecord \/ RunHook \/ Confirm
    BY <2>4 DEF MatchRecord, RunHook, Confirm
  <2> QED
    BY <1>4, <2>1, <2>2, <2>3, <2>4
<1>5. CASE Unregister \/ PutBack \/ Restore \/ Unpublish \/ Again \/ Revived \/ Reenable \/ Judge
  <2>1. CASE Unpublish
    BY <1>0, <2>1 DEF Unpublish, Minds
  <2>2. CASE Again \/ Revived \/ Reenable
    BY <1>0, <2>2 DEF Again, Revived, Reenable, Minds
  <2>3. CASE Unregister \/ PutBack \/ Restore \/ Judge
    BY <2>3 DEF Unregister, PutBack, PutHookBack, Restore, Judge
  <2> QED
    BY <1>5, <2>1, <2>2, <2>3
<1>9. CASE Revive
  <2>1. PICK c \in me.todo : me' \in {[me EXCEPT !.todo = @ \ {c}], [me EXCEPT !.todo = {}, !.errors = TRUE]}
    BY <1>9 DEF Revive
  <2>2. \A f \in DOMAIN me \ {"todo", "errors"} : me'[f] = me[f]
    BY <1>0, <2>1 DEF Minds
  <2>3. me'.errors = me.errors \/ me'.errors
    <3>1. CASE me' = [me EXCEPT !.todo = @ \ {c}]
      BY <1>0, <3>1 DEF Minds
    <3>2. CASE me' = [me EXCEPT !.todo = {}, !.errors = TRUE]
      BY <1>0, <3>2 DEF Minds
    <3> QED
      BY <2>1, <3>1, <3>2
  <2> QED
    BY <1>0, <1>9, <2>2, <2>3 DEF Minds
<1>6. CASE UnpublishOld \/ AgainOld \/ ReviveOld \/ JudgeOld
  BY <1>0, <1>6 DEF UnpublishOld, AgainOld, ReviveOld, JudgeOld, Minds
<1>7. CASE Quieten \/ QuietenOld
  <2>1. PICK S : me' = me \/ Disable(S)
    BY <1>7 DEF Quieten, QuietenOld
  <2> QED
    BY <1>0, <1>7, <2>1, Disabled DEF Minds, AInv
<1>8. CASE Renew \/ AcmeHook \/ EditPanel
  BY <1>8 DEF Renew, AcmeHook, EditPanel
<1> QED
  BY <1>1, <1>2, <1>3, <1>4, <1>5, <1>6, <1>7, <1>8, <1>9 DEF Next, Forwards, Backwards

LEMMA FreshStays ==
    ASSUME AInv, [Next]_vars, NEW s \in States, StateOk(s, run), FreshOk(s)
    PROVE  s.run # 0 => \A c \in s.fresh : backups'[s.run].was.svc[c].runs = Down
<1>1. CASE UNCHANGED backups
  BY <1>1 DEF FreshOk
<1>2. CASE Begin
  <2>1. s.run # 0 => s.run \in Runs /\ s.run <= run /\ run \in Int
    BY DEF StateOk, AInv, Typed
  <2>2. s.run # 0 => backups'[s.run] = backups[s.run]
    BY <1>2, <2>1 DEF AInv, Typed, Begin
  <2> QED
    BY <2>2 DEF FreshOk
<1> QED
  BY <1>1, <1>2, Frames

LEMMA MindStep == AInv /\ [Next]_vars => Mind'
<1> SUFFICES ASSUME AInv, [Next]_vars PROVE Mind'
  OBVIOUS
<1>0. /\ me.before \in Moments /\ me.backup \in Moments
      /\ MomentOk(me.before, run) /\ MomentOk(me.backup, run)
      /\ FreshOk(me.before.state) /\ FreshOk(me.backup.state)
      /\ run \in Int /\ run' \in Int /\ run <= run'
  <2>1. run \in Int /\ me \in Minds /\ Mind
    BY DEF AInv, Typed
  <2> QED
    BY <2>1, Frames DEF Begin, BeginRenewal, Mind, Minds
<1>1. Saved \in Moments /\ MomentOk(Saved, run) /\ Saved.state = state /\ FreshOk(state)
  BY SavedOk DEF Saved, AInv, World
<1>2. \A w \in {me.before, me.backup, Saved} :
        /\ MomentOk(w, run')
        /\ w.state.run # 0 => \A c \in w.state.fresh : backups'[w.state.run].was.svc[c].runs = Down
  <2> SUFFICES ASSUME NEW w \in {me.before, me.backup, Saved}
               PROVE  /\ MomentOk(w, run')
                      /\ w.state.run # 0 => \A c \in w.state.fresh :
                                              backups'[w.state.run].was.svc[c].runs = Down
    OBVIOUS
  <2>1. w \in Moments /\ MomentOk(w, run) /\ FreshOk(w.state)
    BY <1>0, <1>1
  <2>2. w.state \in States /\ StateOk(w.state, run)
    BY <2>1 DEF Moments, MomentOk
  <2> QED
    BY <1>0, <2>1, <2>2, MomentUp, FreshStays
<1>3. me'.before \in {me.before, Saved} /\ me'.backup \in {me.backup, Saved}
  <2>1. CASE Begin \/ BeginRenewal \/ Rollback
    <3>0. Blank \in Minds /\ Blank.before = Saved /\ Blank.backup = Saved
      BY BlankTyped DEF AInv, Blank
    <3>1. me'.before = Saved /\ me'.backup = Saved
      BY <2>1, <3>0 DEF Begin, BeginRenewal, Rollback, Minds
    <3> QED
      BY <3>1
  <2>2. CASE ~Begin /\ ~BeginRenewal /\ ~Rollback
    BY <2>2, MindFrames
  <2> QED
    BY <2>1, <2>2
<1> QED
  BY <1>2, <1>3 DEF Mind, FreshOk

LEMMA BackupsStep == AInv /\ [Next]_vars => Backups'
<1> SUFFICES ASSUME AInv, [Next]_vars, NEW k \in Runs, k <= run', Plans[k].kind = "apply"
             PROVE  /\ MomentOk(backups'[k].was, k - 1)
                    /\ backups'[k].was.state.run # 0 =>
                         \A c \in backups'[k].was.state.fresh :
                            backups'[backups'[k].was.state.run].was.svc[c].runs = Down
                    /\ Plans[k].wants \subseteq backups'[k].entries
                    /\ backups'[k].entries \subseteq Plans[k].wants \cup Removable \cup {"hook"}
  BY DEF Backups, FreshOk
<1>0. run \in Int /\ k \in Int /\ backups \in [Runs -> [was : Moments, entries : SUBSET (Components \cup {"hook"})]]
  BY ConstantsAssumption DEF AInv, Typed, Runs
<1>1. CASE k <= run
  <2>1. /\ MomentOk(backups[k].was, k - 1) /\ FreshOk(backups[k].was.state)
        /\ Plans[k].wants \subseteq backups[k].entries
        /\ backups[k].entries \subseteq Plans[k].wants \cup Removable \cup {"hook"}
    BY <1>1 DEF AInv, Backups
  <2>2. backups'[k] = backups[k]
    BY <1>0, <1>1, Frames DEF Begin
  <2>3. backups[k].was \in Moments
    BY <1>0
  <2>4. MomentOk(backups[k].was, run)
    BY <1>0, <1>1, <2>1, <2>3, MomentUp
  <2>5. backups[k].was.state \in States /\ StateOk(backups[k].was.state, run)
    BY <2>3, <2>4 DEF Moments, MomentOk
  <2> QED
    BY <2>1, <2>2, <2>5, FreshStays
<1>2. CASE ~(k <= run)
  <2>1. k = run + 1 /\ run' = run + 1 /\ (Begin \/ BeginRenewal)
    BY <1>0, <1>2, Frames DEF Begin, BeginRenewal
  <2>2. Begin
    BY <2>1 DEF BeginRenewal
  <2>3. backups'[k] = [was |-> Saved, entries |-> Plans[k].wants \cup Removed(k)
                                        \cup IF Plans[k].hook THEN {"hook"} ELSE {}]
    BY <1>0, <2>1, <2>2 DEF Begin
  <2>4. Saved \in Moments /\ MomentOk(Saved, k - 1) /\ Saved.state = state
    BY <1>0, <2>1, SavedOk DEF Saved
  <2>5. state.run # 0 => \A c \in state.fresh : backups'[state.run].was.svc[c].runs = Down
    BY FreshStays DEF AInv, World, Typed
  <2>6. Removed(k) \subseteq Removable
    BY DEF Removed, Removable
  <2> QED
    BY <2>3, <2>4, <2>5, <2>6
<1> QED
  BY <1>1, <1>2

LEMMA StagesStep == AInv /\ [Next]_vars => Stages'
<1> SUFFICES ASSUME AInv, [Next]_vars PROVE Stages'
  OBVIOUS
<1> USE DEF Goto, End, Stages, Early, Late, Registering, Undoing, Putting, RollingBack
<1>0. Stages
  BY DEF AInv
<1>1. CASE UNCHANGED vars
  BY <1>0, <1>1 DEF vars
<1>2. CASE Begin \/ BeginRenewal \/ Rollback
  BY <1>0, <1>2 DEF Begin, BeginRenewal, Rollback
<1>3. CASE Publish \/ RestartPanel \/ Install \/ Stage \/ StopRemoved \/ Commit
  BY <1>0, <1>3 DEF Publish, RestartPanel, Install, Stage, StopRemoved, Commit
<1>4. CASE Activate \/ Activated
  BY <1>0, <1>4 DEF Activate, Activated
<1>5. CASE Health \/ Save \/ Report \/ Raise
  BY <1>0, <1>5 DEF Health, Save, Report, Raise
<1>6. CASE Register \/ WriteHook \/ MatchRecord \/ WriteRecord \/ RunHook \/ Confirm
  BY <1>0, <1>6 DEF Register, WriteHook, MatchRecord, WriteRecord, RunHook, Confirm
<1>7. CASE Unregister \/ PutBack \/ Restore \/ Unpublish \/ Quieten
  BY <1>0, <1>7 DEF Unregister, PutBack, PutHookBack, Restore, Unpublish, Quieten
<1>8. CASE Again \/ Revive \/ Revived \/ Reenable \/ Judge
  BY <1>0, <1>8 DEF Again, Revive, Revived, Reenable, Judge
<1>9. CASE UnpublishOld \/ QuietenOld \/ AgainOld \/ ReviveOld \/ JudgeOld
  BY <1>0, <1>9 DEF UnpublishOld, QuietenOld, AgainOld, ReviveOld, JudgeOld
<1>10. CASE Renew \/ AcmeHook \/ EditPanel
  BY <1>0, <1>10 DEF Renew, AcmeHook, EditPanel
<1> QED
  BY <1>1, <1>2, <1>3, <1>4, <1>5, <1>6, <1>7, <1>8, <1>9, <1>10 DEF Next, Forwards, Backwards

-------------------------------------------------------------------------------
(* An apply at work, or ended. *)

\* A step of an apply that has begun.
LEMMA Applying ==
    ASSUME AInv, [Next]_vars, op' = "apply", ~Begin
    PROVE  /\ op = "apply" /\ run' = run /\ backups' = backups /\ Plan' = Plan /\ Plan.wants \subseteq Components
           /\ me'.before = me.before /\ me'.removal = me.removal
           /\ ApplyMind /\ ApplyFiles /\ ApplyPanel /\ ApplyServices /\ ApplyForwards
           /\ ~BeginRenewal /\ ~Rollback /\ ~UnpublishOld /\ ~QuietenOld /\ ~AgainOld /\ ~ReviveOld /\ ~JudgeOld
<1>1. ~BeginRenewal /\ ~Rollback
  BY DEF BeginRenewal, Rollback
<1>2. op = "apply"
  <2>1. CASE UNCHANGED vars
    BY <2>1 DEF vars
  <2>2. CASE Forwards
    BY <2>2 DEF Forwards, Publish, RestartPanel, Install, Stage, StopRemoved, Commit, Activate,
                Activated, Health, Save, Report, Raise, Register, WriteHook, MatchRecord, WriteRecord, RunHook, Confirm
  <2>3. CASE Backwards
    BY <2>3 DEF Backwards, Unregister, PutBack, PutHookBack, Restore, Unpublish, Quieten, Again, Revive, Revived, Reenable,
                Judge, UnpublishOld, QuietenOld, AgainOld, ReviveOld, JudgeOld
  <2>4. CASE Renew \/ AcmeHook \/ EditPanel
    BY <2>4 DEF Renew, AcmeHook, EditPanel
  <2> QED
    BY <1>1, <2>1, <2>2, <2>3, <2>4 DEF Next
<1>3. run' = run /\ backups' = backups
  BY <1>1, Frames
<1>4. pc \notin RollingBack
  BY <1>2, RollbackAt
<1>5. ~UnpublishOld /\ ~QuietenOld /\ ~AgainOld /\ ~ReviveOld /\ ~JudgeOld
  BY <1>4 DEF UnpublishOld, QuietenOld, AgainOld, ReviveOld, JudgeOld, RollingBack
<1>6. Plan' = Plan
  BY <1>3 DEF Plan
<1> QED
  BY <1>1, <1>2, <1>3, <1>5, <1>6, MindFrames, PlanTyped DEF AInv, ApplyInv

\* Where a run goes from where it is.
LEMMA EarlyMoves ==
    ASSUME AInv, [Next]_vars, op' = "apply", ~Begin
    PROVE  /\ pc' # "idle" => pc # "idle"
           /\ pc' = "publish" => pc = "publish"
           /\ pc = "publish" => pc' = "publish" \/ Publish
           /\ pc' = "panel" => pc = "panel" \/ Publish
           /\ pc' = "packages" => pc = "packages" \/ Publish \/ RestartPanel
           /\ pc' = "stage" => pc = "stage" \/ Install
           /\ pc' = "stop" => pc = "stop" \/ Stage
           /\ pc' = "commit" => pc = "commit" \/ StopRemoved
           /\ pc' = "activate" => pc = "activate" \/ Commit
           /\ pc' = "acme" => pc = "acme" \/ Activated
           /\ pc' = "hook" => pc = "hook" \/ Register
           /\ pc' = "record" => pc = "record" \/ WriteHook
           /\ pc' = "replace" => pc = "replace" \/ MatchRecord
           /\ pc' = "reload" => pc = "reload" \/ WriteRecord
           /\ pc' = "confirm" => pc = "confirm" \/ Register \/ RunHook
           /\ pc' = "health" => pc = "health" \/ Activated \/ Confirm
           /\ pc' = "save" => pc = "save" \/ Health
           /\ pc' = "report" => pc = "report" \/ Save
           /\ pc' = "unregister" => pc \in {"unregister", "activate"} \cup Early \cup Late
           /\ pc' = "putBack" => pc = "putBack" \/ Unregister
           /\ pc' = "restore" => pc = "restore" \/ Unregister \/ PutBack
           /\ pc' = "unpublish" => pc = "unpublish" \/ Restore
           /\ pc' = "quieten" => pc = "quieten" \/ Unpublish
           /\ pc' = "again" => pc = "again" \/ Quieten
           /\ pc' = "revive" => pc = "revive" \/ Again
           /\ pc' = "reenable" => pc = "reenable" \/ Revived
           /\ pc' = "judge" => pc = "judge" \/ Quieten
           /\ Done' => Done \/ Report
           /\ Whole' => Whole \/ Judge
<1> USE DEF Goto, End, Done, Whole, Early, Late, Registering
<1>0. CASE UNCHANGED vars
  BY <1>0 DEF vars
<1>1. CASE Publish \/ RestartPanel \/ Install \/ Stage
  BY <1>1 DEF Publish, RestartPanel, Install, Stage
<1>2. CASE StopRemoved \/ Commit
  BY <1>2 DEF StopRemoved, Commit
<1>3. CASE Activate \/ Activated
  BY <1>3 DEF Activate, Activated
<1>4. CASE Health \/ Save \/ Report \/ Raise
  BY <1>4 DEF Health, Save, Report, Raise
<1>5. CASE Register \/ WriteHook \/ MatchRecord \/ WriteRecord
  BY <1>5 DEF Register, WriteHook, MatchRecord, WriteRecord
<1>6. CASE RunHook \/ Confirm
  BY <1>6 DEF RunHook, Confirm
<1>7. CASE Unregister \/ PutBack \/ Restore \/ Unpublish \/ Quieten
  BY <1>7 DEF Unregister, PutBack, PutHookBack, Restore, Unpublish, Quieten
<1>8. CASE Again \/ Revive \/ Revived
  BY <1>8 DEF Again, Revive, Revived
<1>9. CASE Reenable \/ Judge
  BY <1>9 DEF Reenable, Judge
<1>10. CASE Renew \/ AcmeHook \/ EditPanel
  BY <1>10 DEF Renew, AcmeHook, EditPanel
<1> QED
  BY <1>0, <1>1, <1>2, <1>3, <1>4, <1>5, <1>6, <1>7, <1>8, <1>9, <1>10, Applying DEF Next, Forwards, Backwards

LEMMA BeginApply ==
    ASSUME AInv, Begin
    PROVE  (ApplyMind /\ ApplyFiles /\ ApplyPanel /\ ApplyServices /\ ApplyForwards)'
<1>0. /\ run' = run + 1 /\ run \in Nat /\ run' \in Runs /\ run' > run /\ op' = "apply" /\ pc' = "publish"
      /\ verdict' = "none" /\ UNCHANGED <<file, hook, packages, svc, db, record, state, clash>>
      /\ Plans[run'].kind = "apply" /\ Plans[run'].publishes \in BOOLEAN
  BY ConstantsAssumption DEF Begin, AInv, Typed, Goto, world, acme, Runs
<1>1. /\ Blank \in Minds /\ Saved \in Moments /\ MomentOk(Saved, run)
      /\ Blank.before = Saved /\ Blank.backup = Saved /\ Blank.journal = {} /\ Blank.published = {}
      /\ Blank.fresh = {} /\ Blank.seen.record = record
      /\ ~Blank.touched /\ ~Blank.wroteHook /\ ~Blank.registered
  BY BlankTyped, SavedOk DEF AInv, Blank
<1>2. /\ me'.before = Saved /\ me'.backup = Saved /\ me'.journal = {} /\ me'.published = {}
      /\ me'.fresh = {} /\ me'.seen.record = record
      /\ ~me'.touched /\ ~me'.wroteHook /\ ~me'.registered /\ me'.removal = Removed(run')
  BY <1>1 DEF Begin, Minds
<1>3. /\ Saved.file = file /\ Saved.hook = hook /\ Saved.state = state /\ Saved.svc = svc /\ Saved.db = db
      /\ Saved.record = record
  BY DEF Saved
<1>4. Plan' = Plans[run'] /\ was' = Saved
  BY <1>2 DEF Plan, was
<1>5. /\ FileOk(file, run) /\ RunsOk(svc, run) /\ DbOk(db, run)
      /\ \A c \in Components : file[c] \in Int /\ svc[c].runs \in Int /\ svc["panel"].runs \in Int
  BY Names DEF AInv, World, Typed, Services
<1>6. \A c \in Components : file[c] # run' /\ svc[c].runs # run'
  BY <1>0, <1>5 DEF FileOk, RunsOk, Wrote, Absent, Down
<1>7. ApplyMind'
  <2>1. backups'[run'].was = Saved
    BY <1>0 DEF Begin, AInv, Typed
  <2>2. Removed(run') \subseteq Removable \ Plan'.wants /\ \A c \in Removed(run') : file[c] # Absent
    BY <1>4 DEF Removed, Removable
  <2>3. \A c \in Packaged \ packages : svc[c].runs = Down
    BY DEF AInv, World
  <2>4. MomentOk(Saved, run' - 1) /\ FileOk(file, run' - 1)
    BY <1>0, <1>1, <1>5
  <2> QED
    BY <1>0, <1>2, <1>3, <1>4, <2>1, <2>2, <2>3, <2>4 DEF ApplyMind, Packaged
<1>8. ApplyFiles'
  BY <1>0, <1>2, <1>3, <1>4, <1>6 DEF ApplyFiles, Early, Late, Registering, Undoing, Putting, Whole
<1>9. ApplyPanel'
  BY <1>0, <1>2, <1>3, <1>4 DEF ApplyPanel, Putting, Whole, Ran
<1>10. ApplyServices'
  <2>1. \A c \in Components : Goes(c)'
    BY <1>0, <1>3, <1>4, Names DEF Goes, Ran
  <2>2. ToStop' \subseteq Components
    BY <1>2 DEF ToStop, Removed, AInv, Typed, States
  <2> QED
    BY <1>0, <1>2, <1>6, <2>1, <2>2 DEF ApplyServices, Backed, Whole
<1>11. ApplyForwards'
  BY <1>0, <1>2 DEF ApplyForwards, Early, Late, Registering, Done
<1> QED
  BY <1>7, <1>8, <1>9, <1>10, <1>11

LEMMA ApplyMindStep ==
    ASSUME AInv, [Next]_vars, op' = "apply", ~Begin
    PROVE  ApplyMind'
<1>0. /\ Typed /\ ApplyMind /\ run' = run /\ Plan' = Plan /\ backups' = backups /\ was' = was
      /\ me'.before = me.before /\ me'.removal = me.removal /\ run \in Nat /\ Plan.wants \subseteq Components
      /\ pc' \in {"publish", "panel", "packages"} => pc \in {"publish", "panel", "packages"}
  BY Applying, EarlyMoves, PlanTyped DEF AInv, was, Publish, RestartPanel
<1>1. me.seen.record.hook = was.record.hook /\ me'.seen.record.hook = was.record.hook
  <2>1. CASE Register
    BY <1>0, <2>1, Applying, MindFrames DEF Register, ApplyMind, ApplyFiles
  <2>2. CASE ~Register
    BY <1>0, <2>2, Applying, MindFrames DEF ApplyMind
  <2> QED
    BY <2>1, <2>2
<1>2. me'.journal \subseteq Plan.wants \cup me.removal \cup {"hook", "state"}
  <2>1. CASE Commit
    <3>1. PICK S \in SUBSET Changes : Write(S)
      BY <2>1 DEF Commit
    <3>2. me'.journal = S
      BY <1>0, <3>1 DEF Write, Typed, Minds
    <3> QED
      BY <3>2 DEF Changes
  <2>2. CASE ~Commit
    BY <1>0, <2>2, Applying, MindFrames DEF ApplyMind
  <2> QED
    BY <2>1, <2>2
<1>3. /\ me'.fresh \subseteq Plan.wants /\ (\A c \in me'.fresh : was.svc[c].runs = Down)
      /\ pc' \in {"publish", "panel", "packages"} =>
           me'.fresh = {} /\ \A c \in Packaged \ packages' : was.svc[c].runs = Down
  <2>1. CASE Install
    <3>1. pc = "packages" /\ pc' = "stage" /\ me'.fresh = (Plan.wants \cap Packaged) \ packages
      BY <1>0, <2>1 DEF Install, Goto, Typed, Minds
    <3> QED
      BY <1>0, <3>1 DEF ApplyMind
  <2>2. CASE ~Install
    <3>1. me'.fresh = me.fresh /\ packages' = packages
      BY <2>2, Applying, MindFrames, Frames
    <3> QED
      BY <1>0, <3>1 DEF ApplyMind
  <2> QED
    BY <2>1, <2>2
<1>4. /\ FileOk(me'.backup.file, run - 1)
      /\ \A c \in Components \ me'.fresh : me'.backup.file[c] = was.file[c]
      /\ me'.backup.hook = was.hook /\ me'.backup.state = was.state
  <2>1. CASE Stage
    <3>1. me'.backup = Saved /\ me'.fresh = me.fresh /\ pc = "stage"
      BY <1>0, <2>1 DEF Stage, Typed, Minds
    <3>2. /\ me.journal = {} /\ ~me.wroteHook /\ \A c \in Components : file[c] # run
          /\ \A c \in Components \ me.fresh : file[c] = was.file[c]
          /\ hook = was.hook /\ state = was.state
      BY <3>1, Applying DEF ApplyFiles, Early
    <3>3. FileOk(file, run) /\ file \in [Components -> Int]
      BY DEF AInv, World, Typed
    <3>4. FileOk(file, run - 1)
      BY <1>0, <3>2, <3>3 DEF FileOk, Wrote
    <3> QED
      BY <3>1, <3>2, <3>4 DEF Saved
  <2>2. CASE ~Stage /\ ~Install
    BY <1>0, <2>2, Applying, MindFrames DEF ApplyMind
  <2>3. CASE Install
    <3>1. me'.backup = me.backup /\ me.fresh = {}
      BY <1>0, <2>3 DEF Install, Typed, Minds, ApplyMind
    <3> QED
      BY <1>0, <3>1 DEF ApplyMind
  <2> QED
    BY <2>1, <2>2, <2>3
<1> QED
  BY <1>0, <1>1, <1>2, <1>3, <1>4 DEF ApplyMind, Packaged

LEMMA StageMoves ==
    ASSUME AInv, [Next]_vars, op' = "apply", ~Begin
    PROVE  /\ pc' \in Early => pc \in Early
           /\ pc' \in Early \cup {"activate", "acme", "hook"} => pc \in Early \cup {"activate", "acme", "hook"}
           /\ pc' \in Early \cup {"activate", "acme", "hook", "record", "replace"} =>
                pc \in Early \cup {"activate", "acme", "hook", "record", "replace"}
           /\ pc' \in Early \cup Late \cup Undoing => pc \in Early \cup Late \cup Undoing
           /\ pc' \in Putting => pc \in Putting \cup {"unpublish"}
           /\ (pc' \in Late \/ Done') => pc \in Late \/ Done \/ Commit
           /\ Whole' => Whole \/ (Judge /\ pc \in {"judge", "reenable"})
<1> USE EarlyMoves DEF Early, Late, Registering, Undoing, Putting
<1>1. pc' \in Early => pc \in Early
  BY DEF Publish, RestartPanel, Install, Stage, StopRemoved
<1>2. pc' = "activate" => pc \in {"activate", "commit"}
  BY DEF Commit
<1>3. pc' \in {"acme", "hook", "record", "replace"} =>
                                            \/ pc = "activate" /\ pc' = "acme"
                                            \/ pc = "acme" /\ pc' \in {"acme", "hook"}
                                            \/ pc = "hook" /\ pc' \in {"hook", "record"}
                                            \/ pc = "record" /\ pc' \in {"record", "replace"}
                                            \/ pc = "replace" /\ pc' = "replace"
  BY DEF Activated, Register, WriteHook, MatchRecord
<1>4. pc' \in {"reload", "confirm", "health", "save", "report"} => pc \in Late
  BY DEF Activated, Register, WriteRecord, RunHook, Confirm, Health, Save
<1>5. pc' \in Undoing => pc \in Early \cup Late \cup Undoing
  BY DEF Unregister, PutBack
<1>6. pc' \in Putting => pc \in Putting \cup {"unpublish"}
  BY DEF Unpublish, Quieten, Again, Revived
<1>7. Done' => Done \/ pc \in Late
  BY DEF Report
<1>8. pc' = "activate" => pc = "activate" \/ Commit
  OBVIOUS
<1>9. Whole' => Whole \/ (Judge /\ pc \in {"judge", "reenable"})
  BY DEF Judge
<1> QED
  BY <1>1, <1>2, <1>3, <1>4, <1>5, <1>6, <1>7, <1>8, <1>9

LEMMA FileFrames ==
    ASSUME AInv, [Next]_vars, op' = "apply", ~Begin
    PROVE  /\ UNCHANGED hook \/ Commit \/ WriteHook \/ Unregister \/ PutBack \/ Restore
           /\ UNCHANGED record \/ WriteRecord \/ PutBack \/ Renew
           /\ UNCHANGED clash \/ Unregister
<1>0. CASE UNCHANGED vars
  BY <1>0 DEF vars, world, acme
<1>1. CASE Publish \/ RestartPanel \/ Install \/ Stage \/ StopRemoved \/ Commit
  BY <1>1 DEF Publish, RestartPanel, Install, Stage, StopRemoved, Commit, world, acme
<1>2. CASE Activate \/ Activated \/ Health \/ Save \/ Report \/ Raise
  BY <1>2 DEF Activate, Activated, Health, Save, Report, Raise, world, acme
<1>3. CASE Register \/ WriteHook \/ MatchRecord \/ WriteRecord \/ RunHook \/ Confirm
  BY <1>3 DEF Register, WriteHook, MatchRecord, WriteRecord, RunHook, Confirm, world, acme
<1>4. CASE Unregister \/ PutBack \/ Restore \/ Unpublish \/ Quieten
  BY <1>4 DEF Unregister, PutBack, PutHookBack, Restore, Unpublish, Quieten, world, acme
<1>5. CASE Again \/ Revive \/ Revived \/ Reenable \/ Judge
  BY <1>5 DEF Again, Revive, Revived, Reenable, Judge, world, acme
<1>6. CASE Renew \/ AcmeHook \/ EditPanel
  BY <1>6 DEF Renew, AcmeHook, EditPanel, world, acme
<1> QED
  BY <1>0, <1>1, <1>2, <1>3, <1>4, <1>5, <1>6, Applying DEF Next, Forwards, Backwards

LEMMA ApplyFilesStep ==
    ASSUME AInv, [Next]_vars, op' = "apply", ~Begin
    PROVE  ApplyFiles'
<1>0. /\ Typed /\ ApplyMind /\ ApplyFiles /\ run' = run /\ Plan' = Plan /\ was' = was
      /\ me'.before = me.before /\ run \in Nat /\ run > 0 /\ me \in Minds /\ Plan.wants \subseteq Components
  BY Applying, PlanTyped DEF AInv, was, Typed
<1>1. CASE Install
  <2>1. /\ pc = "packages" /\ pc' \in Early /\ hook' = hook /\ state' = state /\ record' = record
        /\ \A f \in {"journal", "wroteHook", "registered"} : me'[f] = me[f]
    BY <1>0, <1>1 DEF Install, Goto, Early, acme, Minds
  <2>2. me.fresh = {} /\ me'.fresh = (Plan.wants \cap Packaged) \ packages
    BY <1>0, <1>1, <2>1 DEF ApplyMind, Install, Minds
  <2>3. \A c \in Components : \/ file'[c] = file[c]
                              \/ c \in me'.fresh /\ file'[c] = 0
    BY <1>1, <2>2 DEF Install
  <2>4. me'.journal = me.journal /\ me'.wroteHook = me.wroteHook /\ me'.registered = me.registered
    BY <2>1
  <2>5. /\ me.journal = {} /\ ~me.wroteHook /\ ~me.registered /\ record.hook = was.record.hook
        /\ \A c \in Components : file[c] # run /\ file[c] = was.file[c]
        /\ hook = was.hook /\ state = was.state
    BY <1>0, <2>1, <2>2 DEF ApplyFiles, Early
  <2>6. /\ \A c \in Components : file'[c] # run
        /\ \A c \in Components \ me'.fresh : file'[c] = was.file[c]
    BY <1>0, <2>3, <2>5
  <2>7. /\ me'.journal = {} /\ ~me'.wroteHook /\ ~me'.registered /\ record'.hook = was.record.hook
        /\ hook' = was.hook /\ state' = was.state
    BY <2>1, <2>4, <2>5
  <2> QED
    BY <1>0, <2>1, <2>6, <2>7 DEF ApplyFiles, Early, Late, Registering, Undoing, Putting, Whole
<1>2. CASE Commit
  <2>1. PICK S \in SUBSET Changes : Write(S)
    BY <1>2 DEF Commit
  <2>2. /\ pc = "commit" /\ pc' \in {"activate", "unregister"} /\ state' = state /\ record' = record
        /\ clash' = clash
    BY <1>2 DEF Commit, Goto, acme
  <2>3. /\ me'.journal = S /\ me'.fresh = me.fresh /\ me'.wroteHook = me.wroteHook
        /\ me'.registered = me.registered
    BY <1>0, <2>1 DEF Write, Minds
  <2>4. /\ ~me.wroteHook /\ ~me.registered /\ record.hook = was.record.hook
        /\ \A c \in Components : file[c] # run /\ (c \notin me.fresh => file[c] = was.file[c])
        /\ hook = was.hook /\ state = was.state
    BY <1>0, <2>2 DEF ApplyFiles, Early
  <2>5. /\ \A c \in Components \ S : file'[c] = file[c]
        /\ "hook" \notin S => hook' = hook
    BY <2>1 DEF Write
  <2> QED
    BY <1>0, <2>2, <2>3, <2>4, <2>5
    DEF ApplyFiles, Early, Late, Registering, Undoing, Putting, Whole
<1>3. CASE WriteHook
  <2>1. pc = "hook" /\ pc' \in {"record", "unregister"} /\ UNCHANGED <<file, state, record, clash>>
    BY <1>3 DEF WriteHook, Goto, acme
  <2>2. /\ me'.journal = me.journal /\ me'.fresh = me.fresh /\ me'.registered = me.registered
        /\ ~me'.wroteHook => hook' = hook
    BY <1>0, <1>3, <2>1 DEF WriteHook, Minds, ApplyFiles
  <2> QED
    BY <1>0, <2>1, <2>2 DEF ApplyFiles, Early, Late, Registering, Undoing, Putting, Whole
<1>4. CASE WriteRecord
  <2>1. pc = "replace" /\ pc' = "reload" /\ UNCHANGED <<file, hook, state, clash>>
    BY <1>4 DEF WriteRecord, Goto, world
  <2>2. /\ me'.journal = me.journal /\ me'.fresh = me.fresh /\ me'.wroteHook = me.wroteHook
        /\ me'.registered
    BY <1>0, <1>4 DEF WriteRecord, Minds
  <2> QED
    BY <1>0, <2>1, <2>2 DEF ApplyFiles, Early, Late, Registering, Undoing, Putting, Whole
<1>5. CASE Unregister \/ PutBack
  <2>1. /\ UNCHANGED <<file, state, me>>
        /\ \/ pc = "unregister" /\ pc' = "putBack" /\ UNCHANGED <<record, hook, clash>> /\ me.registered
           \/ pc \in {"unregister", "putBack"} /\ pc' = "restore"
    BY <1>5 DEF Unregister, PutBack, Goto
  <2>2. pc' = "restore" => hook' = IF me.wroteHook THEN was.hook ELSE hook
    BY <1>0, <1>5 DEF Unregister, PutBack, PutHookBack, Goto, ApplyMind
  <2>3. pc' = "restore" => record'.hook = was.record.hook \/ clash'
    BY <1>0, <1>5, <2>1 DEF Unregister, PutBack, Goto, ApplyMind, ApplyFiles, Undoing
  <2> QED
    BY <1>0, <2>1, <2>2, <2>3 DEF ApplyFiles, Early, Late, Registering, Undoing, Putting, Whole
<1>6. CASE Restore
  <2>1. pc = "restore" /\ pc' = "unpublish" /\ UNCHANGED <<record, clash, me>>
    BY <1>6, Applying DEF Restore, Goto, acme
  <2>2. /\ file' = [c \in Components |-> IF c \in me.journal THEN me.backup.file[c] ELSE file[c]]
        /\ hook' = IF "hook" \in me.journal THEN was.hook ELSE hook
        /\ state' = IF "state" \in me.journal THEN was.state ELSE state
    BY <1>0, <1>6 DEF Restore, ApplyMind
  <2>3. \A c \in Components : me.backup.file[c] # run
    BY <1>0 DEF ApplyMind, FileOk, Wrote, Absent
  <2>4. /\ \A c \in Components : file'[c] # run
        /\ \A c \in Components \ me.fresh : file'[c] = was.file[c]
    BY <1>0, <2>1, <2>2, <2>3 DEF ApplyFiles, ApplyMind, Undoing
  <2> QED
    BY <1>0, <2>1, <2>2, <2>4 DEF ApplyFiles, Early, Late, Registering, Undoing, Putting, Whole
<1>7. CASE Save
  <2>1. pc = "save" /\ pc' = "report" /\ UNCHANGED <<file, hook, record, clash>>
    BY <1>7 DEF Save, Goto, world, acme
  <2>2. /\ me'.journal = me.journal \cup {"state"} /\ me'.fresh = me.fresh
        /\ me'.wroteHook = me.wroteHook /\ me'.registered = me.registered
    BY <1>0, <1>7 DEF Save, Minds
  <2> QED
    BY <1>0, <2>1, <2>2, Names DEF ApplyFiles, Early, Late, Registering, Undoing, Putting, Whole
<1>8. CASE ~(Install \/ Commit \/ WriteHook \/ WriteRecord \/ Unregister \/ PutBack \/ Restore \/ Save)
  <2>1. /\ UNCHANGED <<file, hook, state, clash>> /\ record'.hook = record.hook
        /\ me'.journal = me.journal /\ me'.fresh = me.fresh
        /\ me'.wroteHook = me.wroteHook /\ me'.registered = me.registered
    <3>1. record'.hook = record.hook
      BY <1>0, <1>8, FileFrames DEF Renew, Typed, Records
    <3> QED
      BY <1>8, <3>1, Frames, FileFrames, MindFrames, Applying
  <2>2. pc' = "restore" => pc = "restore"
    BY <1>8, EarlyMoves
  <2>3. pc' = "unpublish" => pc = "unpublish"
    BY <1>8, EarlyMoves
  <2> QED
    BY <1>0, <2>1, <2>2, <2>3, StageMoves DEF ApplyFiles, Putting
<1> QED
  BY <1>1, <1>2, <1>3, <1>4, <1>5, <1>6, <1>7, <1>8

\* Which errors and services of the panel an apply meets.
LEMMA ApplyPanelStep ==
    ASSUME AInv, [Next]_vars, op' = "apply", ~Begin
    PROVE  ApplyPanel'
<1>0. /\ Typed /\ ApplyMind /\ ApplyPanel /\ run' = run /\ Plan' = Plan /\ was' = was
      /\ me'.before = me.before /\ run \in Nat /\ run > 0 /\ me \in Minds /\ Plan.publishes \in BOOLEAN
  BY Applying, PlanTyped DEF AInv, was, Typed
<1> USE DEF ApplyPanel
<1>1. CASE Publish
  <2>1. pc = "publish" /\ pc' \in {"panel", "packages"} /\ svc' = svc
    BY <1>1 DEF Publish, Goto
  <2>2. /\ db' = IF Plan.publishes THEN run ELSE db
        /\ me'.published = IF Plan.publishes THEN {db} ELSE {}
    BY <1>0, <1>1 DEF Publish, Minds
  <2>3. db \in {was.db, PanelEdit}
    BY <1>0, <2>1
  <2> QED
    BY <1>0, <2>1, <2>2, <2>3 DEF Putting, Whole, Ran
<1>2. CASE EditPanel
  <2>1. db' = PanelEdit /\ svc'["panel"].runs = PanelEdit /\ UNCHANGED <<pc, me, verdict>>
    BY <1>0, <1>2, PanelRuns DEF EditPanel
  <2> QED
    BY <1>0, <2>1 DEF Putting, Whole, Ran
<1>3. CASE Unpublish
  <2>1. /\ pc = "unpublish" /\ pc' \in {"quieten", "idle"} /\ me'.published = me.published
        /\ ~Whole' /\ (pc' = "idle" => db' = db /\ svc' = svc)
    BY <1>0, <1>3, MindFrames, Applying DEF Unpublish, Goto, End, Whole, Publish
  <2>2. CASE ~Plan.publishes
    <3>1. me.published = {}
      BY <1>0, <2>2
    <3>2. UNCHANGED <<db, svc, me>>
      BY <1>3, <3>1 DEF Unpublish
    <3> QED
      BY <1>0, <2>1, <2>2, <3>2 DEF Putting, Ran
  <2>3. CASE Plan.publishes
    <3>1. PICK d \in {was.db, PanelEdit} : me.published = {d}
      BY <1>0, <2>1, <2>3
    <3>2. CASE db # run
      BY <1>0, <1>3, <2>1, <2>3, <3>1, <3>2 DEF Unpublish, Goto, End, Putting, Whole
    <3>3. CASE db = run
      <4>1. db' = d
        BY <1>3, <3>1, <3>3, Picks DEF Unpublish
      <4>2. me'.errors \/ svc'["panel"].runs = db'
        <5>1. CASE svc' = [svc EXCEPT !["panel"].runs = db', !["panel"].cert = cert]
          BY <1>0, <5>1, PanelRuns
        <5>2. CASE me' = [me EXCEPT !.errors = TRUE]
          BY <1>0, <5>2 DEF Minds
        <5> QED
          BY <1>3, <3>1, <3>3, <5>1, <5>2 DEF Unpublish
      <4> QED
        BY <1>0, <2>1, <2>3, <3>1, <4>1, <4>2
    <3> QED
      BY <3>2, <3>3
  <2> QED
    BY <1>0, <2>2, <2>3
<1>4. CASE ~(Publish \/ EditPanel \/ Unpublish)
  <2>1. db' = db /\ me'.published = me.published
    BY <1>4, Frames, MindFrames, Applying
  <2>2. svc'["panel"].runs \in {svc["panel"].runs, db}
    <3>1. "panel" \in All /\ me.fresh \subseteq Components /\ "panel" \notin Components
      BY <1>0, Names DEF Minds
    <3>2. CASE UNCHANGED svc
      BY <3>2
    <3>3. CASE RestartPanel
      BY <1>0, <3>1, <3>3, Loads DEF RestartPanel, Version
    <3>4. CASE Install
      <4>1. "panel" \notin (Plan.wants \cap Packaged) \ packages
        BY Names
      <4> QED
        BY <1>0, <3>1, <3>4, <4>1, Stops DEF Install
    <3>5. CASE StopRemoved
      <4>1. PICK S \in SUBSET ToStop : svc' = Stopped(S)
        BY <3>5 DEF StopRemoved
      <4> QED
        BY <1>0, <3>1, <4>1, Stops DEF ToStop
    <3>6. CASE RunHook \/ AcmeHook
      <4>1. svc' \in {svc, Reloaded}
        BY <3>6 DEF RunHook, AcmeHook
      <4> QED
        BY <1>0, <4>1, Reloads
    <3>7. CASE Quieten
      <4>1. "panel" \notin Orphans \cup ({"firewall"} \cap Plan.wants)
        BY <3>1, Names DEF Orphans, Owned
      <4> QED
        BY <1>0, <3>1, <3>7, <4>1, Disabled DEF Quieten
    <3>8. CASE Activate \/ Revive \/ Reenable
      <4>1. PICK c \in me.todo, e \in BOOLEAN : Start(c, e) \/ StartFails(c)
        BY <3>8 DEF Activate, Revive, Reenable
      <4>2. c \in Components /\ c # "panel"
        BY <1>0, <3>1 DEF Minds
      <4> QED
        BY <1>0, <3>1, <4>1, <4>2, Started, StartFailed
    <3> QED
      BY <1>4, <3>2, <3>3, <3>4, <3>5, <3>6, <3>7, <3>8, Frames, Applying
  <2>3. (pc' \in Putting \/ Whole') => pc \in Putting \/ Whole
    BY <1>4, EarlyMoves, StageMoves DEF Putting, Quieten, Again, Revived
  <2>4. pc' = "publish" => pc = "publish"
    BY EarlyMoves
  <2>5. pc = "publish" => pc' = "publish"
    BY <1>4, EarlyMoves
  <2>6. (me.errors => me'.errors) /\ (Whole' => ~me'.errors)
    <3>1. me.errors => me'.errors
      BY <1>0, MindFrames, Applying
    <3>2. ASSUME Whole' PROVE ~me'.errors
      <4>1. CASE Judge
        BY <3>2, <4>1 DEF Judge, Whole, End
      <4>2. CASE Whole
        BY <1>0, <4>2, MindFrames, Applying DEF Whole, Unpublish, Quieten, QuietenOld, Revive
      <4> QED
        BY <3>2, <4>1, <4>2, EarlyMoves
    <3> QED
      BY <3>1, <3>2
  <2> QED
    BY <1>0, <2>1, <2>2, <2>3, <2>4, <2>5, <2>6 DEF Ran
<1> QED
  BY <1>1, <1>2, <1>3, <1>4

\* What a run forwards knows of the services.
LEMMA ApplyForwardsStep ==
    ASSUME AInv, [Next]_vars, op' = "apply", ~Begin
    PROVE  ApplyForwards'
<1>0. /\ Typed /\ ApplyMind /\ ApplyFiles /\ ApplyForwards /\ op = "apply" /\ run' = run /\ Plan' = Plan
      /\ me \in Minds /\ me'.before = me.before /\ me'.removal = me.removal /\ run \in Nat /\ run > 0
      /\ Plan.wants \subseteq Components /\ ToStop' = ToStop /\ me.removal \cap Plan.wants = {}
      /\ ToStop \cap Plan.wants = {} /\ ToStop \subseteq Components /\ Plan.hook \in BOOLEAN
  BY Applying, PlanTyped DEF AInv, Typed, Minds, ApplyMind, ToStop
<1>a. (pc' = "commit" \/ pc' \in Late \/ Done') =>
        IF StopRemoved THEN svc' = Stopped(ToStop)
        ELSE UNCHANGED svc \/ Activate \/ RunHook \/ AcmeHook \/ EditPanel
  <2>1. CASE StopRemoved
    BY <2>1 DEF StopRemoved, Goto, Late, Registering, Done
  <2>2. CASE RestartPanel \/ Install \/ Unpublish \/ Quieten \/ Revive \/ Reenable
    BY <2>2 DEF RestartPanel, Install, Unpublish, Quieten, Revive, Reenable, Goto, End, Late,
                Registering, Done
  <2> QED
    BY <2>1, <2>2, Frames, Applying
<1>b. (pc' \in Late \/ Done') => pc \in Late \/ Done \/ (Commit /\ pc' = "activate" /\ Write(Changes))
  BY StageMoves DEF Commit, Goto, Late, Registering, Done
<1>c. (pc \in Late \/ Done) => ~StopRemoved /\ ~Commit
  BY DEF StopRemoved, Commit, Late, Registering, Done
<1>1. (pc' = "commit" \/ pc' \in Late \/ Done') => \A c \in ToStop : ~svc'[c].on /\ svc'[c].runs = Down
  <2> SUFFICES ASSUME pc' = "commit" \/ pc' \in Late \/ Done', NEW c \in ToStop
               PROVE  ~svc'[c].on /\ svc'[c].runs = Down
    OBVIOUS
  <2>1. c \in All /\ c \in Components /\ c \notin Plan.wants
    BY <1>0, Names
  <2>2. CASE StopRemoved /\ svc' = Stopped(ToStop)
    BY <1>0, <2>1, <2>2, Stops
  <2>3. CASE ~StopRemoved
    <3>1. ~svc[c].on /\ svc[c].runs = Down
      BY <1>0, <1>b, <2>3, EarlyMoves DEF ApplyForwards, Commit
    <3>2. CASE UNCHANGED svc
      BY <3>1, <3>2
    <3>3. CASE Activate
      <4>1. PICK d \in me.todo : Start(d, TRUE) \/ StartFails(d)
        BY <3>3 DEF Activate
      <4>2. d \in Plan.wants /\ d # c /\ d \in Components
        BY <1>0, <2>1, <3>3, <4>1 DEF Activate, ApplyForwards
      <4>3. svc'[c].on = svc[c].on /\ svc'[c].runs = svc[c].runs
        <5>1. CASE Start(d, TRUE)
          BY <1>0, <2>1, <4>2, <5>1, Started
        <5>2. CASE StartFails(d)
          BY <1>0, <2>1, <4>2, <5>2, StartFailed
        <5> QED
          BY <4>1, <5>1, <5>2
      <4> QED
        BY <3>1, <4>3
    <3>4. CASE RunHook \/ AcmeHook
      <4>1. svc' \in {svc, Reloaded}
        BY <3>4 DEF RunHook, AcmeHook
      <4> QED
        BY <1>0, <2>1, <3>1, <4>1, Reloads
    <3>5. CASE EditPanel
      BY <1>0, <2>1, <3>1, <3>5, PanelRuns DEF EditPanel
    <3> QED
      BY <1>a, <2>3, <3>2, <3>3, <3>4, <3>5
  <2> QED
    BY <1>a, <2>2, <2>3
<1>2. pc' \in Early => (~me'.touched \/ pc' = "commit")
  <2>1. pc = "commit" => pc' \notin Early \/ pc' = "commit"
    BY EarlyMoves DEF Early, Publish, RestartPanel, Install, Stage
  <2>2. CASE StopRemoved
    BY <2>2 DEF StopRemoved, Goto, Early
  <2>3. CASE ~StopRemoved
    BY <1>0, <2>1, <2>3, MindFrames, Applying, StageMoves DEF ApplyForwards
  <2> QED
    BY <2>2, <2>3
<1>3. pc' = "commit" => (me'.touched <=> ToStop # {})
  <2>1. CASE StopRemoved
    <3>1. me'.touched = (ToStop # {})
      BY <1>0, <2>1 DEF StopRemoved, Minds
    <3> QED
      BY <3>1
  <2>2. CASE ~StopRemoved
    BY <1>0, <2>2, MindFrames, Applying, EarlyMoves DEF ApplyForwards
  <2> QED
    BY <2>1, <2>2
<1>4. (pc' \in Late \/ Done') =>
         /\ Plan.wants \subseteq me'.journal
         /\ \A c \in Plan.wants : file'[c] = run
         /\ \A c \in me.removal : file'[c] = Absent
         /\ Plan.hook => hook' = HookOf(Plan.wants)
  <2> SUFFICES ASSUME pc' \in Late \/ Done' PROVE <1>4!2
    OBVIOUS
  <2>1. CASE Commit /\ Write(Changes)
    <3>1. me'.journal = Changes /\ Plan.wants \subseteq Changes /\ me.removal \subseteq Changes
      BY <1>0, <2>1 DEF Write, Changes, Minds
    <3>2. Plan.hook => "hook" \in Changes
      BY DEF Changes
    <3> QED
      BY <1>0, <2>1, <3>1, <3>2 DEF Write, Minds
  <2>2. CASE pc \in Late \/ Done
    <3>1. file' = file
      BY <1>c, <2>2, Frames, Applying DEF Install, Restore, Late, Registering, Done
    <3>2. hook' = hook \/ hook' = HookOf(Plan.wants)
      BY <1>0, <1>c, <2>2, FileFrames DEF WriteHook, Wants, Unregister, PutBack, PutHookBack, Restore, Late, Registering, Done
    <3>3. me.journal \subseteq me'.journal
      BY <1>c, <2>2, MindFrames, Applying
    <3> QED
      BY <1>0, <2>2, <3>1, <3>2, <3>3 DEF ApplyForwards
  <2> QED
    BY <1>b, <2>1, <2>2
<1>5. (pc' \in Late \/ Done') =>
         \A c \in Plan.wants : (svc'[c].on /\ svc'[c].runs = run) \/ (pc' = "activate" /\ c \in me'.todo)
  <2> SUFFICES ASSUME pc' \in Late \/ Done', NEW c \in Plan.wants
               PROVE  (svc'[c].on /\ svc'[c].runs = run) \/ (pc' = "activate" /\ c \in me'.todo)
    OBVIOUS
  <2>0. c \in Components /\ c \in All
    BY <1>0, Names
  <2>1. CASE Commit /\ pc' = "activate" /\ Write(Changes)
    BY <1>0, <2>1 DEF Write, Minds
  <2>2. CASE pc \in Late \/ Done
    <3>0. /\ file[c] = run
          /\ (svc[c].on /\ svc[c].runs = run) \/ (pc = "activate" /\ c \in me.todo)
      BY <1>0, <2>2 DEF ApplyForwards
    <3>1. CASE Activate
      <4>1. PICK d \in me.todo : /\ (Start(d, TRUE) /\ UNCHANGED pc) \/ (StartFails(d) /\ pc' = "unregister")
                                 /\ me' = [me EXCEPT !.todo = @ \ {d}]
        BY <3>1 DEF Activate, Goto
      <4>2. d \in Components /\ Start(d, TRUE) /\ pc' = "activate" /\ me'.todo = me.todo \ {d}
        BY <1>0, <3>1, <4>1 DEF Minds, Late, Registering, Done, Activate
      <4>3. CASE c = d
        BY <1>0, <3>0, <4>2, <4>3, Started
      <4>4. CASE c # d
        BY <1>0, <2>0, <3>0, <4>2, <4>4, Started
      <4> QED
        BY <4>3, <4>4
    <3>2. CASE ~Activate
      <4>1. svc'[c].on = svc[c].on /\ svc'[c].runs \in {svc[c].runs, run}
        <5>1. CASE UNCHANGED svc
          BY <5>1
        <5>2. CASE RunHook \/ AcmeHook
          <6>1. svc' \in {svc, Reloaded}
            BY <5>2 DEF RunHook, AcmeHook
          <6> QED
            BY <1>0, <2>0, <3>0, <6>1, Reloads
        <5>3. CASE EditPanel
          BY <1>0, <2>0, <5>3, PanelRuns DEF EditPanel
        <5> QED
          BY <1>a, <1>c, <2>2, <3>2, <5>1, <5>2, <5>3
      <4>2. (pc = "activate" /\ c \in me.todo) => pc' = "activate" /\ c \in me'.todo
        <5>1. me'.todo = me.todo \/ pc # "activate"
          BY <3>2, MindFrames, Applying DEF Commit, Again, Revive, Revived, Reenable
        <5>2. (pc = "activate" /\ me.todo # {}) => pc' = "activate"
          BY <3>2, EarlyMoves DEF Late, Registering, Done, Activated, Register, WriteHook, MatchRecord,
                                  WriteRecord, RunHook, Confirm, Health, Save, Report
        <5> QED
          BY <5>1, <5>2
      <4> QED
        BY <3>0, <4>1, <4>2
    <3> QED
      BY <3>1, <3>2
  <2> QED
    BY <1>b, <2>1, <2>2
<1>6. pc' = "activate" => me'.todo \subseteq Plan.wants
  <2>1. CASE Commit
    BY <1>0, <2>1 DEF Commit, Write, Minds
  <2>2. CASE Activate
    BY <1>0, <2>2 DEF Activate, ApplyForwards, Minds
  <2>3. CASE ~Commit /\ ~Activate /\ pc' = "activate"
    <3>1. pc = "activate"
      BY <2>3, EarlyMoves
    <3>2. me'.todo = me.todo
      BY <2>3, <3>1, MindFrames, Applying DEF Again, Revive, Revived, Reenable
    <3> QED
      BY <1>0, <3>1, <3>2 DEF ApplyForwards
  <2> QED
    BY <2>1, <2>2, <2>3
<1>7. pc' \in Registering => Plan.hook
  <2>1. pc' \in Registering => pc \in Registering \/ Activated
    BY EarlyMoves DEF Registering, Register, WriteHook, MatchRecord, WriteRecord, RunHook
  <2> QED
    BY <1>0, <2>1 DEF ApplyForwards, Activated, Goto, Registering
<1>8. (Plan.hook /\ (pc' \in {"reload", "confirm", "health", "save", "report"} \/ Done')) => record'.hook
  <2> SUFFICES ASSUME Plan.hook, pc' \in {"reload", "confirm", "health", "save", "report"} \/ Done'
               PROVE  record'.hook
    OBVIOUS
  <2>1. CASE WriteRecord
    BY <1>0, <2>1 DEF WriteRecord, Goto, Done, Typed, Minds, Records
  <2>2. CASE Register
    BY <1>0, <2>2 DEF Register, Goto, Done, acme
  <2>3. CASE ~WriteRecord /\ ~Register
    <3>1. pc \in {"reload", "confirm", "health", "save", "report"} \/ Done
      BY <1>0, <2>3, EarlyMoves DEF RunHook, Activated, Confirm, Health, Save, Report, Goto
    <3>2. record'.hook = record.hook
      BY <1>0, <2>3, <3>1, FileFrames DEF Renew, PutBack, Typed, Records, Done
    <3> QED
      BY <1>0, <3>1, <3>2 DEF ApplyForwards
  <2> QED
    BY <2>1, <2>2, <2>3
<1>9. (pc' = "report" \/ Done') => state'.run = run
  <2>1. CASE Save
    BY <1>0, <2>1 DEF Save
  <2>2. CASE ~Save /\ (pc' = "report" \/ Done')
    <3>1. pc = "report" \/ Done
      BY <2>2, EarlyMoves DEF Report
    <3>2. state' = state
      BY <2>2, <3>1, Frames, Applying DEF Restore, Done
    <3> QED
      BY <1>0, <3>1, <3>2 DEF ApplyForwards
  <2> QED
    BY <2>1, <2>2
<1> QED
  BY <1>0, <1>1, <1>2, <1>3, <1>4, <1>5, <1>6, <1>7, <1>8, <1>9 DEF ApplyForwards

\* What an apply does to the service of a component, in any step but its own.
LEMMA ServiceMoves ==
    ASSUME AInv, [Next]_vars, op' = "apply", ~Begin, NEW c \in Components
    PROVE  \/ svc'[c].runs = svc[c].runs
           \/ Install /\ c \in me'.fresh /\ svc'[c].runs \in {Down, file'[c]}
           \/ StopRemoved /\ c \in ToStop
           \/ /\ Activate \/ Revive \/ Reenable
              /\ c \in me.todo /\ svc'[c].runs \in {svc[c].runs, Down, file[c]}
           \/ /\ RunHook \/ AcmeHook
              /\ c \in hook /\ svc[c].runs # Down /\ svc'[c].runs = file[c]
           \/ Quieten /\ ~Calm /\ c \in Orphans \cup ({"firewall"} \cap Plan.wants) /\ svc'[c].runs = Down
<1>0. Typed /\ me \in Minds /\ c \in All /\ c # "panel"
  BY Names DEF AInv, Typed
<1>1. CASE UNCHANGED svc
  BY <1>1
<1>2. CASE RestartPanel
  BY <1>0, <1>2, Loads DEF RestartPanel
<1>3. CASE Install
  <2>1. me'.fresh = (Plan.wants \cap Packaged) \ packages
    BY <1>0, <1>3 DEF Install, Minds
  <2>2. \/ svc' = Stopped(me'.fresh)
        \/ svc' = [d \in All |-> IF d \in me'.fresh THEN [on |-> TRUE, runs |-> file'[d], cert |-> cert]
                                 ELSE svc[d]]
    BY <1>3, <2>1 DEF Install
  <2> QED
    BY <1>0, <1>3, <2>2, Stops
<1>4. CASE StopRemoved
  BY <1>0, <1>4, Stops DEF StopRemoved
<1>5. CASE RunHook \/ AcmeHook
  <2>1. svc' \in {svc, Reloaded}
    BY <1>5 DEF RunHook, AcmeHook
  <2> QED
    BY <1>0, <1>5, <2>1, Reloads
<1>6. CASE Unpublish \/ EditPanel
  BY <1>0, <1>6, PanelRuns DEF Unpublish, EditPanel
<1>7. CASE Quieten
  <2>1. CASE Calm
    BY <1>7, <2>1 DEF Quieten, Calm
  <2>2. CASE ~Calm
    <3>1. Disable(Orphans \cup ({"firewall"} \cap Plan.wants))
      BY <1>7, <2>2 DEF Quieten, Calm
    <3> QED
      BY <1>0, <1>7, <2>2, <3>1, Disabled
  <2> QED
    BY <2>1, <2>2
<1>8. CASE Activate \/ Revive \/ Reenable
  <2>1. PICK d \in me.todo, e \in BOOLEAN : Start(d, e) \/ StartFails(d)
    BY <1>8 DEF Activate, Revive, Reenable
  <2>2. d \in Components
    BY <1>0, <2>1 DEF Minds
  <2>3. CASE c # d
    BY <1>0, <2>1, <2>2, <2>3, Started, StartFailed
  <2>4. CASE c = d
    <3>1. svc'[c].runs \in {svc[c].runs, Down, file[c]}
      BY <1>0, <2>1, <2>2, <2>4, Started, StartFailed
    <3> QED
      BY <1>8, <2>4, <3>1
  <2> QED
    BY <2>3, <2>4
<1> QED
  BY <1>1, <1>2, <1>3, <1>4, <1>5, <1>6, <1>7, <1>8, Frames, Applying

\* As long as a run is not over, what it has neither written nor installed is what was there.
LEMMA FilesLeft ==
    ASSUME AInv, op = "apply", pc # "idle", NEW c \in Components \ me.fresh,
           c \notin me.journal \/ pc = "unpublish" \/ pc \in Putting
    PROVE  file[c] = was.file[c]
  BY DEF AInv, Stages, ApplyInv, ApplyFiles

\* Only Nginx was running without files of ours.
LEMMA NotRanAbsent ==
    ASSUME AInv, op = "apply", NEW c \in Components, c # "nginx", was.file[c] = Absent
    PROVE  ~Ran(was, c)
<1>1. RunsOk(was.svc, run - 1)
  BY DEF AInv, ApplyInv, ApplyMind, MomentOk
<1>2. was.svc[c].runs # Absent
  BY <1>1, ConstantsAssumption DEF RunsOk, Wrote, Made, Runs, Absent, Down
<1>3. c # "panel"
  BY Names
<1> QED
  BY <1>2, <1>3 DEF Ran

\* What the lemmas below use all the time.
LEMMA AtWork ==
    ASSUME AInv, [Next]_vars, op' = "apply", ~Begin
    PROVE  /\ Typed /\ ApplyMind /\ ApplyFiles /\ ApplyServices /\ ApplyForwards /\ ApplyFiles'
           /\ op = "apply" /\ run' = run /\ Plan' = Plan
           /\ me \in Minds /\ was' = was /\ me'.removal = me.removal /\ run \in Nat /\ run > 0
           /\ Plan.wants \subseteq Components /\ ToStop' = ToStop /\ me.removal \cap Plan.wants = {}
           /\ ToStop \cap Plan.wants = {} /\ ToStop \subseteq Components
           /\ ToStop \cap Packaged = {} /\ Plan.wants \cap ToStop = {}
           /\ me.fresh \subseteq Plan.wants /\ ToStop \subseteq me.removal
  BY Applying, PlanTyped, ApplyFilesStep DEF AInv, Typed, Minds, ApplyMind, ToStop, was, Packaged

\* What had run goes on until the run stops or starts it.
LEMMA GoingStep ==
    ASSUME AInv, [Next]_vars, op' = "apply", ~Begin
    PROVE  /\ pc' # "idle" =>
                /\ \A c \in Components : svc'[c].runs = run => c \in me'.journal
                /\ \A c \in Components \ (Plan.wants \cup ToStop) : Goes(c)'
                /\ ~me'.touched => \A c \in ToStop : Goes(c)'
                /\ Calm' => \A c \in Components : Goes(c)'
           /\ me'.touched \/ ToStop = {} \/ me'.journal = {}
<1>0. /\ Typed /\ ApplyMind /\ ApplyFiles /\ ApplyServices /\ ApplyForwards /\ ApplyFiles'
      /\ op = "apply" /\ run' = run /\ Plan' = Plan
      /\ me \in Minds /\ was' = was /\ me'.removal = me.removal /\ run \in Nat /\ run > 0
      /\ Plan.wants \subseteq Components /\ ToStop' = ToStop /\ me.removal \cap Plan.wants = {}
      /\ ToStop \cap Plan.wants = {} /\ ToStop \subseteq Components
      /\ ToStop \cap Packaged = {} /\ Plan.wants \cap ToStop = {}
      /\ me.fresh \subseteq Plan.wants /\ ToStop \subseteq me.removal
  BY AtWork
<1>a. /\ Activate => pc = "activate" /\ me.todo \subseteq Plan.wants /\ Plan.wants \subseteq me.journal
      /\ Revive => pc = "revive" /\ me.todo \subseteq Revivable
      /\ Reenable => pc = "reenable" /\ me.todo \subseteq IF me.touched THEN ToStop ELSE {}
  BY <1>0 DEF Activate, Revive, Reenable, ApplyForwards, ApplyServices, Late
<1>b. Revivable \subseteq Plan.wants /\ Revivable \cap me.fresh = {}
  BY DEF Revivable
<1>c. hook \subseteq {"panel", "haproxy", "nginx", "sidecar"}
  BY <1>0 DEF Typed, CertUsers
<1>d. pc' # "idle" => pc # "idle"
  BY EarlyMoves
\* An action keeps the journal, unless it is one of three.
<1>e. /\ me.journal \subseteq me'.journal \/ Commit
      /\ Commit => pc = "commit" /\ me.journal = {} /\ (me.touched <=> ToStop # {})
  BY <1>0, MindFrames, Applying DEF Commit, ApplyFiles, ApplyForwards, Early
<1>f. StopRemoved => pc = "stop" /\ me'.touched = (ToStop # {}) /\ ~me.touched
  BY <1>0 DEF StopRemoved, Minds, ApplyForwards, Early
<1>1. ASSUME pc' # "idle", NEW c \in Components, svc'[c].runs = run PROVE c \in me'.journal
  <2>1. CASE svc'[c].runs = svc[c].runs
    <3>1. c \in me.journal
      BY <1>0, <1>1, <1>d, <2>1 DEF ApplyServices
    <3> QED
      BY <1>e, <3>1
  <2>2. CASE Install
    <3>1. pc' = "stage"
      BY <2>2 DEF Install, Goto
    <3>2. svc'[c].runs \in {svc[c].runs, Down, file'[c]}
      BY <2>2, ServiceMoves DEF StopRemoved, Activate, Revive, Reenable, RunHook, AcmeHook, Quieten, Install
    <3> QED
      BY <1>0, <1>1, <2>1, <3>1, <3>2 DEF ApplyFiles, Early, Down
  <2>3. CASE StopRemoved /\ c \in ToStop
    <3>1. svc'[c].runs \in {svc[c].runs, Down}
      BY <1>0, <2>3, Stops, Names DEF StopRemoved
    <3> QED
      BY <1>0, <1>1, <2>1, <3>1 DEF Down
  <2>4. CASE file[c] = run
    <3>1. c \in me.journal
      BY <1>0, <1>1, <1>d, <2>4 DEF ApplyFiles, AInv, Stages
    <3> QED
      BY <1>e, <3>1
  <2> QED
    BY <1>0, <1>1, <2>1, <2>2, <2>3, <2>4, ServiceMoves DEF Down
\* What the hook of acme.sh reloads runs what was there, if the run has not written it.
<1>g. ASSUME pc # "idle", NEW c \in Components \ me.fresh, c \notin me.journal, svc'[c].runs = file[c]
      PROVE  Goes(c)'
  BY <1>0, <1>g, FilesLeft DEF Goes, Ran
<1>h. ASSUME NEW c \in Components, Goes(c), svc'[c].runs = svc[c].runs PROVE Goes(c)'
  BY <1>0, <1>h DEF Goes, Ran
\* A service without files did not run before.
<1>i. ASSUME pc = "quieten", NEW c \in Orphans \ me.fresh PROVE c \in Components /\ file[c] = Absent /\ ~Ran(was, c)
  <2>1. c \in Components /\ file[c] = Absent /\ c # "nginx"
    BY <1>i DEF Orphans, Owned
  <2>2. file[c] = was.file[c]
    BY <1>0, <1>i, <2>1 DEF ApplyFiles, Putting
  <2> QED
    BY <1>0, <2>1, <2>2, NotRanAbsent
<1>2. ASSUME pc' # "idle", NEW c \in Components \ (Plan.wants \cup ToStop) PROVE Goes(c)'
  <2>1. Goes(c) /\ c \notin me.fresh /\ c \notin me'.fresh
    BY <1>0, <1>2, <1>d, MindFrames, Applying DEF ApplyServices
  <2>2. CASE svc'[c].runs = svc[c].runs
    BY <1>h, <2>1, <2>2
  <2>3. CASE c \in hook /\ svc'[c].runs = file[c]
    <3>1. c \notin me.removal /\ c \notin me.journal
      BY <1>0, <1>2, <1>c, <2>3, Names DEF ApplyMind, Removable, ToStop
    <3> QED
      BY <1>2, <1>d, <1>g, <2>1, <2>3, <3>1
  <2>4. CASE Quieten /\ c \in Orphans \cup ({"firewall"} \cap Plan.wants)
    BY <1>0, <1>2, <1>i, <2>1, <2>4 DEF Quieten, Goes, Ran
  <2> QED
    BY <1>0, <1>2, <1>a, <1>b, <2>1, <2>2, <2>3, <2>4, ServiceMoves
<1>3. ASSUME pc' # "idle", ~me'.touched, NEW c \in ToStop PROVE Goes(c)'
  <2>1. ~StopRemoved /\ ~me.touched /\ me.journal = {}
    BY <1>0, <1>3, <1>f, MindFrames, Applying DEF ApplyServices
  <2>2. Goes(c) /\ c \in Components /\ c \notin me.fresh /\ c \notin me'.fresh /\ c \notin Plan.wants
    BY <1>0, <1>3, <1>d, <2>1, MindFrames, Applying DEF ApplyServices
  <2>3. CASE svc'[c].runs = svc[c].runs
    BY <1>h, <2>2, <2>3
  <2>4. CASE svc'[c].runs = file[c]
    BY <1>3, <1>d, <1>g, <2>1, <2>2, <2>4
  <2>5. CASE Quieten /\ c \in Orphans
    <3>1. file[c] = Absent /\ file[c] = was.file[c] /\ was.file[c] # Absent
      BY <1>0, <1>3, <1>i, <2>2, <2>5, FilesLeft DEF Quieten, Putting, ApplyMind
    <3> QED
      BY <3>1
  <2> QED
    BY <1>0, <1>a, <1>b, <2>1, <2>2, <2>3, <2>4, <2>5, ServiceMoves
<1>4. me'.touched \/ ToStop = {} \/ me'.journal = {}
  <2>1. CASE StopRemoved \/ Commit
    BY <1>e, <1>f, <2>1, MindFrames, Applying DEF StopRemoved, Commit
  <2>2. CASE ~StopRemoved /\ ~Commit
    <3>1. me'.touched = me.touched
      BY <2>2, MindFrames, Applying
    <3>2. CASE ~Save
      BY <1>0, <2>2, <3>1, <3>2, MindFrames, Applying DEF ApplyServices
    <3>3. CASE Save
      <4> SUFFICES ASSUME NEW c \in ToStop, me.journal = {} PROVE FALSE
        BY <1>0, <3>1 DEF ApplyServices
      <4>1. pc = "save" /\ c \in Components /\ c \notin me.fresh /\ c \in me.removal
        BY <1>0, <3>3 DEF Save
      <4>2. file[c] = Absent /\ was.file[c] # Absent
        BY <1>0, <4>1 DEF ApplyForwards, ApplyMind, Late
      <4> QED
        BY <1>0, <4>1, <4>2, FilesLeft
    <3> QED
      BY <3>2, <3>3
  <2> QED
    BY <2>1, <2>2
<1>5. ASSUME pc' # "idle", Calm', NEW c \in Components PROVE Goes(c)'
  <2>1. ~me.touched /\ me.journal = {}
    BY <1>5, <1>e, <1>f, MindFrames, Applying DEF Calm
  <2>2. me.fresh = {}
    BY <1>0, <1>5, MindFrames, Applying DEF Calm, Install, ApplyMind
  <2>3. pc # "idle" /\ Goes(c) /\ Calm /\ c \notin me.fresh /\ c \notin me.journal
    BY <1>0, <1>5, <1>d, <2>1, <2>2 DEF ApplyServices, Calm
  <2>4. ~Revive /\ ~Reenable
    BY <1>0, <1>a, <2>3 DEF ApplyServices, Backed
  <2>5. ~(Activate /\ c \in me.todo) /\ ~(Install /\ c \in me'.fresh) /\ ~(StopRemoved /\ c \in ToStop)
    BY <1>5, <1>a, <1>f, <2>1 DEF Calm
  <2> QED
    BY <1>g, <1>h, <2>3, <2>4, <2>5, ServiceMoves
<1> QED
  BY <1>1, <1>2, <1>3, <1>4, <1>5

\* While an undo puts services back, all else stays.
LEMMA PuttingKeeps ==
    ASSUME AInv, [Next]_vars, op' = "apply", ~Begin, pc \in Putting \cup {"idle"}
    PROVE  /\ file' = file /\ packages' = packages
           /\ me'.journal = me.journal /\ me'.fresh = me.fresh /\ me'.touched = me.touched
           /\ Orphans' = Orphans /\ Revivable' = Revivable /\ Calm' = Calm
           /\ me.errors => me'.errors
<1>1. /\ ~Install /\ ~Commit /\ ~Restore /\ ~Save /\ ~StopRemoved
  BY DEF Putting, Install, Commit, Restore, Save, StopRemoved
<1>2. /\ file' = file /\ packages' = packages
      /\ me'.journal = me.journal /\ me'.fresh = me.fresh /\ me'.touched = me.touched
      /\ me.errors => me'.errors
  BY <1>1, Frames, MindFrames, Applying
<1> QED
  BY <1>2, Applying DEF Orphans, Revivable, Calm

\* Where an undo puts services back.
LEMMA PuttingStep ==
    ASSUME AInv, [Next]_vars, op' = "apply", ~Begin
    PROVE  /\ pc' = "judge" => Calm'
           /\ Backed' => ~Calm'
           /\ (Backed' /\ ~me'.errors) => \A c \in Orphans' \cap Plan.wants : svc'[c].runs = Down
           /\ (pc' \in {"revive", "reenable"} /\ ~me'.errors) =>
                \A c \in Revivable' : svc'[c].runs = file'[c] \/ (pc' = "revive" /\ c \in me'.todo)
           /\ (pc' = "reenable" /\ me'.touched) =>
                \A c \in ToStop : svc'[c].runs = file'[c] \/ c \in me'.todo
           /\ pc' = "revive" => me'.todo \subseteq Revivable'
           /\ pc' = "reenable" => me'.todo \subseteq IF me'.touched THEN ToStop ELSE {}
<1>0. /\ Typed /\ ApplyMind /\ ApplyFiles /\ ApplyServices
      /\ op = "apply" /\ Plan' = Plan /\ me \in Minds /\ run \in Nat
      /\ Plan.wants \subseteq Components /\ ToStop' = ToStop
      /\ ToStop \cap Plan.wants = {} /\ ToStop \subseteq Components /\ ToStop \cap Packaged = {}
      /\ me.fresh \subseteq Plan.wants /\ ToStop \subseteq me.removal
  BY AtWork
<1>a. /\ Revivable \subseteq Plan.wants /\ Revivable \cap Orphans = {}
  BY DEF Revivable, Orphans
\* A step of the undo that is no step to the next stage.
<1>b. ASSUME pc \in {"again", "revive", "reenable"}
      PROVE  /\ ~Install /\ ~StopRemoved /\ ~Activate /\ ~Quieten /\ ~Commit
             /\ Revive => pc = "revive" /\ me.todo \subseteq Revivable
             /\ Reenable => pc = "reenable" /\ me.todo \subseteq IF me.touched THEN ToStop ELSE {}
  BY <1>0, <1>b DEF Install, StopRemoved, Activate, Quieten, Commit, Revive, Reenable, ApplyServices
<1>1. ASSUME pc' = "judge" PROVE Calm'
  <2>1. pc = "judge" \/ (Quieten /\ pc = "quieten")
    BY <1>1, EarlyMoves DEF Quieten
  <2>2. Calm
    BY <1>0, <1>1, <2>1 DEF ApplyServices, Quieten, Goto, Calm
  <2> QED
    BY <2>1, <2>2, PuttingKeeps DEF Putting
<1>2. ASSUME Backed' PROVE ~Calm'
  <2>1. Backed \/ (Quieten /\ pc = "quieten" /\ pc' = "again")
    BY <1>2, EarlyMoves DEF Backed, Quieten, Again, Revived
  <2>2. ~Calm
    BY <1>0, <2>1 DEF ApplyServices, Quieten, Goto, Calm
  <2> QED
    BY <2>1, <2>2, PuttingKeeps DEF Putting, Backed
<1>3. ASSUME Backed', ~me'.errors, NEW c \in Orphans' \cap Plan.wants PROVE svc'[c].runs = Down
  <2>1. Backed \/ (Quieten /\ pc = "quieten" /\ pc' = "again")
    BY <1>3, EarlyMoves DEF Backed, Quieten, Again, Revived
  <2>2. c \in Orphans /\ c \in Plan.wants /\ c \in Components /\ ~me.errors /\ c \in All
    BY <1>0, <1>3, <2>1, PuttingKeeps, Names DEF Putting, Backed
  <2>3. CASE Quieten
    <3>1. pc = "quieten" /\ pc' = "again"
      BY <2>1, <2>3 DEF Quieten, Backed
    <3>2. Disable(Orphans \cup ({"firewall"} \cap Plan.wants))
      BY <2>3, <3>1 DEF Quieten, Goto
    <3> QED
      BY <1>0, <1>3, <2>2, <3>2, Disabled
  <2>4. CASE Backed
    <3>1. svc[c].runs = Down
      BY <1>0, <2>2, <2>4 DEF ApplyServices
    <3> QED
      BY <1>0, <1>a, <1>b, <2>2, <2>4, <3>1, ServiceMoves DEF Backed
  <2> QED
    BY <2>1, <2>3, <2>4
<1>4. ASSUME pc' \in {"revive", "reenable"}, ~me'.errors, NEW c \in Revivable'
      PROVE  svc'[c].runs = file'[c] \/ (pc' = "revive" /\ c \in me'.todo)
  <2>1. pc \in {"again", "revive", "reenable"}
    BY <1>4, EarlyMoves DEF Again, Revived
  <2>2. /\ c \in Revivable /\ c \in Plan.wants /\ c \in Components /\ c \in All /\ ~me.errors
        /\ file' = file
    BY <1>0, <1>4, <1>a, <2>1, PuttingKeeps, Names DEF Putting
  <2>3. CASE Again
    BY <1>0, <2>2, <2>3 DEF Again, Goto, Minds
  <2>4. CASE pc = "revive"
    <3>1. svc[c].runs = file[c] \/ c \in me.todo
      BY <1>0, <2>2, <2>4 DEF ApplyServices
    <3>2. CASE Revived
      BY <2>2, <3>1, <3>2 DEF Revived, world
    <3>3. CASE Revive
      <4>1. PICK d \in me.todo :
               \/ Start(d, TRUE) /\ me' = [me EXCEPT !.todo = @ \ {d}]
               \/ StartFails(d) /\ me' = [me EXCEPT !.todo = {}, !.errors = TRUE]
        BY <3>3 DEF Revive
      <4>2. me' # [me EXCEPT !.todo = {}, !.errors = TRUE]
        BY <1>0, <1>4 DEF Minds
      <4>3. Start(d, TRUE) /\ me'.todo = me.todo \ {d} /\ d \in Components /\ pc' = "revive"
        BY <1>0, <2>4, <3>3, <4>1, <4>2 DEF Minds, Revive
      <4> QED
        BY <1>0, <2>2, <3>1, <4>3, Started
    <3>4. CASE ~Revived /\ ~Revive
      <4>1. me'.todo = me.todo /\ pc' = "revive"
        BY <1>4, <1>b, <2>4, <3>4, EarlyMoves, MindFrames, Applying DEF Again, Reenable
      <4> QED
        BY <1>b, <2>2, <2>4, <3>1, <3>4, <4>1, ServiceMoves DEF Reenable
    <3> QED
      BY <3>2, <3>3, <3>4
  <2>5. CASE pc = "reenable"
    <3>1. svc[c].runs = file[c]
      BY <1>0, <2>2, <2>5 DEF ApplyServices
    <3> QED
      BY <1>0, <1>b, <2>2, <2>5, <3>1, ServiceMoves DEF Revive
  <2> QED
    BY <1>4, <2>1, <2>3, <2>4, <2>5, EarlyMoves DEF Revived
<1>5. ASSUME pc' = "reenable", me'.touched, NEW c \in ToStop PROVE svc'[c].runs = file'[c] \/ c \in me'.todo
  <2>1. Revived \/ pc = "reenable"
    BY <1>5, EarlyMoves
  <2>2. /\ c \in Components /\ c \in All /\ c \notin Plan.wants /\ c \notin Packaged /\ c \in me.removal
        /\ pc \in {"revive", "reenable"} /\ file' = file /\ me.touched
    BY <1>0, <1>5, <2>1, PuttingKeeps, Names DEF Putting, Revived
  <2>3. CASE Revived
    <3>1. file[c] = was.file[c] /\ was.file[c] # Absent
      BY <1>0, <2>2, FilesLeft DEF Putting, ApplyMind
    <3>2. me'.todo = {d \in ToStop : HasUnit(d)}
      BY <1>0, <2>2, <2>3 DEF Revived, Minds
    <3> QED
      BY <2>2, <3>1, <3>2 DEF HasUnit
  <2>4. CASE pc = "reenable"
    <3>1. svc[c].runs = file[c] \/ c \in me.todo
      BY <1>0, <2>2, <2>4 DEF ApplyServices
    <3>2. CASE Reenable
      <4>1. PICK d \in me.todo : Start(d, TRUE) /\ me' = [me EXCEPT !.todo = @ \ {d}]
        BY <1>5, <3>2 DEF Reenable, End, Goto
      <4>2. me'.todo = me.todo \ {d} /\ d \in Components
        BY <1>0, <4>1 DEF Minds
      <4> QED
        BY <1>0, <2>2, <3>1, <4>1, <4>2, Started
    <3>3. CASE ~Reenable
      <4>1. me'.todo = me.todo
        BY <1>b, <2>4, <3>3, MindFrames, Applying DEF Again, Revive, Revived
      <4> QED
        BY <1>b, <2>2, <2>4, <3>1, <3>3, <4>1, ServiceMoves DEF Revive
    <3> QED
      BY <3>2, <3>3
  <2> QED
    BY <2>1, <2>3, <2>4
<1>6. ASSUME pc' = "revive" PROVE me'.todo \subseteq Revivable'
  <2>1. pc = "revive" \/ Again
    BY <1>6, EarlyMoves
  <2>2. Revivable' = Revivable
    BY <2>1, PuttingKeeps DEF Putting, Again
  <2>3. CASE Again
    BY <1>0, <2>2, <2>3 DEF Again, Minds
  <2>4. CASE pc = "revive"
    <3>1. me.todo \subseteq Revivable
      BY <1>0, <2>4 DEF ApplyServices
    <3>2. me'.todo = me.todo \/ Revive
      <4>1. ~Commit /\ ~Activate /\ ~Again /\ ~Revived /\ ~Reenable
        BY <1>6, <1>b, <2>4 DEF Again, Revived, Reenable, Goto
      <4> QED
        BY <4>1, MindFrames, Applying
    <3>3. Revive => me'.todo \subseteq me.todo
      <4>1. ASSUME NEW c \in me.todo, me' = [me EXCEPT !.todo = @ \ {c}] PROVE me'.todo \subseteq me.todo
        BY <1>0, <4>1 DEF Minds
      <4>2. me' = [me EXCEPT !.todo = {}, !.errors = TRUE] => me'.todo = {}
        BY <1>0 DEF Minds
      <4> QED
        BY <4>1, <4>2 DEF Revive
    <3> QED
      BY <2>2, <3>1, <3>2, <3>3
  <2> QED
    BY <2>1, <2>3, <2>4
<1>7. ASSUME pc' = "reenable" PROVE me'.todo \subseteq IF me'.touched THEN ToStop ELSE {}
  <2>1. pc = "reenable" \/ (Revived /\ pc = "revive")
    BY <1>7, EarlyMoves DEF Revived
  <2>2. me'.touched = me.touched
    BY <2>1, PuttingKeeps DEF Putting
  <2>3. CASE Revived
    BY <1>0, <2>2, <2>3 DEF Revived, Minds
  <2>4. CASE pc = "reenable"
    <3>1. me.todo \subseteq IF me.touched THEN ToStop ELSE {}
      BY <1>0, <2>4 DEF ApplyServices
    <3>2. me'.todo = me.todo \/ Reenable
      BY <1>b, <2>4, MindFrames, Applying DEF Again, Revived, Revive
    <3>3. Reenable => me'.todo \subseteq me.todo
      BY <1>0 DEF Reenable, Minds
    <3> QED
      BY <2>2, <3>1, <3>2, <3>3
  <2> QED
    BY <2>1, <2>3, <2>4
<1> QED
  BY <1>1, <1>2, <1>3, <1>4, <1>5, <1>6, <1>7

\* What an undo leaves when it reports success.
LEMMA WholeStep ==
    ASSUME AInv, [Next]_vars, op' = "apply", ~Begin, Whole'
    PROVE  \A c \in Components : svc'[c].runs # run /\ Goes(c)'
<1>0. /\ Typed /\ ApplyMind /\ ApplyFiles /\ ApplyServices /\ ApplyPanel
      /\ op = "apply" /\ Plan' = Plan /\ was' = was /\ me \in Minds /\ run \in Nat /\ run > 0
      /\ Plan.wants \subseteq Components /\ me.fresh \subseteq Plan.wants
      /\ ToStop \cap Plan.wants = {} /\ ToStop \subseteq Components
  BY AtWork, Applying
<1> SUFFICES ASSUME NEW c \in Components PROVE svc'[c].runs # run /\ Goes(c)'
  OBVIOUS
<1>a. c # "panel" /\ svc[c].runs \in Int /\ file[c] \in Int
  BY <1>0, Names DEF Typed, Services
\* Its files are those of before, and it did not run without any.
<1>b. ASSUME pc \in Putting \/ Whole, c \notin me.fresh PROVE file[c] = was.file[c] /\ file[c] # run
  BY <1>0, <1>b DEF ApplyFiles
<1>c. c \in me.fresh => ~Ran(was, c)
  BY <1>0 DEF ApplyMind, Ran
<1>d. ASSUME svc'[c].runs # run, ~Ran(was, c) \/ svc'[c].runs = was.file[c]
      PROVE  svc'[c].runs # run /\ Goes(c)'
  BY <1>0, <1>d DEF Goes, Ran
<1>1. CASE Judge /\ pc \in {"judge", "reenable"}
  <2>1. /\ UNCHANGED svc /\ ~me.errors /\ pc \in Putting
        /\ pc = "judge" \/ (pc = "reenable" /\ me.todo = {})
    BY <1>1 DEF Judge, End, Whole, world, Putting
  <2>2. CASE pc = "judge"
    BY <1>0, <1>a, <1>d, <2>1, <2>2 DEF ApplyServices, Calm, Goes
  <2>3. CASE pc = "reenable" /\ c \in Revivable
    <3>1. svc[c].runs = file[c] /\ c \notin me.fresh
      BY <1>0, <2>1, <2>3 DEF ApplyServices, Revivable
    <3> QED
      BY <1>b, <1>d, <2>1, <3>1
  <2>4. CASE pc = "reenable" /\ c \in Plan.wants \ Revivable
    <3>1. c \in Orphans /\ (c \in me.fresh \/ (c \in Owned /\ file[c] = Absent))
      BY <2>4 DEF Revivable, Orphans
    <3>2. svc[c].runs = Down
      BY <1>0, <2>1, <2>4, <3>1 DEF ApplyServices, Backed
    <3>3. ~Ran(was, c)
      BY <1>0, <1>b, <1>c, <2>1, <3>1, NotRanAbsent DEF Owned
    <3> QED
      BY <1>0, <1>d, <2>1, <3>2, <3>3 DEF Down
  <2>5. CASE pc = "reenable" /\ c \in ToStop /\ me.touched
    <3>1. svc[c].runs = file[c] /\ c \notin me.fresh
      BY <1>0, <2>1, <2>5 DEF ApplyServices
    <3> QED
      BY <1>b, <1>d, <2>1, <3>1
  <2>6. CASE pc = "reenable" /\ c \notin Plan.wants /\ (c \in ToStop => ~me.touched)
    <3>1. Goes(c)
      BY <1>0, <2>6 DEF ApplyServices
    <3>2. svc[c].runs # run
      <4>1. RunsOk(svc, run) /\ ~Made(run, c)
        BY <1>0, <1>a, <2>6 DEF AInv, World, Made, Plan
      <4> QED
        BY <1>0, <4>1 DEF RunsOk, Wrote, Down, Absent
    <3> QED
      BY <1>d, <2>1, <3>1, <3>2 DEF Goes
  <2> QED
    BY <1>0, <2>1, <2>2, <2>3, <2>4, <2>5, <2>6
<1>2. CASE Whole /\ ~Judge
  <2>1. svc[c].runs # run /\ Goes(c)
    BY <1>0, <1>2 DEF ApplyServices
  <2>2. svc'[c].runs = svc[c].runs \/ svc'[c].runs = file[c]
    BY <1>2, ServiceMoves
    DEF Whole, Install, StopRemoved, Activate, Revive, Reenable, RunHook, Quieten
  <2>3. file[c] # run /\ (c \notin me.fresh => file[c] = was.file[c])
    BY <1>0, <1>2 DEF ApplyFiles
  <2> QED
    BY <1>c, <1>d, <2>1, <2>2, <2>3 DEF Goes
<1> QED
  BY <1>1, <1>2, StageMoves DEF Judge, Whole, Putting

LEMMA ApplyServicesStep ==
    ASSUME AInv, [Next]_vars, op' = "apply", ~Begin
    PROVE  ApplyServices'
<1>1. run' = run /\ Plan' = Plan /\ ToStop' = ToStop
  BY AtWork
<1>2. Whole' => \A c \in Components : svc'[c].runs # run /\ Goes(c)'
  BY WholeStep
<1> QED
  BY <1>1, <1>2, GoingStep, PuttingStep DEF ApplyServices
-------------------------------------------------------------------------------
(* A rollback at work, or ended. *)

LEMMA RollbackBegins == ASSUME AInv, Rollback PROVE RollbackInv'
<1>0. /\ Typed /\ state \in States /\ StateOk(state, run) /\ state.run # 0 /\ FileOk(file, run)
      /\ pc' = "unpublishOld" /\ backups' = backups
  BY DEF AInv, Typed, World, Rollback, Goto
<1>1. /\ state.run \in Runs /\ state.run \in Nat /\ 0 < state.run
      /\ Plans[state.run].kind = "apply" /\ state.wants = Plans[state.run].wants
      /\ backups[state.run].was \in Moments /\ MomentOk(backups[state.run].was, state.run - 1)
      /\ state.wants \subseteq backups[state.run].entries
  BY <1>0, LastRun
<1>2. /\ me'.before = Saved /\ me'.published = state.published /\ me'.fresh = state.fresh
  <2>1. Blank \in Minds /\ Blank.before = Saved
    BY <1>0, BlankTyped DEF Blank
  <2> QED
    BY <2>1 DEF Rollback, Minds
<1>3. was' = Saved /\ Saved.state = state
  BY <1>2 DEF was, Saved
<1>4. Undone' = backups[state.run]
  BY <1>0, <1>2, <1>3 DEF Undone
<1>5. /\ \A c \in Components : file'[c] = IF c \in backups[state.run].entries
                                          THEN backups[state.run].was.file[c] ELSE file[c]
      /\ state' = backups[state.run].was.state
  BY DEF Rollback
<1>6. ASSUME NEW c \in Components PROVE file'[c] # state.run
  <2>1. backups[state.run].was.file[c] # state.run
    BY <1>1 DEF MomentOk, FileOk, Wrote, Absent
  <2>2. file[c] = state.run => c \in state.wants
    <3> SUFFICES ASSUME file[c] = state.run PROVE c \in Plans[state.run].wants
      BY <1>1
    <3>1. Wrote(state.run, c, run)
      <4>1. file[c] \in {0, Absent} \/ Wrote(file[c], c, run)
        BY <1>0 DEF FileOk
      <4>2. file[c] \notin {0, Absent}
        BY <1>1 DEF Absent
      <4> QED
        BY <4>1, <4>2
    <3> QED
      BY <3>1, Names DEF Wrote, Made
  <2> QED
    BY <1>1, <1>5, <2>1, <2>2
<1> QED
  BY <1>0, <1>1, <1>2, <1>3, <1>4, <1>5, <1>6 DEF RollbackInv, RollingBack, Whole

\* The steps of a rollback that has begun, and of the others meanwhile.
LEMMA RollingOn ==
    ASSUME AInv, [Next]_vars, op' = "rollback", ~Rollback
    PROVE  /\ op = "rollback" /\ pc \in {"idle"} \cup RollingBack
           /\ file' = file /\ state' = state /\ run' = run /\ Undone' = Undone /\ was' = was
           /\ me'.published = me.published /\ me'.fresh = me.fresh
           /\ StopsOld' = StopsOld /\ StartsOld' = StartsOld /\ Kept' = Kept
           /\ \/ UNCHANGED vars
              \/ UnpublishOld \/ QuietenOld \/ AgainOld \/ ReviveOld \/ JudgeOld
              \/ Renew \/ AcmeHook \/ EditPanel
<1>1. ~Begin /\ ~BeginRenewal
  BY DEF Begin, BeginRenewal
<1>2. op = "rollback"
  <2>1. CASE UNCHANGED vars
    BY <2>1 DEF vars
  <2>2. CASE Forwards
    BY <2>2 DEF Forwards, Publish, RestartPanel, Install, Stage, StopRemoved, Commit, Activate,
                Activated, Health, Save, Report, Raise, Register, WriteHook, MatchRecord, WriteRecord, RunHook, Confirm
  <2>3. CASE Backwards
    BY <2>3 DEF Backwards, Unregister, PutBack, PutHookBack, Restore, Unpublish, Quieten, Again, Revive, Revived, Reenable,
                Judge, UnpublishOld, QuietenOld, AgainOld, ReviveOld, JudgeOld
  <2>4. CASE Renew \/ AcmeHook \/ EditPanel
    BY <2>4 DEF Renew, AcmeHook, EditPanel
  <2> QED
    BY <1>1, <2>1, <2>2, <2>3, <2>4 DEF Next
<1>3. pc \in {"idle"} \cup RollingBack
  BY <1>2 DEF AInv, Stages
<1>4. ~Forwards
  BY <1>3 DEF RollingBack, Forwards, Publish, RestartPanel, Install, Stage, StopRemoved, Commit, Activate,
              Activated, Health, Save, Report, Raise, Register, WriteHook, MatchRecord, WriteRecord, RunHook, Confirm
<1>5. /\ ~Unregister /\ ~PutBack /\ ~Restore /\ ~Unpublish /\ ~Quieten /\ ~Again /\ ~Revive /\ ~Revived /\ ~Reenable
      /\ ~Judge
  BY <1>3 DEF RollingBack, Unregister, PutBack, PutHookBack, Restore, Unpublish, Quieten, Again, Revive, Revived, Reenable, Judge
<1>6. \/ UNCHANGED vars
      \/ UnpublishOld \/ QuietenOld \/ AgainOld \/ ReviveOld \/ JudgeOld
      \/ Renew \/ AcmeHook \/ EditPanel
  BY <1>1, <1>4, <1>5 DEF Next, Backwards
<1>7. file' = file /\ state' = state /\ run' = run /\ backups' = backups
  BY <1>1, <1>4, <1>5, Frames DEF Forwards
<1>8. me'.before = me.before /\ me'.published = me.published /\ me'.fresh = me.fresh
  BY <1>1, <1>4, MindFrames DEF Forwards
<1>9. was' = was /\ Undone' = Undone
  BY <1>7, <1>8 DEF was, Undone
<1>10. Kept' = Kept
  BY <1>9 DEF Kept
<1> QED
  BY <1>2, <1>3, <1>6, <1>7, <1>8, <1>9, <1>10 DEF StopsOld, StartsOld

\* Where a rollback goes from where it is.
LEMMA RollbackMoves ==
    ASSUME AInv, [Next]_vars, op' = "rollback", ~Rollback
    PROVE  /\ pc' = "unpublishOld" => pc = "unpublishOld"
           /\ pc' = "quietenOld" => pc = "quietenOld" \/ UnpublishOld
           /\ pc' = "againOld" => (pc = "againOld" /\ me'.errors = me.errors) \/ QuietenOld
           /\ pc' = "reviveOld" => AgainOld \/ (pc = "reviveOld" /\ (ReviveOld \/ me' = me))
           /\ Whole' => (Whole /\ me' = me) \/ (JudgeOld /\ me' = me)
           /\ me.errors => me'.errors
<1> USE DEF Goto, End, Whole
<1>0. me \in Minds
  BY DEF AInv, Typed
<1>1. CASE UNCHANGED vars
  BY <1>1 DEF vars
<1>2. CASE UnpublishOld
  BY <1>2 DEF UnpublishOld
<1>3. CASE QuietenOld
  <2>1. me.errors => me'.errors
    BY <1>3, MindFrames DEF QuietenOld, Rollback, Begin, BeginRenewal
  <2> QED
    BY <1>3, <2>1 DEF QuietenOld
<1>4. CASE AgainOld
  BY <1>0, <1>4 DEF AgainOld, Minds
<1>5. CASE ReviveOld
  BY <1>0, <1>5 DEF ReviveOld, Minds
<1>6. CASE JudgeOld
  BY <1>6 DEF JudgeOld
<1>7. CASE Renew \/ AcmeHook \/ EditPanel
  BY <1>7 DEF Renew, AcmeHook, EditPanel
<1> QED
  BY <1>1, <1>2, <1>3, <1>4, <1>5, <1>6, <1>7, RollingOn

\* What a rollback knows of the run that it undoes.
LEMMA UndoneRun ==
    ASSUME AInv, op = "rollback"
    PROVE  /\ was.state \in States /\ was.state.run \in Runs /\ was.state.run \in Nat /\ 0 < was.state.run
           /\ Plans[was.state.run].kind = "apply" /\ was.state.wants = Plans[was.state.run].wants
           /\ Undone.was \in Moments /\ MomentOk(Undone.was, was.state.run - 1)
           /\ was.state.wants \subseteq Undone.entries
           /\ Undone.entries \subseteq was.state.wants \cup Removable \cup {"hook"}
           /\ Undone.entries \subseteq Components \cup {"hook"}
           /\ Receipts(was.state.published, was.state.run)
           /\ \A c \in was.state.fresh : Undone.was.svc[c].runs = Down
           /\ was.state.fresh \subseteq Packaged
<1>1. was.state.run \in Runs /\ was.state.run # 0
  <2>1. was.state.run \in Runs
    BY DEF AInv, RollbackInv
  <2> QED
    BY <2>1, ConstantsAssumption DEF Runs
<1>2. was.state \in States /\ StateOk(was.state, run) /\ FreshOk(was.state)
  BY DEF AInv, Typed, Mind, Minds, Moments, MomentOk, was
<1>3. was.state.fresh \subseteq Packaged
  BY <1>2 DEF States
<1> QED
  BY <1>1, <1>2, <1>3, LastRun DEF Undone, was, StateOk, FreshOk, AInv, Typed

\* The published field is no longer that of the run, and the panel shows what it holds.
LEMMA RollbackPanel ==
    ASSUME AInv, [Next]_vars, op' = "rollback", ~Rollback,
           pc' \in RollingBack \ {"unpublishOld"} \/ Whole'
    PROVE  db' # was.state.run /\ (me.published # {} => svc'["panel"].runs = db')
<1> DEFINE k == was.state.run
<1>0. /\ Typed /\ k \in Runs /\ k \in Nat /\ 0 < k /\ Receipts(me.published, k)
      /\ me.published \in SUBSET Int /\ DbOk(db, run) /\ db \in Int
  BY RollingOn, UndoneRun DEF AInv, RollbackInv, World, Typed, Minds
<1> HIDE DEF k
<1>1. CASE UnpublishOld
  <2>1. CASE me.published = {}
    <3>1. ~Plans[k].publishes /\ db' = db
      BY <1>0, <1>1, <2>1 DEF Receipts, UnpublishOld
    <3>2. db # k
      BY <1>0, <3>1 DEF DbOk, Wrote, Made, PanelEdit
    <3> QED
      BY <2>1, <3>1, <3>2 DEF k
  <2>2. CASE me.published # {}
    <3>1. PICK d \in Int : DbOk(d, k - 1) /\ me.published = {d}
      BY <1>0, <2>2 DEF Receipts
    <3>2. /\ db' = CHOOSE v \in me.published : TRUE
          /\ svc' = [svc EXCEPT !["panel"].runs = db', !["panel"].cert = cert]
      <4>1. pc' # "idle"
        BY <1>1 DEF UnpublishOld, End, Goto, Whole, RollingBack
      <4> QED
        BY <1>1, <2>2, <4>1 DEF UnpublishOld, End, Goto
    <3>3. db' = d
      BY <3>1, <3>2
    <3>4. d # k
      BY <1>0, <3>1 DEF DbOk, Wrote, PanelEdit
    <3>5. svc'["panel"].runs = db'
      BY <1>0, <3>2, PanelRuns
    <3> QED
      BY <3>3, <3>4, <3>5 DEF k
  <2> QED
    BY <2>1, <2>2
<1>2. CASE EditPanel
  <2>1. db' = PanelEdit /\ svc' = [svc EXCEPT !["panel"].runs = db']
    BY <1>2 DEF EditPanel
  <2>2. svc'["panel"].runs = db'
    BY <1>0, <2>1, PanelRuns
  <2> QED
    BY <1>0, <2>1, <2>2 DEF k, PanelEdit
<1>3. CASE ~UnpublishOld /\ ~EditPanel
  <2>1. pc \in RollingBack \ {"unpublishOld"} \/ Whole
    BY <1>3, RollbackMoves DEF RollingBack, QuietenOld, AgainOld, JudgeOld
  <2>2. db # was.state.run /\ (me.published # {} => svc["panel"].runs = db) /\ db' = db
    BY <1>3, <2>1, RollingOn, Frames DEF AInv, RollbackInv, Publish, Unpublish, RollingBack, Whole
  <2>3. svc'["panel"].runs \in {svc["panel"].runs, db}
    <3>1. CASE UNCHANGED svc
      BY <3>1
    <3>2. CASE QuietenOld
      <4>1. "panel" \notin StopsOld
        BY <1>0, Names DEF Typed, Minds, StopsOld
      <4>2. Disable(StopsOld)
        BY <3>2 DEF QuietenOld, StopsOld
      <4> QED
        BY <1>0, <4>1, <4>2, Disabled, Names
    <3>3. CASE ReviveOld
      <4>1. PICK d \in me.todo, e \in BOOLEAN : Start(d, e) \/ StartFails(d)
        BY <3>3 DEF ReviveOld
      <4>2. d \in Components /\ d # "panel" /\ "panel" \in All
        BY <1>0, Names DEF Typed, Minds
      <4> QED
        BY <1>0, <4>1, <4>2, Started, StartFailed
    <3>4. CASE AcmeHook
      BY <1>0, <3>4, Reloads DEF AcmeHook
    <3> QED
      BY <1>3, <3>1, <3>2, <3>3, <3>4, RollingOn DEF vars, world, AgainOld, JudgeOld, Renew
  <2> QED
    BY <2>2, <2>3
<1> QED
  BY <1>1, <1>2, <1>3

\* What a rollback does to the service of a component, but where it stops and starts it.
LEMMA RollbackRuns ==
    ASSUME AInv, [Next]_vars, op' = "rollback", ~Rollback, ~QuietenOld, ~ReviveOld, NEW c \in Components
    PROVE  \/ svc'[c].runs = svc[c].runs
           \/ svc[c].runs # Down /\ svc'[c].runs = file[c]
<1>0. Typed
  BY DEF AInv
<1>1. CASE AcmeHook
  BY <1>0, <1>1, Reloads DEF AcmeHook
<1>2. CASE UnpublishOld \/ EditPanel
  BY <1>0, <1>2, PanelRuns DEF UnpublishOld, EditPanel
<1> QED
  BY <1>1, <1>2, RollingOn DEF vars, world, AgainOld, JudgeOld, Renew

LEMMA RollbackServices ==
    ASSUME AInv, [Next]_vars, op' = "rollback", ~Rollback
    PROVE  /\ ((pc' \in {"againOld", "reviveOld"} \/ Whole') /\ ~me'.errors) =>
                \A c \in StopsOld \ (IF pc' = "againOld" THEN {} ELSE StartsOld) : svc'[c].runs = Down
           /\ ((pc' = "reviveOld" \/ Whole') /\ ~me'.errors) =>
                \A c \in StartsOld : svc'[c].runs = file[c] \/ (pc' = "reviveOld" /\ c \in me'.todo)
           /\ pc' = "reviveOld" => me'.todo \subseteq StartsOld
<1>0. /\ Typed /\ me \in Minds /\ op = "rollback" /\ RollbackInv
      /\ StopsOld \subseteq Components /\ StartsOld \subseteq Components /\ Components \subseteq All
  <2>1. Typed /\ me \in Minds /\ op = "rollback" /\ RollbackInv
    BY RollingOn DEF AInv, Typed
  <2>2. StopsOld \subseteq Components
    BY <2>1, UndoneRun, Names DEF StopsOld, Minds
  <2>3. StartsOld \subseteq Components
    BY <2>1, UndoneRun, Names DEF StartsOld, Kept, States
  <2> QED
    BY <2>1, <2>2, <2>3, Names
<1>1. ASSUME pc' \in {"againOld", "reviveOld"} \/ Whole', ~me'.errors,
             NEW c \in StopsOld, pc' = "againOld" \/ c \notin StartsOld
      PROVE  svc'[c].runs = Down
  <2>1. CASE QuietenOld
    <3>1. Disable(StopsOld)
      BY <2>1 DEF QuietenOld, StopsOld
    <3> QED
      BY <1>0, <1>1, <3>1, Disabled
  <2>2. CASE ~QuietenOld
    <3>1. svc[c].runs = Down
      <4>1. \/ pc' = "againOld" /\ pc = "againOld"
            \/ c \notin StartsOld /\ (pc \in {"againOld", "reviveOld"} \/ Whole)
        BY <1>1, <2>2, RollbackMoves DEF AgainOld, JudgeOld
      <4>2. ~me.errors
        BY <1>1, RollbackMoves
      <4> QED
        BY <1>0, <4>1, <4>2 DEF RollbackInv
    <3>2. CASE ReviveOld
      <4>1. PICK d \in me.todo, e \in BOOLEAN : (Start(d, e) \/ StartFails(d)) /\ pc = "reviveOld"
        BY <3>2 DEF ReviveOld
      <4>2. d \in StartsOld
        BY <1>0, <4>1 DEF RollbackInv
      <4>3. d # c /\ d \in Components
        BY <1>0, <1>1, <3>2, <4>1, <4>2 DEF ReviveOld, End, Goto, Whole
      <4> QED
        BY <1>0, <3>1, <4>1, <4>3, Started, StartFailed
    <3> QED
      BY <1>0, <2>2, <3>1, <3>2, RollbackRuns
  <2> QED
    BY <2>1, <2>2
<1>2. ASSUME pc' = "reviveOld" \/ Whole', ~me'.errors, NEW c \in StartsOld
      PROVE  svc'[c].runs = file[c] \/ (pc' = "reviveOld" /\ c \in me'.todo)
  <2>1. CASE AgainOld
    BY <1>0, <1>2, <2>1 DEF AgainOld, StartsOld, was, Minds, Goto
  <2>2. CASE ~AgainOld
    <3>1. ~me.errors /\ (pc = "reviveOld" \/ Whole) /\ ~QuietenOld
      BY <1>2, <2>2, RollbackMoves DEF JudgeOld, QuietenOld, Whole
    <3>2. svc[c].runs = file[c] \/ (pc = "reviveOld" /\ c \in me.todo)
      BY <1>0, <1>2, <3>1 DEF RollbackInv
    <3>3. CASE ReviveOld
      <4>1. PICK d \in me.todo, e \in BOOLEAN :
               Start(d, e) /\ me' = [me EXCEPT !.todo = @ \ {d}] /\ pc' = pc /\ pc = "reviveOld"
        BY <1>2, <3>3 DEF ReviveOld, End, Goto, Whole
      <4>2. d \in Components /\ me'.todo = me.todo \ {d}
        BY <1>0, <4>1 DEF Minds
      <4> QED
        BY <1>0, <1>2, <3>2, <4>1, <4>2, Started
    <3>4. CASE JudgeOld
      BY <3>2, <3>4 DEF JudgeOld, world
    <3>5. CASE ~ReviveOld /\ ~JudgeOld
      <4>1. me' = me /\ (pc = "reviveOld" => pc' = "reviveOld")
        BY <1>2, <2>2, <3>1, <3>5, RollbackMoves DEF Whole
      <4> QED
        BY <1>0, <3>1, <3>2, <3>5, <4>1, RollbackRuns
    <3> QED
      BY <3>3, <3>4, <3>5
  <2> QED
    BY <2>1, <2>2
<1>3. ASSUME pc' = "reviveOld" PROVE me'.todo \subseteq StartsOld
  <2>1. CASE AgainOld
    BY <1>0, <2>1 DEF AgainOld, StartsOld, was, Minds
  <2>2. CASE ~AgainOld
    <3>1. me.todo \subseteq StartsOld
      BY <1>0, <1>3, <2>2, RollbackMoves DEF RollbackInv
    <3>2. me'.todo \subseteq me.todo
      BY <1>0, <1>3, <2>2, RollbackMoves DEF ReviveOld, Minds
    <3> QED
      BY <3>1, <3>2
  <2> QED
    BY <2>1, <2>2
<1> QED
  BY <1>1, <1>2, <1>3

LEMMA RollbackStep == AInv /\ [Next]_vars => RollbackInv'
<1> SUFFICES ASSUME AInv, [Next]_vars, op' = "rollback", ~Rollback PROVE RollbackInv'
  BY RollbackBegins DEF RollbackInv
<1>0. /\ op = "rollback" /\ RollbackInv /\ file' = file /\ state' = state /\ Undone' = Undone /\ was' = was
      /\ me'.published = me.published /\ me'.fresh = me.fresh
      /\ StopsOld' = StopsOld /\ StartsOld' = StartsOld
  BY RollingOn DEF AInv
<1>1. (pc' \in RollingBack \/ Whole') => (pc \in RollingBack \/ Whole)
  BY RollbackMoves DEF RollingBack, UnpublishOld, QuietenOld, AgainOld, JudgeOld
<1>2. Whole' => ~me'.errors
  BY <1>0, RollbackMoves DEF RollbackInv, JudgeOld, End, Whole
<1> QED
  BY <1>0, <1>1, <1>2, RollbackPanel, RollbackServices DEF RollbackInv
-------------------------------------------------------------------------------
(* The invariant, and what it says of a run that has ended. *)

LEMMA ApplyStep == AInv /\ [Next]_vars => ApplyInv'
<1> SUFFICES ASSUME AInv, [Next]_vars, op' = "apply" PROVE ApplyInv'
  BY DEF ApplyInv
<1>1. CASE Begin
  BY <1>1, BeginApply DEF ApplyInv
<1>2. CASE ~Begin
  BY <1>2, ApplyMindStep, ApplyFilesStep, ApplyPanelStep, ApplyServicesStep, ApplyForwardsStep
  DEF ApplyInv
<1> QED
  BY <1>1, <1>2

LEMMA InitAInv == Init => AInv
<1> DEFINE Still(c) == /\ svc[c].runs \in {0, Down} \/ (c = "nginx" /\ svc[c].runs = Absent)
                       /\ c \notin packages => svc[c].runs = Down
<1> SUFFICES ASSUME Init PROVE AInv
  OBVIOUS
<1>1. Typed
  BY InitTyped
<1>2. /\ run = 0 /\ db = 0 /\ state = NoState /\ op = "none" /\ pc = "idle" /\ verdict = "none"
      /\ me = Blank /\ packages \subseteq Packaged
      /\ \A c \in Components : file[c] \in {0, Absent}
      /\ svc["panel"].runs = 0
      /\ \A c \in Components : Still(c)
  <2>1. /\ packages \subseteq Packaged
        /\ file = [c \in Components |-> IF c = "haproxy" /\ c \in packages THEN 0 ELSE Absent]
        /\ svc = [c \in All |-> [on |-> c \in packages \cup {"panel"}, cert |-> 0,
                             runs |-> IF c = "panel" THEN 0
                                      ELSE IF c \in packages THEN file[c] ELSE Down]]
    BY ConstantsAssumption DEF Init
  <2>2. \A c \in Components : file[c] \in {0, Absent}
    BY <2>1
  <2>3. /\ svc["panel"].runs = 0
        /\ \A c \in Components : Still(c)
    <3>1. "panel" \in All /\ Components \subseteq All /\ "panel" \notin Components
      BY Names
    <3>2. ASSUME NEW c \in Components
          PROVE  Still(c)
      <4>1. c = "haproxy" \/ c = "nginx" \/ c \notin packages
        BY <2>1 DEF Packaged
      <4> QED
        BY <2>1, <3>1, <3>2, <4>1
    <3> QED
      BY <2>1, <3>1, <3>2
  <2> QED
    BY <2>1, <2>2, <2>3 DEF Init
<1>3. FileOk(file, 0) /\ RunsOk(svc, 0) /\ DbOk(db, 0) /\ StateOk(NoState, 0) /\ FreshOk(NoState)
  BY <1>2 DEF FileOk, RunsOk, DbOk, StateOk, FreshOk, NoState
<1>4. MomentOk(Saved, 0) /\ Saved.state = NoState
  BY <1>2, <1>3 DEF Saved, MomentOk
<1>5. Mind
  BY <1>2, <1>3, <1>4 DEF Mind, Blank
<1>6. World
  BY <1>2, <1>3, Names DEF World
<1>7. Backups
  BY <1>2, ConstantsAssumption DEF Backups, Runs
<1> QED
  BY <1>1, <1>2, <1>5, <1>6, <1>7 DEF AInv, Stages, ApplyInv, RollbackInv

LEMMA TypesHold == AInv /\ IInv => TypeOK
<1> SUFFICES ASSUME AInv, IInv PROVE TypeOK
  OBVIOUS
<1>1. Typed /\ World /\ Stages
  BY DEF AInv
<1>2. \A c \in Components : file[c] \in Versions
  BY <1>1 DEF World, FileOk, Wrote, Made, Versions
<1>3. file \in [Components -> Versions]
  BY <1>1, <1>2 DEF Typed
<1>4. db \in Runs \cup {0, PanelEdit}
  BY <1>1 DEF World, DbOk, Wrote, Made
<1>5. \A c \in All : svc[c].runs \in Versions \cup {Down, PanelEdit}
  <2>1. svc["panel"].runs \in Versions \cup {PanelEdit}
    BY <1>1 DEF World, RunsOk, DbOk, Wrote, Made, Versions
  <2>2. \A c \in Components : svc[c].runs \in Versions \cup {Down}
    BY <1>1 DEF World, RunsOk, Wrote, Made, Versions
  <2> QED
    BY <2>1, <2>2 DEF All
<1>6. svc \in [All -> [on : BOOLEAN, runs : Versions \cup {Down, PanelEdit}, cert : 0 .. MaxRenewals]]
  BY <1>1, <1>5 DEF Typed, Services
<1>7. cert \in 0 .. MaxRenewals /\ record \in [hook : BOOLEAN, stamp : 0 .. MaxRenewals]
  BY <1>1, ConstantsAssumption DEF Typed, Records, IInv, Behind
<1>8. state.run \in 0 .. run /\ state.wants \subseteq Components
  BY <1>1 DEF Typed, World, StateOk, States
<1> QED
  BY <1>1, <1>3, <1>4, <1>6, <1>7, <1>8 DEF TypeOK, Typed, Stages, Minds

LEMMA SuccessIsComplete == AInv => Succeeded
<1> SUFFICES ASSUME AInv, verdict = "complete", op = "apply"
             PROVE  /\ state.run = run
                    /\ \A c \in Plan.wants : file[c] = run /\ svc[c].on /\ svc[c].runs = run
                    /\ \A c \in me.removal : /\ file[c] = Absent
                                             /\ c # "trusttunnel" => ~svc[c].on /\ ~Up(svc, c)
                    /\ Plan.hook => record.hook /\ hook = HookOf(Plan.wants)
  BY DEF Succeeded
<1>1. Done /\ ApplyForwards /\ ApplyMind
  BY DEF AInv, Stages, Done, ApplyInv
<1>2. \A c \in me.removal : c # "trusttunnel" => c \in ToStop
  BY <1>1 DEF ApplyMind, Removable, ToStop
<1> QED
  BY <1>1, <1>2 DEF ApplyForwards, Done, Up

LEMMA UndoneIsWhole == AInv => RolledBack
<1> SUFFICES ASSUME AInv, verdict = "rolledBack", op = "apply"
             PROVE  /\ \A c \in Components \ me.fresh : file[c] = me.before.file[c]
                    /\ hook = me.before.hook /\ state = me.before.state
                    /\ db \in {me.before.db, PanelEdit}
                    /\ record.hook = me.before.record.hook \/ clash
                    /\ \A c \in All : svc[c].runs # run
                    /\ \A c \in All : Ran(me.before, c) => svc[c].runs = Version(c)
  BY DEF RolledBack
<1>1. /\ Whole /\ ApplyMind /\ ApplyFiles /\ ApplyPanel /\ ApplyServices
      /\ RunsOk(svc, run) /\ run \in Runs /\ run \in Nat /\ run > 0 /\ Plan.publishes \in BOOLEAN
  BY PlanTyped DEF AInv, Stages, Whole, ApplyInv, World
<1>2. ASSUME NEW c \in Components
      PROVE  svc[c].runs # run /\ (Ran(was, c) => svc[c].runs = file[c])
  <2>1. svc[c].runs # run /\ Goes(c)
    BY <1>1 DEF ApplyServices
  <2>2. c \notin me.fresh => file[c] = was.file[c]
    BY <1>1 DEF ApplyFiles
  <2>3. c \in me.fresh => ~Ran(was, c)
    BY <1>1 DEF ApplyMind, Ran
  <2> QED
    BY <2>1, <2>2, <2>3 DEF Goes
<1>3. db \in {was.db, PanelEdit} /\ (Ran(was, "panel") => svc["panel"].runs = db)
  BY <1>1 DEF ApplyPanel
<1>4. svc["panel"].runs # run
  <2>1. CASE Plan.publishes
    <3>1. svc["panel"].runs = db
      BY <1>1, <2>1 DEF ApplyPanel
    <3>2. DbOk(was.db, run - 1) /\ was.db \in Int
      BY <1>1 DEF ApplyMind, MomentOk, AInv, Typed, Minds, Moments, was
    <3>3. was.db # run
      BY <1>1, <3>2 DEF DbOk, Wrote, PanelEdit
    <3> QED
      BY <1>1, <1>3, <3>1, <3>3 DEF PanelEdit
  <2>2. CASE ~Plan.publishes
    BY <1>1, <2>2 DEF RunsOk, DbOk, Wrote, Made, Plan, PanelEdit
  <2> QED
    BY <1>1, <2>1, <2>2
<1>5. (hook = was.hook /\ state = was.state) /\ (record.hook = was.record.hook \/ clash)
      /\ \A c \in Components \ me.fresh : file[c] = was.file[c]
  BY <1>1 DEF ApplyFiles
<1> QED
  BY <1>2, <1>3, <1>4, <1>5, Names DEF All, Version, was

LEMMA RollbackUndoes == AInv => RunUndone
<1> SUFFICES ASSUME AInv, verdict = "rolledBack", op = "rollback"
             PROVE  /\ \A c \in Undone.entries \cap Components : file[c] = Undone.was.file[c]
                    /\ state = Undone.was.state
                    /\ \A c \in All : svc[c].runs = me.before.state.run =>
                                         c = "trusttunnel" \/ (c = "haproxy" /\ file[c] = Absent)
                    /\ \A c \in (Undone.entries \cap Components) \ {"trusttunnel"} :
                         Ran(Undone.was, c) => svc[c].runs = Version(c)
                    /\ me.published # {} => svc["panel"].runs = db
  BY DEF RunUndone
<1> DEFINE k == was.state.run
<1>1. Whole /\ RollbackInv /\ RunsOk(svc, run)
  BY DEF AInv, Stages, Whole, World
<1>2. /\ \A c \in Undone.entries \cap Components : file[c] = Undone.was.file[c]
      /\ \A c \in Components : file[c] # k
      /\ state = Undone.was.state
      /\ db # k /\ (me.published # {} => svc["panel"].runs = db)
      /\ me.published = was.state.published /\ me.fresh = was.state.fresh
  BY <1>1 DEF RollbackInv, Whole
<1>3. /\ \A c \in StopsOld \ StartsOld : svc[c].runs = Down
      /\ \A c \in StartsOld : svc[c].runs = file[c]
  BY <1>1 DEF RollbackInv, Whole
<1>4. /\ k \in Nat /\ 0 < k /\ was.state.wants = Plans[k].wants
      /\ MomentOk(Undone.was, k - 1) /\ was.state.wants \subseteq Undone.entries
      /\ Undone.entries \subseteq was.state.wants \cup Removable \cup {"hook"}
      /\ Receipts(me.published, k)
      /\ \A c \in me.fresh : Undone.was.svc[c].runs = Down
      /\ me.fresh \subseteq Packaged
  BY <1>2, UndoneRun
<1> HIDE DEF k
\* What the run had started is stopped, or was started again.
<1>5. ASSUME NEW c \in Components, svc[c].runs = k
      PROVE  c = "trusttunnel" \/ (c = "haproxy" /\ file[c] = Absent)
  <2>1. c \in Plans[k].wants
    <3>1. Wrote(k, c, run)
      BY <1>1, <1>4, <1>5 DEF RunsOk, Down, Absent
    <3> QED
      BY <3>1, Names DEF Wrote, Made
  <2>2. c \notin StartsOld /\ c \notin StopsOld
    BY <1>2, <1>3, <1>4, <1>5 DEF Down
  <2>3. c \in {"haproxy", "nginx"} \ me.fresh => c = "haproxy" /\ file[c] = Absent
    BY <1>4, <2>1, <2>2 DEF StartsOld
  <2>4. c \notin me.fresh /\ c \notin {"firewall", "naive", "sidecar", "cloudflare"}
    BY <1>4, <1>5, <2>1, <2>2 DEF StartsOld, StopsOld
  <2> QED
    BY <2>3, <2>4, Names
<1>6. svc["panel"].runs # k
  <2>1. CASE me.published = {}
    <3>1. ~Plans[k].publishes
      BY <1>4, <2>1 DEF Receipts
    <3> QED
      BY <1>1, <1>4, <3>1 DEF RunsOk, DbOk, Wrote, Made, PanelEdit
  <2>2. CASE me.published # {}
    BY <1>2, <2>2
  <2> QED
    BY <2>1, <2>2
\* What ran before was not of a new package, and had its files.
<1>7. ASSUME NEW c \in (Undone.entries \cap Components) \ {"trusttunnel"}, Ran(Undone.was, c)
      PROVE  svc[c].runs = file[c]
  <2>1. c \notin me.fresh /\ Undone.was.svc[c].runs = Undone.was.file[c]
    BY <1>4, <1>7, Names DEF Ran
  <2>2. c = "nginx" \/ Undone.was.file[c] # Absent
    <3>1. RunsOk(Undone.was.svc, k - 1)
      BY <1>4 DEF MomentOk
    <3>2. Undone.was.svc[c].runs = Absent => c = "nginx"
      <4>1. ~Wrote(Absent, c, k - 1)
        BY ConstantsAssumption DEF Wrote, Made, Runs, Absent
      <4> QED
        BY <1>7, <3>1, <4>1 DEF RunsOk, Absent, Down
    <3> QED
      BY <2>1, <3>2
  <2>3. c = "nginx" \/ (c \in Kept /\ file[c] # Absent)
    BY <1>2, <2>2 DEF Kept
  <2>4. c \in StartsOld
    BY <1>4, <2>1, <2>3, Names DEF StartsOld, Removable
  <2> QED
    BY <1>3, <2>4
<1> QED
  BY <1>2, <1>5, <1>6, <1>7, Names DEF All, Version, was, k

LEMMA NothingHidden == AInv /\ IInv => NoRenewalHidden
<1> SUFFICES ASSUME AInv, IInv, verdict = "complete" PROVE ~Lost
  BY DEF NoRenewalHidden, Lost
<1>1. pc = "idle"
  BY DEF AInv, Stages
<1> QED
  BY <1>1 DEF IInv, Unlost

(***************************************************************************)
(* A run that reports success has done everything that it was asked to; a  *)
(* run that reports that it was undone has left nothing, and what ran      *)
(* before runs again with what is on the disk; and so for the rollback of  *)
(* a finished run, as far as its own files go, but for HAProxy without its *)
(* configuration and the backend of TrustTunnel.  And none that succeeds   *)
(* has overwritten a renewal.  Whatever the plans, the  *)
(* components and the packages installed before, wherever a step fails,    *)
(* acme.sh renews or the panel writes the field (_apply_with_probes,       *)
(* _reactivate_after_restore, _rollback_locked).                           *)
(***************************************************************************)
THEOREM RunInvariant == Spec => []Inv
<1>1. Init => AInv
  BY InitAInv
<1>2. AInv /\ [Next]_vars => AInv'
  BY TypedStep, WorldStep, MindStep, BackupsStep, StagesStep, ApplyStep, RollbackStep DEF AInv
<1>3. AInv /\ IInv => Inv
  BY TypesHold, SuccessIsComplete, UndoneIsWhole, RollbackUndoes, NothingHidden DEF Inv
<1> QED
  BY RecordBehind, <1>1, <1>2, <1>3, PTL DEF Spec

=============================================================================
