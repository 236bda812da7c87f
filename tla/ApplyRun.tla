------------------------------- MODULE ApplyRun -------------------------------
(***************************************************************************)
(* One run of the Engine over everything that it changes: the database of  *)
(* the panel, packages, files, services, the renewal record of acme.sh and *)
(* state.json, from the backup to the end or back again; the registration  *)
(* of the reload hook on its own; and the rollback of a finished run       *)
(* (engine.py, certificate_renewal.py, renderers.py, validation.py).       *)
(*                                                                         *)
(* What happens inside a step is in other modules: FileTransaction (the    *)
(* commit and the restore of files), Publication (the database), NaiveSync *)
(* (the copies).  Here a step works or raises, acme.sh renews between any  *)
(* two, and the panel may write the field that a run has published.        *)
(*                                                                         *)
(* A version is the number of the run that wrote something, 0 what was     *)
(* there before, Absent a file that is not there.                          *)
(***************************************************************************)
EXTENDS Integers, Sequences, FiniteSets

CONSTANTS
    Components,    \* the components with a service
    Plans,         \* what is run: [kind, wants, hook, publishes]
    Starts,        \* the packages that may be installed before
    MaxRenewals,   \* bound on the renewals by acme.sh
    MaxEdits,      \* bound on the writes of the panel
    MaxFaults      \* bound on the steps that raise

Order == <<"nginx", "naive", "haproxy", "firewall", "sidecar", "trusttunnel", "cloudflare">>

Packaged == {"nginx", "haproxy"} \cap Components

Runs == 1 .. Len(Plans)

ASSUME ConstantsAssumption ==
    /\ Components \subseteq {Order[i] : i \in DOMAIN Order}
    /\ \A k \in Runs : /\ Plans[k].kind \in {"apply", "renewal"}
                       /\ Plans[k].wants \subseteq Components
                       /\ Plans[k].hook \in BOOLEAN /\ Plans[k].publishes \in BOOLEAN
    /\ Starts \subseteq SUBSET Packaged /\ Len(Plans) \in Nat
    /\ MaxRenewals \in Nat /\ MaxEdits \in Nat /\ MaxFaults \in Nat

Absent == -1

Down == -2

PanelEdit == -3

VARIABLES
    file,       \* [Components -> version or Absent]: the files of a component
    hook,       \* the services that the reload hook names, {} when it is not there
    packages,
    svc,        \* [All -> [on, runs, cert]]: enabled, the version it runs, its certificate
    db,         \* who wrote the published field
    cert,       \* the generation of the certificate
    record,     \* the record of acme.sh: [hook, stamp]
    due,        \* acme.sh has renewed and has yet to run the hook of its record
    missed,     \* history: it found no hook, or one that failed
    raced,      \* history: it has renewed since a registration, or its undo, compared the record
    state,      \* state.json: [run, wants, hook, published, fresh]
    backups,    \* backups[k]: the preliminary backup of run k, and all there was (history)
    pc, run, op,
    me,         \* what the process at work remembers
    verdict,    \* how it ended
    clash,      \* history: a registration could not put the record back
    renewals, edits, faults

acme == <<cert, record, due, missed, raced>>
world == <<file, hook, packages, svc, db>>
bounds == <<renewals, edits, faults>>
vars == <<world, acme, state, backups, pc, run, op, me, verdict, clash, bounds>>

All == Components \cup {"panel"}

\* The services that read the certificate.
CertUsers == All \cap {"panel", "haproxy", "nginx", "sidecar"}

NoState == [run |-> 0, wants |-> {}, hook |-> FALSE, published |-> {}, fresh |-> {}]

Saved == [file |-> file, hook |-> hook, state |-> state, svc |-> svc, db |-> db, record |-> record]

\* backup: what an undo restores; journal: what was changed, of the files, "hook" and
\* "state"; before: history, what there was when it began.
Blank == [backup |-> Saved, before |-> Saved, journal |-> {}, removal |-> {}, published |-> {},
          fresh |-> {}, touched |-> FALSE, seen |-> [record |-> record, cert |-> cert],
          wroteHook |-> FALSE, registered |-> FALSE, todo |-> {}, errors |-> FALSE]

Init ==
    /\ packages \in Starts
    /\ file = [c \in Components |-> IF c = "haproxy" /\ c \in packages THEN 0 ELSE Absent]
    /\ hook = {}
    /\ svc = [c \in All |-> [on |-> c \in packages \cup {"panel"}, cert |-> 0,
                             runs |-> IF c = "panel" THEN 0
                                      ELSE IF c \in packages THEN file[c] ELSE Down]]
    /\ db = 0 /\ cert = 0
    /\ record = [hook |-> FALSE, stamp |-> 0] /\ due = FALSE /\ missed = FALSE
    /\ raced = FALSE
    /\ state = NoState
    /\ backups = [k \in Runs |-> [was |-> Saved, entries |-> {}]]
    /\ pc = "idle" /\ run = 0 /\ op = "none"
    /\ me = Blank /\ verdict = "none" /\ clash = FALSE
    /\ renewals = 0 /\ edits = 0 /\ faults = 0

Plan == Plans[run]

\* The manifest at work: a registration keeps that of state.json, a rollback undoes it.
Wants == IF op = "apply" THEN Plan.wants ELSE state.wants

Rank(c) == CHOOSE i \in DOMAIN Order : Order[i] = c

\* It is the turn of c: those in "first" come before the others.
Turn(c, first) ==
    /\ c \in me.todo
    /\ \A d \in me.todo \ {c} : c \in first \/ (d \notin first /\ Rank(c) < Rank(d))

Fault == faults < MaxFaults /\ faults' = faults + 1

Goto(s) == pc' = s

-------------------------------------------------------------------------------
(* Services. *)

HasUnit(c) == IF c \in Packaged THEN c \in packages ELSE file[c] # Absent

Version(c) == IF c = "panel" THEN db ELSE file[c]

\* A start, restart or reload reads the files and the certificate as they are.
Load(S) == [c \in All |-> IF c \in S THEN [svc[c] EXCEPT !.runs = Version(c), !.cert = cert]
                          ELSE svc[c]]

Stopped(S) == [c \in All |-> IF c \in S THEN [svc[c] EXCEPT !.on = FALSE, !.runs = Down]
                             ELSE svc[c]]

\* systemctl enable, unless it is only restarted, then restart or reload-or-restart.
Start(c, enable) ==
    /\ HasUnit(c)
    /\ svc' = [Load({c}) EXCEPT ![c].on = @ \/ enable]
    /\ UNCHANGED faults

\* Without a unit nothing changes; otherwise the old process may go on or be gone.
StartFails(c) ==
    IF HasUnit(c)
      THEN /\ Fault
           /\ \E up \in {svc[c].runs, Down} : svc' = [svc EXCEPT ![c].runs = up]
      ELSE UNCHANGED <<svc, faults>>

\* _disable_after_restore: a service that it could not stop is reported.
Disable(S) ==
    \/ svc' = Stopped(S) /\ UNCHANGED <<me, faults>>
    \/ /\ Fault
       /\ \E c \in S : svc[c].runs # Down /\ svc' = Stopped(S \ {c})
       /\ me' = [me EXCEPT !.errors = TRUE]

\* The reload hook looks at the configuration of an enabled HAProxy before anything else.
Checked == \A c \in Components \cap {"haproxy"} : svc[c].on => file[c] # Absent

\* What is active and whose unit or configuration is there; nothing is started.
Reloadable == {c \in hook : svc[c].runs # Down /\ (c \in {"panel", "nginx"} \/ file[c] # Absent)}

Reloaded == IF Checked THEN Load(Reloadable) ELSE svc

\* The exit status of the hook.
HookWorks == hook # {} /\ Checked /\ \A c \in hook : svc[c].runs # Down => c \in Reloadable

\* validate_live_configuration asks for every service of the manifest but the backend.
Healthy == \A c \in Wants \ {"trusttunnel"} : svc[c].runs # Down

-------------------------------------------------------------------------------
(* A run, forwards. *)

\* _component_removal_targets: an unwanted sidecar, copy or backend that was installed.
Removed(k) == {c \in (state.wants \ Plans[k].wants) \cap {"sidecar", "naive", "trusttunnel"} :
                 file[c] # Absent}

Begin ==
    /\ pc = "idle" /\ run < Len(Plans) /\ Plans[run + 1].kind = "apply"
    /\ run' = run + 1 /\ op' = "apply"
    /\ me' = [Blank EXCEPT !.removal = Removed(run')]
    /\ backups' = [backups EXCEPT ![run'] =
                     [was |-> Saved,
                      entries |-> Plans[run'].wants \cup Removed(run')
                                    \cup IF Plans[run'].hook THEN {"hook"} ELSE {}]]
    /\ verdict' = "none"
    /\ Goto("publish")
    /\ UNCHANGED <<world, acme, state, clash, bounds>>

\* Faulty variant: the changes count only once the panel has come back.
PublishUnreceipted ==
    /\ pc = "publish"
    /\ db' = IF Plan.publishes THEN run ELSE db
    /\ UNCHANGED me
    /\ Goto(IF Plan.publishes THEN "panel" ELSE "packages")
    /\ UNCHANGED <<file, hook, packages, svc, acme, state, backups, run, op, verdict, clash, bounds>>

Publish ==
    /\ pc = "publish"
    /\ db' = IF Plan.publishes THEN run ELSE db
    /\ me' = [me EXCEPT !.published = IF Plan.publishes THEN {db} ELSE {}]
    /\ Goto(IF Plan.publishes THEN "panel" ELSE "packages")
    /\ UNCHANGED <<file, hook, packages, svc, acme, state, backups, run, op, verdict, clash, bounds>>

RestartPanel ==
    /\ pc = "panel"
    /\ svc' = Load({"panel"})
    /\ Goto("packages")
    /\ UNCHANGED <<file, hook, packages, db, acme, state, backups, run, op, me, verdict, clash,
                   bounds>>

\* A package starts its service; the run stops it again, and does not look whether it could.
Install ==
    /\ pc = "packages"
    /\ LET new == (Plan.wants \cap Packaged) \ packages IN
       /\ me' = [me EXCEPT !.fresh = new]
       /\ packages' = packages \cup new
       /\ file' = [c \in Components |-> IF c = "haproxy" /\ c \in new THEN 0 ELSE file[c]]
       /\ \/ svc' = Stopped(new) /\ UNCHANGED faults
          \/ /\ new # {} /\ Fault
             /\ svc' = [c \in All |-> IF c \in new THEN [on |-> TRUE, runs |-> file'[c], cert |-> cert]
                                      ELSE svc[c]]
    /\ Goto("stage")
    /\ UNCHANGED <<hook, db, acme, state, backups, run, op, verdict, clash, renewals, edits>>

\* The second backup, after the packages, is the one that an undo restores.
Stage ==
    /\ pc = "stage"
    /\ me' = [me EXCEPT !.backup = Saved]
    /\ Goto("stop")
    /\ UNCHANGED <<world, acme, state, backups, run, op, verdict, clash, bounds>>

\* The sidecar and the copies are stopped before their units go; the backend is not.
ToStop == me.removal \cap {"sidecar", "naive"}

StopRemoved ==
    /\ pc = "stop"
    /\ me' = [me EXCEPT !.touched = ToStop # {}]
    /\ \/ svc' = Stopped(ToStop) /\ Goto("commit") /\ UNCHANGED faults
       \/ /\ ToStop # {} /\ Fault
          /\ \E S \in SUBSET ToStop : svc' = Stopped(S)
          /\ Goto("unregister")
    /\ UNCHANGED <<file, hook, packages, db, acme, state, backups, run, op, verdict, clash,
                   renewals, edits>>

\* render_tls_hook
HookOf(wants) == ({"panel"} \cup wants) \cap CertUsers

Changes == Plan.wants \cup me.removal \cup IF Plan.hook THEN {"hook"} ELSE {}

\* commit_managed_transition, which may stop after some of the files.
Write(S) ==
    /\ file' = [c \in Components |-> IF c \notin S THEN file[c]
                                     ELSE IF c \in me.removal THEN Absent ELSE run]
    /\ hook' = IF "hook" \in S THEN HookOf(Plan.wants) ELSE hook
    /\ me' = [me EXCEPT !.journal = S, !.todo = Plan.wants]

Commit ==
    /\ pc = "commit"
    /\ \/ Write(Changes) /\ Goto("activate") /\ UNCHANGED faults
       \/ Fault /\ (\E S \in SUBSET Changes : Write(S)) /\ Goto("unregister")
    /\ UNCHANGED <<packages, svc, db, acme, state, backups, run, op, verdict, clash, renewals, edits>>

\* _activate, service by service; the first that fails ends it.
Activate ==
    /\ pc = "activate"
    /\ \E c \in me.todo :
         /\ Turn(c, {})
         /\ \/ Start(c, TRUE) /\ UNCHANGED pc
            \/ StartFails(c) /\ Goto("unregister")
         /\ me' = [me EXCEPT !.todo = @ \ {c}]
    /\ UNCHANGED <<file, hook, packages, db, acme, state, backups, run, op, verdict, clash,
                   renewals, edits>>

Activated ==
    /\ pc = "activate" /\ me.todo = {}
    /\ Goto(IF Plan.hook THEN "acme" ELSE "health")
    /\ UNCHANGED <<world, acme, state, backups, run, op, me, verdict, clash, bounds>>

\* A step that raises before anything is written, or after the last of it.
Raise ==
    /\ pc \in {"panel", "packages", "stage", "record", "replace", "health",
               "report"} /\ Fault
    /\ Goto("unregister")
    /\ UNCHANGED <<world, acme, state, backups, run, op, me, verdict, clash, renewals, edits>>

\* The last checks of a run (complete) and those of a registration (post_reload).
Health ==
    /\ pc = "health"
    /\ Goto(IF ~Healthy THEN "unregister" ELSE IF op = "renewal" THEN "confirm" ELSE "save")
    /\ UNCHANGED <<world, acme, state, backups, run, op, me, verdict, clash, bounds>>

Save ==
    /\ pc = "save"
    /\ state' = IF op = "renewal" THEN [state EXCEPT !.hook = TRUE]
                ELSE [run |-> run, wants |-> Plan.wants, hook |-> Plan.hook,
                      published |-> me.published, fresh |-> me.fresh]
    /\ me' = [me EXCEPT !.journal = @ \cup {"state"}]
    /\ Goto("report")
    /\ UNCHANGED <<world, acme, backups, run, op, verdict, clash, bounds>>

Report ==
    /\ pc = "report"
    /\ verdict' = "complete"
    /\ Goto("idle")
    /\ UNCHANGED <<world, acme, state, backups, run, op, me, clash, bounds>>

-------------------------------------------------------------------------------
(* The registration of the hook: around the last checks of a run, or alone. *)

\* enable_certificate_renewal
BeginRenewal ==
    /\ pc = "idle" /\ run < Len(Plans) /\ Plans[run + 1].kind = "renewal" /\ state.run # 0
    /\ run' = run + 1 /\ op' = "renewal"
    /\ me' = Blank
    /\ verdict' = "none"
    /\ Goto("acme")
    /\ UNCHANGED <<world, acme, state, backups, clash, bounds>>

\* The record, the certificate and the key are as the registration left them.
Intact ==
    /\ cert = me.seen.cert
    /\ record = [me.seen.record EXCEPT !.hook = @ \/ me.registered]

\* With the hook in place already nothing is written and nothing is reloaded.
Register ==
    /\ pc = "acme"
    /\ me' = [me EXCEPT !.seen = [record |-> record, cert |-> cert]]
    /\ Goto(IF record.hook /\ hook = HookOf(Wants)
              THEN IF op = "renewal" THEN "health" ELSE "confirm"
              ELSE "hook")
    /\ UNCHANGED <<world, acme, state, backups, run, op, verdict, clash, bounds>>

WriteHook ==
    /\ pc = "hook"
    /\ IF Intact
         THEN /\ hook' = HookOf(Wants)
              /\ me' = [me EXCEPT !.wroteHook = hook # HookOf(Wants)]
              /\ Goto("record")
         ELSE Goto("unregister") /\ UNCHANGED <<hook, me>>
    /\ UNCHANGED <<file, packages, svc, db, acme, state, backups, run, op, verdict, clash, bounds>>

\* The last look before the record is replaced; nothing keeps acme.sh out in between.
MatchRecord ==
    /\ pc = "record"
    /\ Goto(IF Intact THEN "replace" ELSE "unregister")
    /\ raced' = FALSE
    /\ UNCHANGED <<world, cert, record, due, missed, state, backups, run, op, me, verdict, clash,
                   bounds>>

\* The whole record is written, as it was read when the registration began.
WriteRecord ==
    /\ pc = "replace"
    /\ record' = [me.seen.record EXCEPT !.hook = TRUE]
    /\ me' = [me EXCEPT !.registered = TRUE]
    /\ raced' = FALSE
    /\ Goto("reload")
    /\ UNCHANGED <<world, cert, due, missed, state, backups, run, op, verdict, clash, bounds>>

\* Faulty variant: a hook that was there already is not run again.
RunHookIfNew ==
    /\ pc = "reload"
    /\ IF Intact
         THEN /\ svc' = IF me.wroteHook THEN Reloaded ELSE svc
              /\ Goto(IF op = "renewal" THEN "health" ELSE "confirm")
              /\ UNCHANGED faults
         ELSE Goto("unregister") /\ UNCHANGED <<svc, faults>>
    /\ UNCHANGED <<file, hook, packages, db, acme, state, backups, run, op, me, verdict, clash,
                   renewals, edits>>

RunHook ==
    /\ pc = "reload"
    /\ \/ Intact /\ svc' = Reloaded /\ UNCHANGED faults
          /\ Goto(IF ~HookWorks THEN "unregister" ELSE IF op = "renewal" THEN "health" ELSE "confirm")
       \/ ~Intact /\ Goto("unregister") /\ UNCHANGED <<svc, faults>>
       \/ Fault /\ Goto("unregister") /\ UNCHANGED svc
    /\ UNCHANGED <<file, hook, packages, db, acme, state, backups, run, op, me, verdict, clash,
                   renewals, edits>>

\* After that acme.sh may renew: the record has the hook.
Confirm ==
    /\ pc = "confirm"
    /\ Goto(IF ~Intact THEN "unregister" ELSE IF op = "renewal" THEN "save" ELSE "health")
    /\ UNCHANGED <<world, acme, state, backups, run, op, me, verdict, clash, bounds>>

-------------------------------------------------------------------------------
(* A run, backwards. *)

\* What acme.sh wrote since is kept, and the hook in it.
Theirs == record # [me.seen.record EXCEPT !.hook = TRUE]

\* The hook comes after the record.
PutHookBack == hook' = IF me.wroteHook THEN me.backup.hook ELSE hook

\* Faulty variant: the record is put back over what acme.sh wrote.
UnregisterOver ==
    /\ pc = "unregister"
    /\ IF me.registered
         THEN Goto("putBack") /\ UNCHANGED hook
         ELSE Goto("restore") /\ PutHookBack
    /\ raced' = FALSE
    /\ UNCHANGED <<file, packages, svc, db, cert, record, due, missed, state, backups, run, op, me,
                   verdict, clash, bounds>>

\* restore_backup over the receipts of the registration: it compares, and then replaces.
Unregister ==
    /\ pc = "unregister"
    /\ IF me.registered /\ ~Theirs
         THEN Goto("putBack") /\ UNCHANGED <<hook, clash>>
         ELSE Goto("restore") /\ PutHookBack /\ clash' = (clash \/ me.registered)
    /\ raced' = FALSE
    /\ UNCHANGED <<file, packages, svc, db, cert, record, due, missed, state, backups, run, op, me,
                   verdict, bounds>>

PutBack ==
    /\ pc = "putBack"
    /\ record' = me.seen.record
    /\ PutHookBack
    /\ raced' = FALSE
    /\ Goto("restore")
    /\ UNCHANGED <<file, packages, svc, db, cert, due, missed, state, backups, run, op, me, verdict,
                   clash, bounds>>

End(v) == verdict' = v /\ Goto("idle")

\* A registration alone ends here.
Restore ==
    /\ pc = "restore"
    /\ file' = [c \in Components |-> IF c \in me.journal THEN me.backup.file[c] ELSE file[c]]
    /\ hook' = IF "hook" \in me.journal THEN me.backup.hook ELSE hook
    /\ state' = IF "state" \in me.journal THEN me.backup.state ELSE state
    /\ IF op = "renewal" THEN End("undone") ELSE Goto("unpublish") /\ UNCHANGED verdict
    /\ UNCHANGED <<packages, svc, db, acme, backups, run, op, me, clash, bounds>>

\* rollback_lucx_publication: a field that the panel wrote since stops the undo.
Unpublish ==
    /\ pc = "unpublish"
    /\ IF me.published = {}
         THEN Goto("quieten") /\ UNCHANGED <<db, svc, me, verdict, faults>>
         ELSE IF db # run
         THEN End("failed") /\ UNCHANGED <<db, svc, me, faults>>
         ELSE /\ db' = CHOOSE v \in me.published : TRUE
              /\ \/ svc' = [svc EXCEPT !["panel"].runs = db', !["panel"].cert = cert]
                    /\ UNCHANGED <<me, faults>>
                 \/ Fault /\ me' = [me EXCEPT !.errors = TRUE] /\ UNCHANGED svc
              /\ Goto("quieten") /\ UNCHANGED verdict
    /\ UNCHANGED <<file, hook, packages, acme, state, backups, run, op, clash, renewals, edits>>

Owned == Components \cap {"sidecar", "firewall", "cloudflare", "naive", "haproxy"}

\* What _reactivate_after_restore stops: units that are gone and services of new packages.
Orphans ==
    me.fresh \cup {c \in Owned : file[c] = Absent /\ (c = "naive" => c \in Plan.wants)}

\* The nftables table is deleted whatever becomes of the unit.
Quieten ==
    /\ pc = "quieten"
    /\ IF me.journal = {} /\ ~me.touched /\ me.fresh = {}
         THEN Goto("judge") /\ UNCHANGED <<svc, me, faults>>
         ELSE /\ Disable(Orphans \cup ({"firewall"} \cap Plan.wants))
              /\ Goto("again")
    /\ UNCHANGED <<file, hook, packages, db, acme, state, backups, run, op, verdict, clash,
                   renewals, edits>>

\* What it starts again, HAProxy first, when its unit or its files are there.
Revivable == {c \in Plan.wants \ me.fresh : c \in Owned => file[c] # Absent}

Again ==
    /\ pc = "again"
    /\ me' = [me EXCEPT !.todo = Revivable]
    /\ Goto("revive")
    /\ UNCHANGED <<world, acme, state, backups, run, op, verdict, clash, bounds>>

Revive ==
    /\ pc = "revive"
    /\ \E c \in me.todo :
         /\ Turn(c, {"haproxy"})
         /\ \/ Start(c, TRUE) /\ me' = [me EXCEPT !.todo = @ \ {c}]
            \/ StartFails(c) /\ me' = [me EXCEPT !.todo = {}, !.errors = TRUE]
    /\ UNCHANGED <<file, hook, packages, db, acme, state, backups, pc, run, op, verdict, clash,
                   renewals, edits>>

\* Last the services that the run had stopped to remove them.
Revived ==
    /\ pc = "revive" /\ me.todo = {}
    /\ me' = [me EXCEPT !.todo = IF me.touched THEN {c \in ToStop : HasUnit(c)} ELSE {}]
    /\ Goto("reenable")
    /\ UNCHANGED <<world, acme, state, backups, run, op, verdict, clash, bounds>>

Reenable ==
    /\ pc = "reenable"
    /\ \E c \in me.todo :
         /\ Turn(c, {"sidecar"})
         /\ \/ Start(c, TRUE) /\ UNCHANGED <<pc, verdict>>
            \/ StartFails(c) /\ End("failed")
         /\ me' = [me EXCEPT !.todo = @ \ {c}]
    /\ UNCHANGED <<file, hook, packages, db, acme, state, backups, run, op, clash, renewals, edits>>

\* rollback_health_status
Judge ==
    /\ pc = "judge" \/ (pc = "reenable" /\ me.todo = {})
    /\ LET sound == \A c \in state.wants \ {"trusttunnel"} : svc[c].runs # Down IN
       End(IF me.errors THEN "serviceErrors" ELSE IF sound THEN "rolledBack" ELSE "healthErrors")
    /\ UNCHANGED <<world, acme, state, backups, run, op, me, clash, bounds>>

-------------------------------------------------------------------------------
(* The rollback of the last run (_rollback_locked). *)

Undone == backups[me.before.state.run]

\* The files first, then state.json: both are back before anything else is tried.
Rollback ==
    /\ pc = "idle" /\ state.run # 0
    /\ op' = "rollback"
    /\ LET old == backups[state.run] IN
       /\ me' = [Blank EXCEPT !.published = state.published, !.fresh = state.fresh]
       /\ file' = [c \in Components |-> IF c \in old.entries THEN old.was.file[c] ELSE file[c]]
       /\ hook' = IF "hook" \in old.entries THEN old.was.hook ELSE hook
       /\ state' = old.was.state
    /\ verdict' = "none"
    /\ Goto("unpublishOld")
    /\ UNCHANGED <<packages, svc, db, acme, backups, run, clash, bounds>>

UnpublishOld ==
    /\ pc = "unpublishOld"
    /\ IF me.published = {}
         THEN Goto("quietenOld") /\ UNCHANGED <<db, svc, verdict, faults>>
         ELSE IF db # me.before.state.run
         THEN End("failed") /\ UNCHANGED <<db, svc, faults>>
         ELSE /\ db' = CHOOSE v \in me.published : TRUE
              /\ \/ svc' = [svc EXCEPT !["panel"].runs = db', !["panel"].cert = cert]
                    /\ Goto("quietenOld") /\ UNCHANGED <<verdict, faults>>
                 \/ Fault /\ End("failed") /\ UNCHANGED svc
    /\ UNCHANGED <<file, hook, packages, acme, state, backups, run, op, me, clash, renewals, edits>>

\* What the preliminary backup had found.
Kept == {c \in Undone.entries \cap Components : Undone.was.file[c] # Absent}

QuietenOld ==
    /\ pc = "quietenOld"
    /\ Disable(me.fresh \cup (Components \cap {"firewall"})
                 \cup ((Components \cap {"sidecar", "cloudflare"}) \ Kept)
                 \cup ((Undone.entries \cap {"naive"}) \ Kept))
    /\ Goto("againOld")
    /\ UNCHANGED <<file, hook, packages, db, acme, state, backups, run, op, verdict, clash,
                   renewals, edits>>

AgainOld ==
    /\ pc = "againOld"
    /\ LET wants == me.before.state.wants IN
       me' = [me EXCEPT !.todo =
                {c \in ({"haproxy", "nginx"} \cap wants) \ me.fresh : c = "haproxy" => file[c] # Absent}
                  \cup (Kept \cap {"naive", "firewall", "sidecar", "cloudflare"})]
    /\ Goto("reviveOld")
    /\ UNCHANGED <<world, acme, state, backups, run, op, verdict, clash, bounds>>

\* Only the copies are enabled again, the others are restarted.
ReviveOld ==
    /\ pc = "reviveOld"
    /\ \E c \in me.todo :
         /\ Turn(c, {"haproxy"})
         /\ \/ Start(c, c = "naive") /\ UNCHANGED <<pc, verdict>>
            \/ StartFails(c) /\ End("failed")
         /\ me' = [me EXCEPT !.todo = @ \ {c}]
    /\ UNCHANGED <<file, hook, packages, db, acme, state, backups, run, op, clash, renewals, edits>>

JudgeOld ==
    /\ pc = "reviveOld" /\ me.todo = {}
    /\ End(IF me.errors \/ ~Healthy THEN "failed" ELSE "rolledBack")
    /\ UNCHANGED <<world, acme, state, backups, run, op, me, clash, bounds>>

-------------------------------------------------------------------------------
(* Others. *)

\* acme.sh replaces the certificate and its own fields of the record.
Renew ==
    /\ renewals < MaxRenewals
    /\ renewals' = renewals + 1
    /\ cert' = cert + 1
    /\ record' = [record EXCEPT !.stamp = cert']
    /\ due' = (due \/ record.hook)
    /\ raced' = (pc \in {"replace", "putBack"})
    /\ UNCHANGED <<world, missed, state, backups, pc, run, op, me, verdict, clash, edits, faults>>

\* It runs Le_ReloadCmd, if that is there, once: a hook that fails is not run again.
AcmeHook ==
    /\ due
    /\ svc' = Reloaded
    /\ due' = FALSE /\ missed' = (missed \/ ~HookWorks)
    /\ UNCHANGED <<file, hook, packages, db, cert, record, raced, state, backups, pc, run, op, me,
                   verdict, clash, bounds>>

EditPanel ==
    /\ edits < MaxEdits /\ db # PanelEdit
    /\ edits' = edits + 1
    /\ db' = PanelEdit
    /\ svc' = [svc EXCEPT !["panel"].runs = db']
    /\ UNCHANGED <<file, hook, packages, acme, state, backups, pc, run, op, me, verdict, clash,
                   renewals, faults>>

Forwards ==
    \/ Publish \/ RestartPanel \/ Install \/ Stage \/ StopRemoved \/ Commit \/ Activate
    \/ Activated \/ Health \/ Save \/ Report \/ Raise
    \/ Register \/ WriteHook \/ MatchRecord \/ WriteRecord \/ RunHook \/ Confirm

Backwards ==
    \/ Unregister \/ PutBack \/ Restore \/ Unpublish \/ Quieten \/ Again \/ Revive \/ Revived
    \/ Reenable \/ Judge
    \/ UnpublishOld \/ QuietenOld \/ AgainOld \/ ReviveOld \/ JudgeOld

Next ==
    \/ Begin \/ BeginRenewal \/ Rollback
    \/ Forwards \/ Backwards
    \/ Renew \/ AcmeHook \/ EditPanel

\* A process runs to its end, and acme.sh runs the hook after it has renewed.
Spec == Init /\ [][Next]_vars /\ WF_vars(Forwards \/ Backwards) /\ WF_vars(AcmeHook)

-------------------------------------------------------------------------------
Versions == Runs \cup {0, Absent}

TypeOK ==
    /\ file \in [Components -> Versions]
    /\ hook \subseteq CertUsers /\ packages \subseteq Packaged
    /\ svc \in [All -> [on : BOOLEAN, runs : Versions \cup {Down, PanelEdit}, cert : 0 .. MaxRenewals]]
    /\ db \in Runs \cup {0, PanelEdit}
    /\ cert \in 0 .. MaxRenewals
    /\ record \in [hook : BOOLEAN, stamp : 0 .. MaxRenewals] /\ due \in BOOLEAN
    /\ state.run \in 0 .. run /\ state.wants \subseteq Components
    /\ run \in 0 .. Len(Plans) /\ op \in {"none", "apply", "renewal", "rollback"}
    /\ me.journal \subseteq Components \cup {"hook", "state"}
    /\ pc # "idle" => verdict = "none"
    /\ renewals \in 0 .. MaxRenewals /\ edits \in 0 .. MaxEdits /\ faults \in 0 .. MaxFaults

Up(s, c) == s[c].runs # Down

\* It ran what was on the disk: not so after a rollback that failed halfway.
Ran(was, c) == /\ was.svc[c].runs # Down
               /\ was.svc[c].runs = IF c = "panel" THEN was.db ELSE was.file[c]

(***************************************************************************)
(* A run that reports success leaves what it promised, all of it: every    *)
(* wanted service enabled and running the files of this run, no service of *)
(* a removed component, the hook in the record and in place.  Only the     *)
(* backend of TrustTunnel runs on without its files: nothing stops it.     *)
(***************************************************************************)
Succeeded ==
    verdict = "complete" /\ op = "apply" =>
        /\ state.run = run
        /\ \A c \in Plan.wants : file[c] = run /\ svc[c].on /\ svc[c].runs = run
        /\ \A c \in me.removal : file[c] = Absent /\ (c # "trusttunnel" => ~svc[c].on /\ ~Up(svc, c))
        /\ Plan.hook => record.hook /\ hook = HookOf(Plan.wants)

(***************************************************************************)
(* A run that failed and reports that it was rolled back has left nothing: *)
(* files (but the stock configuration of a new package), state.json, the   *)
(* database and the record are as they were, no service runs what this run *)
(* had written, and each that ran before runs again, with what is on the   *)
(* disk.                                                                   *)
(***************************************************************************)
RolledBack ==
    verdict = "rolledBack" /\ op = "apply" =>
        /\ \A c \in Components \ me.fresh : file[c] = me.before.file[c]
        /\ hook = me.before.hook /\ state = me.before.state
        /\ db \in {me.before.db, PanelEdit}
        /\ record.hook = me.before.record.hook \/ clash
        /\ \A c \in All : svc[c].runs # run
        /\ \A c \in All : Ran(me.before, c) => svc[c].runs = Version(c)

(***************************************************************************)
(* So for the rollback of a finished run, as far as its own files go: no   *)
(* service runs on what the run had written, and each whose files it had   *)
(* replaced, and that ran before, runs what is on the disk again.  The     *)
(* exceptions are in the code: HAProxy runs on when its package was there  *)
(* but its configuration was not, as the rollback removes that and neither *)
(* stops nor reloads it; and the backend of TrustTunnel always does.       *)
(***************************************************************************)
RunUndone ==
    verdict = "rolledBack" /\ op = "rollback" =>
        /\ \A c \in Undone.entries \cap Components : file[c] = Undone.was.file[c]
        /\ state = Undone.was.state
        /\ \A c \in All : svc[c].runs = me.before.state.run =>
                             c = "trusttunnel" \/ (c = "haproxy" /\ file[c] = Absent)
        /\ \A c \in (Undone.entries \cap Components) \ {"trusttunnel"} :
             Ran(Undone.was, c) => svc[c].runs = Version(c)
        /\ me.published # {} => svc["panel"].runs = db

(***************************************************************************)
(* A registration that has overwritten a renewal does not end as a         *)
(* success: the certificate that came with the renewal gives it away.  So  *)
(* if the record was as recent as the certificate when a run looked at it, *)
(* it still is when the run reports success.                               *)
(***************************************************************************)
NoRenewalHidden ==
    verdict = "complete" /\ me.seen.record.stamp = me.seen.cert => record.stamp = cert

Inv == TypeOK /\ Succeeded /\ RolledBack /\ RunUndone /\ NoRenewalHidden

(***************************************************************************)
(* While the record names a hook that is there, no renewal stays unserved: *)
(* every running service that the hook names gets the new certificate,     *)
(* also when acme.sh renews while a run is registering the hook, or while  *)
(* it takes the registration back.  Only a renewal that found no hook, or  *)
(* one that fails, is not made up for: a hook fails when HAProxy is        *)
(* enabled and a rollback, at work or done, has taken its configuration    *)
(* away.                                                                   *)
(***************************************************************************)
Stale == {c \in hook : Up(svc, c) /\ svc[c].cert # cert}

EveryRenewalServed == record.hook /\ Stale # {} ~> (~record.hook \/ Stale = {} \/ missed)

(***************************************************************************)
(* Neither a registration nor its undo takes anything back that acme.sh    *)
(* wrote to its record, but for a renewal in the one place where it could  *)
(* not see it: after the last comparison and before the replacement that   *)
(* follows it.  Nothing keeps acme.sh out there.                           *)
(***************************************************************************)
RenewalsKept == [][(record'.stamp < record.stamp => raced) /\ cert' >= cert]_vars

=============================================================================
