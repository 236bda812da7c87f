# Verification of x-tuna

x-tuna (package `lucx_post_configurator`) turns a Debian server that runs the LucX
panel into a finished host: HAProxy and Nginx in front, decoy sites, nftables, DNS, a
subscription sidecar, Naive services. It renders files, changes some rows of the panel's
SQLite database, reloads services and promises that a failure, or a later rollback, puts
everything back without overwriting what somebody else did in the meantime. That promise
is what this directory is about.

Paths below are relative to `src/src/lucx_post_configurator/`.

## 1. Inventory

| Part | State it keeps | Operations | What makes it correct |
|---|---|---|---|
| File transaction (`transaction.py`, `targetfs.py`) | managed files, `backup.json` and its copies, the journal of receipts of the running apply | `create_backup`, `ensure_managed_directories`, `commit_files`, `remove_managed_targets`, `commit_managed_transition`, `save_state`, `restore_backup` | commits whole or restores; never overwrites an edit it can see; reports what it did not restore |
| Publication (`transaction.py`, `routing_rebase.py`) | rows of the panel's database, receipts in `state.json` | `synchronize_lucx_inbound_changes`, `synchronize_lucx_publication`, `verify_authorized_rebase`, `rollback_lucx_publication` | undo gives back what was there; never undoes over an edit of the panel |
| Apply pipeline and renewal (`engine.py`, `certificate_renewal.py`, `renderers.py`, `validation.py`) | packages, files, services, the ACME record, `state.json` | `_apply_with_probes`, `_activate`, `_reactivate_after_restore`, `register_existing_renewal`, `_rollback_locked` | success means all is in place, "rolled back" means nothing is left, every renewal is served |
| Engine sessions (`engine.py`, `repair.py`, `cli.py`, `manifest_source.py`) | flock, `state.json`, `failed-state.json` | apply, repair, resume, renewal, worker of a reload, DNS change | no operation drops what another recorded; the lock always comes back |
| Rollback chain (`engine.py`, `transaction.py`, `tui.py`) | `state.json` as a chain of runs, backups | apply, `rollback`, `rollback --force`, a DNS change | undoes the last run, and refuses when managed files were edited |
| Naive generations (`naive_sync.py`, `naive_lifecycle.py`, `naive_frontend.py`) | managed Caddyfiles, services, generation in the manifest | background sync, reload, settling | services run what the files say; a failed sync puts both back |
| Functional staging (`staging_*.py`) | processes, private materials and workspace of the candidate | capture, start, probe, stop, verify, clean | what is committed was tested; nothing private stays behind silently; only its own processes and files are touched |
| Dialogs and manifests (`questionnaire.py`, `tui.py`, `cli.py`, `repair.py`, `certificate_manager.py`) | the saved manifest, the failed one, the pending intention, the plan on the screen, certificates | wizard, domains, zone, certificate order, decoys, mode, sidecar, retry, resume, repair, file | panel, manifest and everything derived from the names stay together; a plan replaces only what it was made from |
| Routing of the public names (`routing_profiles.py`, `extended_decoys.py`, `renderers.py`, `validation.py`) | the saved routes, the files in force | classify, allocate ports, render, verify, answer a connection | every client reaches its inbound, every covered domain its site |
| Subscription sidecar (`assets/lucx_sub_sidecar.py`) | slots, threads, what it has read | accept, handshake, read, rewrite, answer | limits hold; nothing that must not be published is; fail open |
| Self-installation, database snapshot, protected data, probes, Cloudflare updater, decoy contents, DNS and BBR | none between calls, or a file of their own | see section 6 | |

### How the parts interact

`Engine.apply` takes the lock (`_exclusive_lock`), seals `state.json`, changes the
database in two transactions (transport, then publication, with a panel restart between
them), audits again, makes the backup, commits the files, activates services, validates,
compares the database with its baseline plus its receipts, seals again and writes
`state.json`, which records the receipts, the digests of the installed files and the
backup's name. Any exception before that makes the handler restore the files with the
journal and then undo the receipts. `Engine.rollback` does the same later from what
`state.json` recorded. The panel and the operator are never locked out of the files, and
of the database only while one of the transactions is open. A background worker started
by the hook of a reload, the menus and the command line are separate processes that meet
in the lock and in `state.json`.

Before it, a dialog makes a manifest from the saved one, the answers and an audit of the
panel; the routes in it are decided from the inbounds (`classify_extended_decoy_routes`)
and rendered into HAProxy, Nginx and nftables files; the rendered candidate is tested by a
worker on private copies before it is committed. After it, acme.sh renews on its own and
runs the hook that a run has registered, the panel restarts and a job brings the copies of
its Caddyfiles in step, and the sidecar answers clients from the panel's database.

### What is hard here

* Another writer of the same files and of the same database at every point between two
  system calls or two transactions.
* Failure of any step, with the undoing itself working next to that writer.
* Plans made minutes before the lock is taken.
* A process killed while it holds the lock, before or after `state.json` was replaced.
* Several runs on top of each other, undone one after the other.
* Restarts of the panel and of services by systemd in the middle of a background sync.
* Receipts of two kinds (text of a column, field of a document) over one cell.
* `/proc` read piece by piece while frontends fork, bind and exit and process ids are reused.
* acme.sh renewing, and writing the record a registration is about to write.
* Names from which sites, certificates, the host of the sidecar and routes are derived
  again and again, by different functions.
* Several frontends chained on one port, each with its own matchers.

`PROJECT.json` lists the hazards one by one, at the line where each one bites, with the
property that would catch it.

## 2. Modules

```
FileTransaction  <- MCFileTransaction          FileTransaction <- FileTransactionProofs
Publication      <- MCPublication              Publication     <- PublicationProofs
ApplyRun         <- MCApplyRun                 ApplyRun        <- ApplyRunProofs
EngineSessions   <- MCEngineSessions           EngineSessions, NaiveSync <- LockProofs
RollbackChain    <- MCRollbackChain            RollbackChain   <- RollbackChainProofs
                                               RollbackChain   == implements => SavePoints
NaiveSync        <- MCNaiveSync
FunctionalStaging <- MCFunctionalStaging       FunctionalStaging <- FunctionalStagingProofs
ForegroundSession <- MCForegroundSession       ForegroundSession, Dialogs <- SessionProofs
Domains      <- Dialogs  <- MCDialogs
Routing      <- Frontend <- MCFrontend         Frontend, Sidecar <- ServingProofs
Subscription <- Sidecar  <- MCSidecar
```

`FileTransaction` and `Publication` look inside one apply, `ApplyRun` at the whole of it
with services, certificates and its rollback, `EngineSessions` at several processes around
it, `RollbackChain` at several applies in a row, `NaiveSync` at the background jobs,
`FunctionalStaging` and `ForegroundSession` at the test of the candidate, `Dialogs` at how
the manifests come about, `Frontend` at what is rendered from them, `Sidecar` at what runs
afterwards. Each takes what another one details as few steps: an apply is four actions in
`RollbackChain`, one write of `state.json` in `EngineSessions`, and in `Dialogs` it
happens whole or not at all; the commit of files is one step in `ApplyRun`; the worker's
processes are a set in `FunctionalStaging`. `Domains`, `Routing` and `Subscription` hold
the pure operators, the modules that extend them the state.

### FileTransaction

One apply's file side. A path is in a state `[val, id]`: `val` stands for kind, bytes or
link target, mode and owner, `id` for the inode, which is everything `managed_target_state`
compares. `stage` walks through the calls in the order of the code (`After`), `todo` holds
the paths of the loop the code is in, `step` and `cur` where inside an iteration it is.
Each system call that another writer can get in between of is an action: the copy and the
record of one backup entry, each check, each write (`os.replace` and the journal entry
behind it are one step), the reading back, `mkdir`, `chmod`, each unlink. `Fail` may
happen at each of them and leads to the restore, `RestoreFail` to a restore that raises.
`Edit` and `Populate` are the other writer. `protected` is a history variable: the edits
that one of the checks still to come compares; `late` are edits that fall behind the
check of the restore, which nothing can see.

Abstracted: `Digest` is blind to the mode, as `managed_target_digest` is; the other writer
does not remove or replace a directory; `stage_files` writes only private files. Signals
that are not exceptions (`SIGKILL`, power) leave no handler to model: the security model
of the repository says so itself (`docs/SECURITY_MODEL_RU.md:17`).

### Publication

The database is a function from cells to values: a settings row, an inbound's share_addr,
a field of one of its two JSON columns, a column of a hosts row. A JSON column also has a
form, how its text is laid out, because one receipt compares text and the other fields. A
request (`Plans`) becomes receipts (`Receipt`), the receipts are verified (`Verify`),
returned to the caller (`Return`), compared with the baseline (`Check`, `StepBack`), kept
in `state.json` (`Complete`; `stack` is the chain of the state.json files a rollback goes
back through) and undone (`Undo`, `CommitUndo`). `BEGIN IMMEDIATE` keeps the panel out:
its actions need `stage` outside `Open`. Refusals of the schema and of values are the one
action that raises. What a plan can ask for is `Requests`: an endpoint has a domain and a
certificate, because the code refuses the pair with an empty path. `Hosts` is finite, so an
INSERT may find no id left (`NoRowLeft`); SQLite's counter does not run out in practice, and
the model takes it as one more failure. The variables marked as history (`edits`, `sealed`,
`wrote`, `touched`, `lost`, `ahead`, `twice`) are in no guard but that of the panel's bound
(`edits`); the properties speak of them.

The proof that a run publishes its plan (`Published`) showed where the check is blind, and
TLC has the example when `twice = {}` is dropped from it: the panel writes the value that the
plan asks for before our transaction, so that the run has nothing to change and makes no
receipt, and takes it back before the check. The check (`verify_authorized_rebase`) finds the
baseline, which is what it expects without a receipt, and the run is recorded as applied.

### EngineSessions

Processes with a command each: `reconfigure` (also the menus and `--configure-decoys`),
`repair`, `renewal`, `resume`, `sync` (the worker of a reload), `dns`. A process plans
from what it reads (`Plan`), is confirmed by the operator (`Confirm`), takes the flock or
waits or gives up, reads its entry seal (`Read`), and commits, fails or is killed. `state`
is `[by, has]`: who wrote `state.json` last and the settings it records; a setting is what
an operation adds. `failed` is `last-failed.json`. `lock.json` is left out: it serves the
text of a refusal and no decision reads it.

### RollbackChain and SavePoints

An apply makes its backup, `state.json` included (`Start`), writes the database
(`Publish`), and then writes its files and `state.json` (`Deploy`) or undoes itself
(`Abort`). `state` is what `state.json` records: the run, the digests of what it installed
and the receipts of the database; `backups[k]` is what run `k` found. A rollback compares
the digests (`Begin`, `Refuse`), restores the entries of the backup in their order
(`Restore`; `Interrupt` is a rollback that is killed or raises there), undoes the receipts
it read at the beginning (`Unpublish`, `UnpublishRefused`) and ends with the services
(`Done`, `Unhealthy`). `SetDns` is the operation of the program that writes a managed file
outside an apply, `Edit` the operator or the panel. The variables `frames`, `edited`,
`since` and `stranded` are history.

`SavePoints` is what this promises to the operator: a stack of save points, and undoing
the latest gives back the saved value of every path nobody else touched. Under the
refinement mapping the stack is the chain that leads from `state.json` through the backups
it names (`Chain`), and a rollback takes effect when it begins (`Due`: what has not been
restored yet counts as restored). `Edit` of `SavePoints` touches a set of paths, because a
receipt that is refused brings to light at once whatever others did to the fields. An
interrupted rollback and a receipt that no longer matches break the promise (`broken`, the
step `Break` of `SavePoints`, which promises nothing from then on); `Returned` still says
what comes back after them.

### NaiveSync

The panel is `[gen, phase, policy, hooked]`: the generation of its sources, whether it has
just been restarted (its services too, `PartOf=`), has written the sources or runs with
them, and whether the settings are those that were confirmed. The hook of a reload starts a
job per managed inbound (`hooks`), a path unit one per inbound unless it has one (`paths`).
A job has the lock (`TakeLock` to `Leave`), reads once (`Prepare`), waits for two equal
readings (`Settle`, at most `MaxTries`), plans, validates, and then for each copy that
differs checks, writes and reads back; it restarts the services whose contents changed,
checks everything again (`Final`), compares source and `state.json` a last time (`CommitState`)
and records generation and digests (`SaveState`, `ConfirmState`, the variable `saved`). Every
fence is a conjunct `Fenced`. The lock of the job keeps out neither the panel nor a writer that
does not take it, so that both may write between the last fence and `save_state`; `moved` is the
history of that window. What is recorded then is not what the panel has, or replaces a
`state.json` that the job has not read, and `RecordsWhatRuns` excepts exactly that;
`ReloadsFollowed` has no exception, because the path units start another job. The
handler puts back what the job wrote, the last first (`UndoCheck`, `Unwrite`, `Unread`), then
restarts what it had restarted (`Owed`, `Revive`). A failing command, a write that replaces the
file and raises (`WriteTorn`, `SaveTorn`; the second leaves a record that counts as somebody
else's, since `restore_backup` gets no receipt for it), a service that systemd restarts, a
foreign write to a copy, to `state.json` or to the settings may come anywhere. `spoiled` (targets
of which a failed job says that it did not put them back) and `stirred` (services that systemd
restarted in the middle of a job) are history and excepted from what holds between two jobs.
Contents are compared as values: the digest and the receipt of a file are its value, mode and
writer.

### ApplyRun

One run with everything it changes: files of the components, packages, services (enabled,
what they run, with which certificate), the field of the panel's database, the record of
acme.sh, `state.json`. Versions are numbers of runs. A component is one file and one
service. `pc` follows `_apply_with_probes`: backup, removal, packages, commit, activation,
registration of the hook, validation, `state.json`; a step that raises leads to the handler
(`Restore`, `Unpublish`, `Quieten`, `Revive`). A loop over services keeps the set of those
left (`me.todo`) and takes the one whose turn it is in the order of `Order` (`Turn`). The
hook checks HAProxy's configuration before it reloads anything (`Checked`, `HookWorks`); a
renewal whose hook is not there or fails is counted in `missed`. A registration
on its own (`op = "renewal"`) and the rollback of the last run (`op = "rollback"`) share
those steps as the code does. acme.sh renews (`due`) and runs the hook named in its
record, whose services then have the new certificate (`AcmeHook`). The registration compares
the record with the one it read and then replaces it (`MatchRecord`, `WriteRecord`; back again
`Unregister`, `PutBack`), and acme.sh may renew between the two; `raced` is the history of a
renewal that was overwritten so. `me` is what the
process remembers, `backups` what it has saved, `clash` that it reported a record it could
not put back. What goes on inside a commit, a publication or a synchronisation is in the
modules for them.

### FunctionalStaging and ForegroundSession

`FunctionalStaging` runs a script of calls (`Script`) in the order of the code: captures of
the sources, the seal, the private materials and workspace, the worker, the looks at every
source again, the cleanups, the commit. Sources are versions that others raise, the private
trees are directories and files that others may touch, replace or add to. A deletion goes
path by path: a path is compared with its record (`Delete`) and then removed by its name
(`Unlink`), and others act between the two calls as well. It may stop half way and is
tried again by the finally.
`late` are the sources that changed after the last round of looks had begun: no reading
can see those.

`ForegroundSession` is the session that the worker's coordinator keeps: it starts
frontends, waits until the expected listeners are theirs by reading listeners, members and
descriptors one after the other, and stops the group. Processes fork, bind, share sockets,
exit, become zombies, ignore SIGTERM; their ids are reused (`life`). A signal goes through
a pidfd.

### Domains and Dialogs

`Domains` has what the dialogs make of names: the wizard, the change of single domains, the
move to another zone, the refresh, the sites of the decoys, what validation refuses
(`Valid`, `Audited`) and what publication writes back (`Published`, `Reread`). A name is a
label in a zone; a certificate covers zones.

`Dialogs` is the session of a person: a dialog reads, is refused or shows a plan, the panel
or another session changes things, the plan is confirmed or declined, and the run happens
whole or fails and is undone. Kept are the saved manifest with what the panel published
when it was planned, the manifest of the last failed run, the intention for "check again"
and a manifest file. An order of a certificate (`Certbot`, and a zone move without a
certificate) is a step of its own.

### Routing and Frontend

`Routing` decides (`Classify`: one strategy for each inbound, the rules in the order of the
`continue` statements), gives ports to the listeners, builds the table of both frontends and
answers a connection (`Handle`) through the whole chain: port, SNI, ClientHello, Host,
nested listeners. `Covered` are the domains whose site the acceptance asks for. `Frontend` is the
life of it: a person plans, the saved routes are edited, the panel and the Naive sources change, a
run audits, renders and installs. `Handle` is modelled from the rendered rules, the clients'
requests from what each kind of inbound publishes.

### Subscription and Sidecar

`Subscription` has the rewriting of one subscription: what is dropped, converted for a
client, led to a public endpoint, and the order in which it happens. `Sidecar` is the server:
one accepting loop that does the handshake too, a slot for each thread, the panel's answer,
the inbounds read in one statement and the host row of each in one more (`ReadHost`), with no
transaction around them, so that the panel may commit between any two, and a rewriting that
falls back to the panel's answer when it raises (`open`). A database that cannot be read costs
the endpoints and nothing else (`ReadFails`). Two errors are caught by nobody and end the thread
without an answer: settings of an inbound that are no object (`ReadEscapes`) and JSON nested
too deep (`TransformEscapes`).

## 3. What is checked

| Run | Properties | Shows |
|---|---|---|
| `file_transaction` | `TypeOK`, `Restored`, `ForeignEditsKept`, `Outcome`, `Terminates` | two generated files, a removal, a managed directory and `state.json`, any failure, one foreign edit anywhere: a failed run leaves every path nobody touched as it was and lists what it did not restore, a committed one is whole, an edit a check can see is never overwritten, every run ends |
| `publication` | `Inv`, `RestoredExactly`, `RefusedOnlyAfterEdits`, `UndoKeepsPanelWrites` | two applies over each other, undone automatically or by hand, two writes of the panel anywhere outside a transaction, three starting databases: what a completed run asked for is published, an undo that goes through gives back what was there and overwrites nobody |
| `engine_sessions` | `TypeOK`, `EntryHolds`, `LockedReadersKeepSettings`, `Progress` | three processes with every mix of the operations, one killed anywhere: what was read on entry holds at the write, nobody who reads under the lock drops a setting, the lock comes back, and everyone who asks for it ends |
| `rollback_chain` | `Inv`, `RefusedOnlyAfterEdits`, `KeepsSavePoints` | three applies, any sequence of rollbacks, one edit of a file or of the database, one interrupted rollback: a rollback that gets through gives back what the run found, one is refused only after an edit, and all of it implements `SavePoints` |
| `apply_run` | `Inv`, `RenewalsKept`, `EveryRenewalServed` | two runs with other components and a registration of the hook, any step failing, rollbacks, a renewal and a write of the panel between any two steps |
| `naive_sync` | `Inv`, `RecordsWhatRuns`, `ReloadsFollowed` | jobs behind two restarts of the panel, one foreign write and one fault anywhere: copies, services and `state.json` go forward or back together, only what runs is recorded, every reload is followed or reported |
| `functional_staging` | `Inv`, `CommittedIsTested`, `GroupGoneBeforeRemoval`, `RetryCompletes` | one candidate with any three out of a change of a source, two interventions in the private trees and a fault, each at any step |
| `foreground_session` | `Inv`, `ReadyWasTrue`, `CleanupEnds` | a frontend that forks, binds and exits at any moment, one reused process id |
| `dialogs` | `DialogInv`, `Protected`, `ZoneOnly` | three dialogs of any kind with an edit, of the panel, the state or the file, and a failed run between any two steps |
| `dialogs_migration` | `MigratedBaseWorks` (violated) | a zone move of a plan that writes the subscription URLs makes a base without a scheme, which the publication refuses |
| `frontend` | `FrontInv`, `VpnReaches`, `BrowserGetsSite`, `LiveIsFresh` | any two kinds of inbound on shared ports, with the panel, the sources and the saved routes changing under a run |
| `sidecar` | `Inv`, `Delivered`, `OwnEndpoint`, `EveryoneServed` | two clients on one slot, every format, a commit of the panel between any two statements, one failure, settings that are no object: all slots come back, whoever was answered by the panel is answered, but for the two errors nobody catches |

`Inv` (`FrontInv` in `Frontend`, `DialogInv` in `Dialogs`) is in each module the type invariant
together with the named state properties, each with its own comment: `Published`; `Returned`;
`StateMatchesFiles` and `ServicesRunFiles`; `CompleteMeansGone` and `OutsidersUnharmed`;
`NothingLeftSilently` and `OnlyOwnDeleted`; `SlotsBalanced` and `FailsOpen`; `Succeeded`,
`RolledBack` and `RunUndone`; `Served` and `InStep`; `Sheltered`, `ListenersApart` and
`FirewallFits`. In the same way `Outcome` is `CommittedWhole` and `ConflictsReported`, `Progress`
is `LockComesBack` and `WorkersEnd`, `Delivered` is `NeverPublished` and `NothingLost`.

The run that expects a violation states one sentence of a comment in the code; the
disagreement is under `findings` in `PROJECT.json`, with the line of the code and the
quotation. Every other property has a mutant: a named faulty variant of one definition
(`\* Faulty variant: ...` in the modules), with which the property fails.

### Known disagreements

Met while modelling. The models do what the code does; where a property would fail because
of it, the property or the instance says what it excepts.

* `load_public_endpoint_snapshot` answers `[]` for what it expects to fail, but settings that are
  JSON and no object have no `.get`, and `rewrite_structured_subscription` is guarded against
  errors of type and value, but JSON nested too deep raises a RecursionError: in both cases the
  client gets a closed connection instead of the panel's answer. `FailsOpen` names the two
  (`Escaped`).
* A run that changes path and endpoint of one inbound makes receipts that cannot be undone:
  the undo of the endpoint lays the column out differently, and the undo of the path compares
  text (`rollback_lucx_publication`). It is refused although nobody has edited anything;
  `RefusedOnlyAfterEdits` excepts it (`LaidOut`), and the second plan of `publication` is one.
* The plan of a repair is compared with `state.json` before the lock is taken
  (`repair_apply`); what another process records in between is dropped.
  `LockedReadersKeepSettings` is about the other operations.
* A manual rollback restores files and `state.json` before the database is asked; when a
  receipt is refused, the receipts of that run are gone (`stranded` in `RollbackChain`).
* Between its last comparison with the record of acme.sh and the replacing of that record, the
  registration of the hook holds no lock that acme.sh takes. A renewal in between is overwritten
  (`raced` in `ApplyRun`): the registration then fails, because the certificate is no longer the
  one it measured, but the undo of a registration does not ask (`RenewalsKept` excepts it,
  `NoRenewalHidden` says that a registration which reports success has overwritten none).
* The change of single domains keeps one new domain for each old one (`domain_changes` in
  `questionnaire.py`). A direct inbound and one behind HAProxy may have one domain
  (`docs/PROJECT_DEVELOPMENT_CONTEXT_RU.md:47`); when they are given two, the site goes with
  the last, and the other domain has none. `DialogInv` excepts that inbound (`parted` in
  `Dialogs`) until a run of the wizard, of a move, of the decoys or of their mode has built the
  sites anew; the third answer of the wizard in `dialogs` leads there.
* A private file or directory is compared with its record and then removed by its name, in two
  calls: what takes its place in between is deleted (`raced` in `FunctionalStaging`). An entry put
  into a directory makes the rmdir fail and stays. `OnlyOwnDeleted` excepts that one name.
* A background worker of Naive records what it has seen at its last fence; a panel that writes
  its sources between that fence and `save_state` is one generation ahead of the record, until
  the job of its path unit has run (`RecordsWhatRuns` excepts it).
* The record of acme.sh is in no backup of a run: after the rollback of the run that
  registered the hook it still names it (`EveryRenewalServed` asks for a reload only while
  the hook is there).
* On a shared port other than 443 the extended frontend rejects unknown names although the
  default site was chosen: it looks for `network.public_port`, a key that does not exist
  (`_render_haproxy_extended`); Routing has the constant `Https` for it.
* The port of a managed Naive frontend keeps clear of fewer ports than those of the other
  listeners (`ManagedOccupied`; not of the public ones of panel and subscription).
  `ListenersApart` compares the other listeners with it, not it with those ports.
* After a rollback that removes HAProxy's configuration but not its package, HAProxy runs on
  with what it had, enabled, and a hook that other components have kept then fails at its
  check, so that a renewal reloads nothing (`RunUndone`, `EveryRenewalServed` except it).
* Nothing stops the backend of TrustTunnel: it runs on after its component was left out of a
  plan and after the rollback of the run that installed it (`Succeeded`, `RunUndone`).
* A subscription sent as plain text is passed on with its qWDTT links (`Handler.proxy`);
  `NeverPublished` is about the two formats that are rewritten.
* After a run that failed past its publication a resume is always refused: `failed-state.json`
  has the facts of the published database, which has been undone.
* An unforced rollback is refused after a DNS change made by the program itself, which does
  not keep the recorded digests in step; `RefusedOnlyAfterEdits` counts it as an edit.

### Bounds, and why they are enough

* Files: one path of each kind the transition distinguishes (generated, generated inside
  a managed directory, removed, `state.json`), one existing and one new parent. The loops
  treat paths one at a time, so a second path of a kind only repeats an iteration; the two
  generated files show that a failure between two iterations is handled. `MaxEdits` is 1, at
  every point of the run; for any number of edits `ForeignEditsKept` is proved.
* Publication: one inbound of each kind (with a JSON endpoint, without), up to two hosts
  on it, two runs. Two runs give receipts over receipts; a third repeats the second. The first
  changes a path and another inbound's endpoint, the second path and endpoint of one inbound.
  `MaxEdits` 2: one edit before the undo and one between two undos, or one before a
  transaction and one between it and its check. What the panel may write into `webDomain` has
  the old value and the one the plan asks for.
* Sessions: three processes: one that holds, one that planned, one that is refused or
  overtakes; `Commands` is every mix of the operations up to the order of the processes.
  `MaxWaits` bounds the tries of a waiting worker (180 s of 0.25 s in the code; the deadline
  is time, so `GiveUp` is possible after the first try) and `MaxCrashes` the kills.
* Rollback chain: three applies, so that a rollback can end in the middle of the chain and
  an apply can follow it; a page that is there and one that is not, a file that the second
  apply removes and the third writes again, one field of the database that every apply
  changes and one that only two do. `MaxEdits` and `MaxFaults` 1.
* Apply: six components, which are the kinds `_activate` and the undo treat apart
  (packaged or not, stopped, disabled, reloaded or never stopped); the second run removes
  three of the first and adds two, so that each is kept, removed or new; packages with and
  without HAProxy before. One renewal, one write of the panel, one fault.
* Naive: two targets, one whose contents differ in every generation and one whose contents
  do not but whose mode is wrong at the start (a write without a restart). `MaxGen` 2: the
  second restart of the panel comes while the jobs of the first still run. `MaxTries` 2
  instead of 24: the least with which a generation can settle. One write of others and one
  fault, of any kind, at any point.
* Staging: the script is the whole of the code's calls; three events of others or faults,
  at any steps (`MaxEvents`): one makes a cleanup fail, one its retry, and one comes
  before both. Session: one frontend, two further processes, one reused id and two
  sockets: a frontend with a child and a grandchild, or a stranger beside it.
* Dialogs: three in a row are a first plan, one that changes the names and one over both.
  A Naive, an XHTTP and a Reality inbound, which the code tells apart by their names,
  published by share address or by Host rows with an alias; one pair of zones, three
  answers of the wizard, in one of which two inbounds share a domain, one of the domain change,
  certificates of both clients.
* Frontend: two inbounds, each pair out of every kind the decisions tell apart and one of
  six companions; conflicts are between two. Ports are 1 to 40 with the same order of the
  ranges.
* Sidecar: two connections for one slot, each with one of eight questions; two AnyTLS inbounds
  of which one has the public port that is the other's internal one; three versions of the
  database: a commit that moves both of them, so that a request sees one before and one after,
  and one that stores settings of a third inbound that are no object.

### Fairness

* `FileTransaction`: `WF_vars(Proceed)`, the run's own steps; the other writer, and failure,
  are never obliged to act. The run is one thread with no wait, so it keeps being scheduled.
* `EngineSessions`: weak fairness of each started process. Starting a command and
  answering its question are the operator's and are not fair, nor is a crash.
* `ApplyRun`: `WF_vars(Forwards \/ Backwards)`, the steps of the process at work, and
  `WF_vars(AcmeHook)`: acme.sh runs the hook of the record after it has renewed, which is
  one process. Beginning a run or a rollback, renewing and editing are not fair.
* `NaiveSync`: `WF_vars(Job)`, the one job that has the lock goes on, and somebody takes a
  free lock that is asked for; `WF_vars(Panel)`, a panel that was restarted writes its
  sources and comes up. Without the latter a job ends with an error, which the property
  allows. Faults and other writers are not fair.
* `ForegroundSession`: `WF_vars(Session)`, the coordinator is one thread, and
  `WF_vars(GraceEnds)`, time passes. Processes are not fair: they may ignore SIGTERM for ever.
* `Sidecar`: the loop accepts and dispatches, each thread goes on, and each client whose
  handshake has begun finishes it or leaves. The last is a real assumption: the handshake has
  no time limit, and without it `EveryoneServed` does not hold.
* `Publication`, `RollbackChain`, `FunctionalStaging`, `Dialogs`, `Frontend`: safety only.

Runs that come to their end stop in a final state; their configurations say
`CHECK_DEADLOCK FALSE`: processes, jobs, connections and scripts that are done
(`engine_sessions`, `naive_sync`, `sidecar`, `foreground_session`, `functional_staging`),
plans that are used up (`rollback_chain`, `apply_run`), dialogs that are used up, and a
refused plan when no edit is left (`frontend`).

## 4. What is proved

Checked by TLAPS for every value of the constants that satisfies the assumptions named in
the modules (`ConstantsAssumption`, `SyncAssumption`, `BoundsAssumption`,
`InboundsAssumption`): bounds are
numbers, plans and initial states have the shape the code gives them, inbounds and
connections are finitely many, ports are ports.

* `FileTransactionProofs`, for any paths, contents, edits and faults. `TypeCorrect`, and
  `ForeignEditsAreKept`: no step of commit or restore changes a path that holds an edit one
  of the remaining checks can see. The invariant needs, besides the types, where the run can
  be for each stage (`Shape`), that an entry used by a check has been recorded (`Recorded`),
  that only journaled paths were changed by the run and only the stages to come may write
  (`Discipline`), and that between a check and the write it guards an edit is not counted
  as visible (`Guard`). `RollbackRestores` (`Restored`) and `EndsAsItSays` (`Outcome`) add to
  it (`RInv`): nothing is written before the backup has an entry for it (`Covered`); an edit
  below a directory is one of the directory (`Rooted`); a path that nobody else has touched
  is as the entry or the receipt says (`Untouched`); what the restore is done with has its
  old contents, is listed as a conflict, or was edited behind the last check (`Reported`);
  and how far the commit has come (`Written`).
* `LockProofs`, about `EngineSessions`: `TypesHold`, `EntrySealHolds` and `LockedReadersKeep`,
  for any number of processes and crashes. `EntryHolds` alone is not inductive, another process
  could write; it cannot, because exactly the process between the flock and `LOCK_UN` holds the
  lock (`Locked`), and what it will write contains what it read (`Grows`).
* `LockProofs`, about `NaiveSync`, for any targets, restarts, writes of others and faults:
  `SyncTypes` (`SyncTypeOK`), `StateAndFilesAgree` (`StateMatchesFiles`), `SyncInvariant` (`Inv`)
  and `RecordsRunning` (`RecordsWhatRuns`, which excepts what is written in the window before
  `save_state`; outside it panel and `state.json` are those of the fence, `Guarded`). The
  invariant (`SyncIInv`) says of each place of a job
  how its sets stand to each other (`Placed`), of each copy that nobody else has written
  meanwhile whether it is as the job found it, wrote it or put it back (`Installed`), that what
  it would put back is what `state.json` names (`Ours`), and that the hook has not started more
  jobs than the restarts account for (`Counted`). `Services` adds that a service which the job
  has not restarted runs what the job found. `SyncInvariant` and `RecordsRunning` have one
  hypothesis: what others put into a copy is never what the panel renders for one. Without it
  `ServicesRunFiles` is false: a job takes such a copy for its own, and one that fails and puts
  it back leaves a service that still runs what it ran before somebody wrote it. `SyncTypes` and
  `StateAndFilesAgree` need no hypothesis. TLC checked `SyncIInv` and `Services` on the instance
  of `naive_sync` first.
* `RollbackChainProofs`, for any plans, orders of the entries, edits and interrupted
  rollbacks: `RollbackReturns` (`Inv`), `RefusalHasCause` (`RefusedOnlyAfterEdits`) and
  `KeepsPoints`, the refinement of `SavePoints`. A rollback may go back over several runs, so
  the invariant speaks of every link of the chain: what run k found is what the `state.json`
  in its backup says of the run below (`Links`, `Consistent`), and for the top of the chain
  the same holds of what is there now (`Resting`); a run at work can be undone by its
  receipts (`Working`), and a rollback at work will give back what the run found
  (`Undoing`). The refinement has one lemma per action; a step of a rollback after the first
  is a stutter because `Due` already counts what is still to do. `Chain` is a recursive
  function; `ChainExists` and `Trace` unroll it.
* `ApplyRunProofs`, for any plans, components and packages, with any number of renewals,
  writes of the panel and faults. `RenewalsStay` (`RenewalsKept`): the record of acme.sh is
  never ahead of the certificate (`Behind`), what a process would put back is a record
  (`Remembers`), and between the comparison and the replacing the record is the one compared or
  acme.sh has come in between (`Window`), so that a step which lowers the stamp is a raced one;
  a registration that has overwritten a renewal does not get past its look at the certificate
  (`Unlost`, for `NoRenewalHidden`). `RunInvariant` (`Inv`) says what the three ends of a run
  promise. Its invariant `AInv` has what every version in the world can be (`World`, `Mind`,
  `Backups`), where each operation can be (`Stages`), and for an apply what it remembers
  (`ApplyMind`), which files, which value of the panel and which services can differ from the
  beginning at each place (`ApplyFiles`, `ApplyPanel`, `ApplyServices`) and what is in place on
  the way to success (`ApplyForwards`); `RollbackInv` does the same for the rollback of a
  finished run. In their first form the properties were false for general constants: the proof
  led to the exceptions that `Succeeded` and `RunUndone` name (HAProxy, TrustTunnel). TLC checked
  `AInv` on the instance of `apply_run` first.
* `FunctionalStagingProofs`, for any number of changes, interventions and faults:
  `GroupGone` (no private tree is looked at or removed while a process of the worker
  lives), `TestedIsCommitted`, `StagingInvariant` (`Inv`) and `RetriesComplete`
  (`RetryCompletes`). All need to know which call is at which place of the script, and
  the script is put together from parts; the first part of the module computes it to its
  69 calls (`ScriptIs`, `Places`). The invariant of the first is where the run can be
  while there are processes (`Group`). That of the second says what a run that may still
  commit has made sure of at each place: from the probes on, that what they saw is what
  was captured, or that a later look will find the copy or the configuration out of
  order (`Probed`); from the last look at a source on, that it was still the captured
  version (`Looked`). What the probes read live may have been newer than what was
  captured; because versions only grow (`Ordered`), one equal look after the probes
  rules that out. Each step of the script is one that goes on (`Passes`) or one after
  which the run cannot commit (`Stays`). The third (`LeftInv`) follows the owners of the
  private trees: each is handed over at one call, closed at another or in its turn of
  the finally, never twice (`Turns`, `Progress`), and what is left of one is known or
  reported (`Reported`). The fourth adds that, once the removal of a workspace has
  begun, the records left are exactly the paths that are there (`Retrying`), so that an
  intact rest passes the look and its deepest path can go. What is deleted is an invariant
  of its own (`Harmless`): a path about to be removed is its owner's or was replaced since it
  was compared (`Window`).
* `SessionProofs`, about `ForegroundSession`, for any number of processes, roles, addresses and
  reused ids. `OnlyMembersSignalled` and `NobodyLeft`: a life only grows, so the identity read
  after the pidfd was opened shows that the pidfd holds the first life, a member's (`Aimed`); ids
  are given out in their order (`InOrder`), so a child is behind its parent, and a scan that has
  found no member has only passed ids without one (`Scanned`): when it ends empty, nobody is left
  who could fork. `ReadyWhenTrue` (`ReadyWasTrue`): holders of one socket are of one origin
  (`Socket`), an inode number is not given out again (`Numbers`), so descriptors read before the
  listeners were read the second time still speak of the socket that is there (`Reading`,
  `Verdict`). `SessionInvariant` joins the types and the two about signals.
* `SessionProofs`, about `Dialogs`, for any panel, answers, certificates, zones and bounds
  (`DialogAssumption` types them: names are records of two strings, and no domain is no name).
  `ReplacesWhatWasRead` (`Protected`): in every manifest that is saved, kept for a resume, left
  for "check again", in the file or on the screen, the address a plan was made with is the one
  that its dialog read or the one the plan gives (`KnownAddresses`; the second is what a run that
  failed after it had published leaves in `failed-state.json`). Admission compares those facts
  with the panel, so what a run replaces was read. `MovesItsZoneOnly` (`ZoneOnly`): every domain
  of a move to another zone is the address of its plan, moved (`MovedTo`), also when the move was
  left and tried again. `DialogsAgree` (`DialogInv`): a run that commits ends with the audit
  of what it has read back, and what any other step changes in the saved manifest names nothing
  (`SameNames`). The sites are an invariant of their own (`SitesKept`): whatever the plans of
  single domains do to them, a manifest lacks a site only for inbounds of `parted`, and the plans
  that build the sites anew lack none, so that a run of one of them leaves nothing behind that
  does. In a change of domains the last of the inbounds with one domain decides (`LastOne`,
  which is why the inbounds of a database are assumed to have a last one). TLC checked
  `DialogIInv` and `SitesKept` on the instance of `dialogs` first.
* `PublicationProofs`, for any database, plans, failures and writes of the panel:
  `PublicationTypes` (`TypeOK`), `PublishesThePlan` (`Inv`, so `Published`),
  `UndoKeepsThePanel` (`UndoKeepsPanelWrites`), `UndoRestores` (`RestoredExactly`),
  `RefusesOnlyAfterEdits` (`RefusedOnlyAfterEdits`). A receipt says of
  each cell what it held and what it was given. As long as the panel does not write a cell, its
  receipts are a trail (`Trail`): each one starts where the one before it ended, the first at the
  baseline of the run, the last at what the database holds. `Applying` says so of the run at work,
  `Undoing` of an undo in the middle of its queue, `Stacked` of every run that rests on the stack,
  where the trail of one run ends where that of the next one starts; `UndoOwn` and `Recorded` add
  that what a receipt says was written is in the history, and `RowsLost` that a created row whose
  undo was refused is lost as a whole. What `_reverse_receipt` and the check of the routing
  compute over the receipts is the recursive function in `Accepted`, unrolled by induction
  (`AcceptedLeads`). `RefusesOnlyAfterEdits` holds of all plans: a refusal has its cause in a
  write of the panel since the receipts were checked, in what an earlier failure left in the same
  cells, or in a receipt of a transport path, the only one that compares the text of a whole
  column, and then the column still has the content the receipt says (`LaidOut`): only its layout
  is another, because the panel saved it or an endpoint of the same inbound was changed or taken
  back. The run has all three, and a plan with path and endpoint of one inbound.

  `PublishesThePlan` has to allow for a panel that writes before a transaction and after it, and
  for a request that makes no receipt because its value is already there. Its invariant (`Leads`)
  is about the content X that the transaction wrote. Each write serves its request (`WriteServes`)
  and keeps what the others have (`WriteKeeps`: among the hosts of an inbound the one rendered
  first stays the first, `PrimaryIsOne`). The receipts lead from the baseline to X in every cell
  that the panel has not written ahead of the transaction; there they lead to one value only
  (`FromOne`), and the check accepts no other (`AcceptedLeads`). In the cells it has written, the
  database still holds X when the check comes, unless the panel writes them again (`twice`). So a
  database that the check accepts is X, and the receipts lead to it; and they cannot lead to what
  a write left without leading to what it found (`FromBack`). The hypothesis is `Consistent`: the
  requests of a plan are about different things. `models.py:560` refuses a second entry for an
  inbound; `models.py:317-330` does not refuse a second change of a path for one, and of two the
  last holds: the dialogs append another (`questionnaire.py:843`, `tui.py:979`) when the panel has
  set the path back to the root. `MCPublication` assumes `Consistent`, so TLC evaluates it on its
  plans.
* `ServingProofs`, about `Frontend`: `FilesAreFresh`, for any inbounds, sources, settings and
  edits. The saved routes may be anything; the files of a run carry routes that were decided from
  the facts recorded with them (`Rendered`), and those are compared again before the files are put
  in force. `FrontendInvariant` (`FrontInv`) says of all files that are ever staged (`Sound`) that
  a name leads to the panel or the subscription only when it is theirs (`Named`), that the
  allocated ports are apart (`Apart`; no two keys have as many keys before them, `Told`) and that
  the firewall fits (`WallFits`). `ClientsReachTheirs` (`VpnReaches`) follows a client through the
  chain of listeners: what is decided of an inbound is decided once (`OneEach`) and is in force
  unless the run is refused (`KeptHas`), the entry of an inbound for a name on a port is the only
  one (`OwnDecides`, from the conflicts that `sni_route` refuses, and `NamesDistinct` for the
  strict frontend), and what is behind it knows the client by the names and Hosts the inbound
  publishes (`ClientBehind`). `BrowsersGetSites` (`BrowserGetsSite`) does so for a browser:
  whoever can be entered for a covered domain (`Covered`) is ready (`CoveredSays`), and a ready
  inbound hands a browser on, or serves a site itself (`SiteBehind`). The proof of it showed which
  domains are counted as covered without their site being shown, and TLC has an example of each
  when it is not excluded: a name that the clients of another inbound show (the SNI of a TCP
  inbound may be the domain of a UDP one, a Reality endpoint may have its own address for an SNI),
  which stays with those clients, and the further domains of the TrustTunnel inbound that has the
  separate backend, which lead to the inbound itself (`renderers.py:481`). Both are `OfClients`.
  What is counted when the plan is made is no promise either: the saved routes may be emptied and
  a Naive source may change after it, and what the acceptance asks for is what the saved plan and
  the current facts both count as covered (`_capabilities` in `decoy_health.py`). Mieru and qWDTT
  put behind HAProxy at a port that is not the shared one are led to a site; their clients show no
  name, and `VpnReaches` is about those that do.
* `ServingProofs`, about `Sidecar`, for any number of connections, slots, failures, lines and
  versions of the database: `SlotsAddUp` and `OpenOnFailure` (a connection enters and leaves its
  thread in one step each, with a slot; whoever is past the gate was let in: `LetIn`; a thread
  that the panel has answered ends by sending or by one of the two errors that nobody catches:
  `Heard`),
  `ServerInvariant` (`Inv`) and `EveryLineDelivered` (`Delivered`). The last needs what the
  rewriting computes: by induction over the lines, the output for the first n lines has the names
  of those that were kept, once and in their order (`Treated`, carried by `WInv`). `LinksLeadHome`
  (`OwnEndpoint`) has the hypothesis `Steady`: while a request is served the inbound of a link
  stays published with its internal port, no other AnyTLS inbound has that port, and a host that
  the inbound gives up goes to no other one. Inbounds may share a host, and a public port may be
  another's internal one. The hypothesis is what the score of `rewrite_anytls_public_endpoint`
  rests on (`OwnScore`): without it a link that the panel wrote before a commit can score higher
  for the inbound that has its old host. The invariant (`OwnInv`) says that the versions of
  answer and inbounds follow each other since the request began and that each host row is of a
  version of its own after that (`Dated`). `MCSidecar` assumes `Steady`, so TLC evaluates it on
  its instance.

Induction: the induction theorems of the library take an operator as a parameter, which no
installed prover instantiates. What is computed by a recursive function is nevertheless
proved, from the well-foundedness of < on the naturals, with a set of counterexamples in
place of the operator (`NatInd` in `LockProofs`, `NatInd` and `Recursion` in `ServingProofs` and
`PublicationProofs`, `Least` and `ChainExists` in `RollbackChainProofs`); the model writes those
computations as functions for that reason.

Only model-checked is liveness, which is out of the prover's reach as `ENABLED` is:
`Terminates`, `Progress`, `EveryRenewalServed`, `ReloadsFollowed`, `EveryoneServed`,
`CleanupEnds`. Every safety and action property of the runs that pass is stated by a theorem.

## 5. Plan

All modules of section 2 are written and run, and what the runs check is proved but for
liveness. What could follow are the parts of section 6, the hazards without a property first.

## 6. Not modelled

`PROJECT.json` lists each part with the reason.

* Reading and text: `discovery.py` beyond what the dialogs and the publication use, `status.py`,
  `diagnostics.py`, `planner.py`, `migrations.py`, the layout of rendered files, menus that
  only read. They keep no state between calls.
* Network probes (`vpn_probes*.py`, `naive_probes.py`, `decoy_health.py`, `protocol_test.py`) and
  downloads (`updates.py`, `cloudflare.py`, `decoy_content.py`): input and output; in the models
  a probe is a step that may fail.
* `sqlite_snapshot.py` rests on the layout of database pages and frames of the WAL; the models
  read a database as of one commit.
* `integrity.py`, `naive_bridge.py`, `naive_runtime.py` and `staging_eligibility.py` compare what
  they read; the models have the comparison as a guard.
* The values of the network tuning and of the DNS drop-in, the installed Cloudflare script and the
  self-installation write files of their own, outside the transaction of a run.
* In `NaiveSync` a job that is killed is left out (`docs/SECURITY_MODEL_RU.md:17`), and the
  synchronisation that an apply or a rollback runs itself is one step of `ApplyRun`.
* Of nftables the UDP ports, the ports of SSH and the rules with the addresses of Cloudflare;
  `FirewallFits` is about the TCP ports of what is published.
* In `Dialogs` the typing of ports and paths, and in `Sidecar` the parsing and encoding of links.
