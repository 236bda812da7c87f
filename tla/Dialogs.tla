------------------------------ MODULE Dialogs ------------------------------
(****************************************************************************)
(* The dialogs of the configurator (tui.py, cli.py) over the state they keep: *)
(* the panel's database, the saved manifest, the manifest of the last failed  *)
(* run, the intention an unsuccessful dialog leaves for "check again", and a   *)
(* manifest file a person may edit.  A dialog reads, asks and shows a plan;    *)
(* the panel and another session may change things before the plan is         *)
(* confirmed; a run then publishes what it says or undoes everything.         *)
(* Domains holds what the answers make of a manifest.                         *)
(****************************************************************************)
EXTENDS Domains

CONSTANTS None,           \* nothing saved, asked or left
          Databases,      \* the panel's databases at the start
          Certificates,   \* the certificates on disk at the start
          WizardAnswers,  \* what a person may type in the wizard
          DomainAnswers,  \* ... in the change of single domains
          Zones,          \* pairs <<old, new>> of DNS zones
          Apexes,         \* the zone apexes a person may type for the decoys
          PanelNames,     \* the names a person may type in the panel
          MaxDialogs, MaxEdits, MaxFaults   \* bounds

Names == [label : STRING, zone : STRING]

\* Every inbound that a panel may have.
Inbounds == UNION {DOMAIN d.hosts : d \in Databases}

\* A database as far as names go; only enabled inbounds that it has.
IsDatabase(d) ==
  LET I == DOMAIN d.hosts IN
  /\ DOMAIN d = {"web", "sub", "uri", "cert", "on", "hosts", "share", "tls", "direct", "rooted"}
  /\ d.on \subseteq I
  /\ d.hosts \in [I -> Seq(Names)] /\ d.share \in [I -> Names \cup {NoName}]
  /\ d.tls \in [I -> SUBSET Names]

ASSUME DialogAssumption ==
  /\ NoName \notin Names
  /\ \A d \in Databases : IsDatabase(d)
  /\ Inbounds \subseteq Nat
  /\ Inbounds # {} => \E last \in Inbounds : \A i \in Inbounds : i <= last
  /\ PanelNames \subseteq Names
  /\ \A a \in WizardAnswers \cup DomainAnswers : a.dom \in [Inbounds -> Names]
  /\ \A z \in Zones : z[2] \in STRING
  /\ MaxDialogs \in Nat /\ MaxEdits \in Nat /\ MaxFaults \in Nat

VARIABLES db,        \* the panel's database
          certs,     \* the certificates on disk
          saved,     \* state.json: [m, run, seen]
          failed,    \* failed-state.json: [m, seen]
          pending,   \* the intention for "check again": [m, kind, seen, zones]
          job,       \* the dialog that is open: [stage, kind, m, seen, zones, seal]
          file,      \* the manifest file beside the configurator
          touched,   \* the panel was edited since the last run that committed
          dialogs, edits, faults,
          parted     \* history: the inbounds that shared a domain and were given one of their own

dialogVars == <<db, certs, saved, failed, pending, job, file, touched, dialogs, edits, faults, parted>>

DialogInit ==
  /\ db \in Databases /\ certs = Certificates
  /\ saved = None /\ failed = None /\ pending = None /\ job = None /\ file = None
  /\ touched = FALSE
  /\ dialogs = 0 /\ edits = 0 /\ faults = 0 /\ parted = {}

\* What the panel published when a plan read it: Share of every inbound.
Seen == [i \in DOMAIN db.hosts |-> Share(db, i)]

----------------------------------------------------------------------------
(* The outside world.                                                       *)

Edit == edits < MaxEdits /\ edits' = edits + 1

\* A person renames an inbound, adds a second Host row or changes a path.
PanelHost(i, hosts) ==
  /\ Edit /\ hosts # db.hosts[i]
  /\ db' = [db EXCEPT !.hosts[i] = hosts] /\ touched' = TRUE
  /\ UNCHANGED <<certs, saved, failed, pending, job, file, dialogs, faults, parted>>

PanelDomain(n) ==
  /\ Edit /\ n # db.web
  /\ db' = [db EXCEPT !.web = n] /\ touched' = TRUE
  /\ UNCHANGED <<certs, saved, failed, pending, job, file, dialogs, faults, parted>>

PanelSwitch(i) ==
  /\ Edit
  /\ db' = [db EXCEPT !.on = IF i \in @ THEN @ \ {i} ELSE @ \cup {i}] /\ touched' = TRUE
  /\ UNCHANGED <<certs, saved, failed, pending, job, file, dialogs, faults, parted>>

\* Another session commits the switch of the Cloudflare restriction.
OtherSession ==
  /\ Edit /\ saved # None
  /\ saved' = [saved EXCEPT !.m.cloud = ~@, !.run = @ + 1]
  /\ UNCHANGED <<db, certs, failed, pending, job, file, touched, dialogs, faults, parted>>

FileEdited ==
  /\ Edit /\ file # None
  /\ file' = [file EXCEPT !.m.cloud = ~@]
  /\ UNCHANGED <<db, certs, saved, failed, pending, job, touched, dialogs, faults, parted>>

----------------------------------------------------------------------------
(* Opening a dialog: what is asked becomes a draft, the draft is prepared and *)
(* shown.  A draft that cannot be prepared is left as the intention.          *)

Run == IF saved = None THEN 0 ELSE saved.run
Open == job = None /\ dialogs < MaxDialogs /\ dialogs' = dialogs + 1

\* The repair and the command line do not touch the intention of the session.
Apart == {"repair", "file"}
Intention(kind, m, seen, zones) == [kind |-> kind, m |-> m, seen |-> seen, zones |-> zones]
Left(kind, m, seen, zones) == IF kind \in Apart THEN pending ELSE Intention(kind, m, seen, zones)

Offer(kind, m, seen, zones) ==
  \E prepared \in BOOLEAN :
    IF Valid(m) /\ prepared
    THEN /\ job' = [stage |-> "shown", kind |-> kind, m |-> m, seen |-> seen, zones |-> zones,
                    seal |-> IF kind = "file" THEN file ELSE Run]
         /\ pending' = IF kind \in Apart THEN pending ELSE None
    ELSE job' = None /\ pending' = Left(kind, m, seen, zones)

Dialog(kind, m, seen) ==
  /\ Open /\ Offer(kind, m, seen, None)
  /\ UNCHANGED <<db, certs, saved, failed, file, touched, edits, faults, parted>>

Initial(a, c) == db.on # {} /\ Dialog("wizard", Wizard(db, a, c), Seen)

\* The inbounds that lose their site: a later one with the same domain is given
\* another, and the site goes with it.
Parted(m, a) ==
  {i \in Planned(m) : m.decoys /\ \E j \in Planned(m) :
     j > i /\ m.protocols[j].dom = m.protocols[i].dom /\ a.dom[j] # a.dom[i]}

Domain(a, c) ==
  /\ saved # None /\ SameInbounds(saved.m, db)
  /\ LET m == Reconfigure(saved.m, db, a, c)
     IN Covers(c, Required(m)) /\ Open /\ Offer("domains", m, Seen, None)
  /\ parted' = parted \cup Parted(saved.m, a)
  /\ UNCHANGED <<db, certs, saved, failed, file, touched, edits, faults>>

\* The whole zone: refreshed and moved.  A certificate that covers every name
\* is taken, otherwise one is ordered before the plan is made.
Zone(z) ==
  /\ saved # None /\ SameInbounds(saved.m, db)
  /\ LET m     == Migrate(Refresh(saved.m, db), z[1], z[2])
         found == {c \in certs : Covers(c, Required(m))}
     IN \/ \E c \in found : Open /\ Offer("zone", Switched(m, c), Seen, z)
        \/ /\ found = {} /\ Open /\ UNCHANGED pending
           /\ job' = [stage |-> "order", kind |-> "zone", m |-> m, seen |-> Seen, zones |-> z, seal |-> z[2]]
  /\ UNCHANGED <<db, certs, saved, failed, file, touched, edits, faults, parted>>

Certbot(zone) ==
  /\ Open /\ saved # None
  /\ job' = [stage |-> "order", kind |-> "certbot", m |-> saved.m, seen |-> saved.seen, zones |-> None, seal |-> zone]
  /\ UNCHANGED <<db, certs, saved, failed, pending, file, touched, edits, faults, parted>>

\* Certbot runs for minutes.  A refused or failed order leaves nothing behind.
CertificateIssued ==
  /\ job # None /\ job.stage = "order" /\ Orderable(job.m, job.seal)
  /\ LET c == Ordered(job.seal)
         m == IF job.kind = "zone" THEN Switched(job.m, c)
              ELSE [job.m EXCEPT !.cert = c, !.renewal = TRUE, !.flags = @ \cup {"paths"}]
     IN certs' = certs \cup {c} /\ Offer(job.kind, m, job.seen, job.zones)
  /\ UNCHANGED <<db, saved, failed, file, touched, dialogs, edits, faults, parted>>

CertificateRefused ==
  /\ job # None /\ job.stage = "order"
  /\ job' = None
  /\ UNCHANGED <<db, certs, saved, failed, pending, file, touched, dialogs, edits, faults, parted>>

\* Renewal of the pair in use: a run of its own for acme.sh, otherwise a common
\* one that also writes the paths of the certificate into the panel.
Renewal ==
  /\ saved # None /\ saved.m.cert \in certs /\ Covers(saved.m.cert, Required(saved.m))
  /\ LET on == [saved.m EXCEPT !.renewal = TRUE]
     IN IF saved.m.cert.by = "acme.sh" THEN Dialog("renewal", on, saved.seen)
        ELSE Dialog("paths", [on EXCEPT !.flags = @ \cup {"paths"}], saved.seen)

Extended(m) == [Refresh(m, db) EXCEPT !.mode = "extended"]

Decoys(apex, repath) ==
  /\ saved # None /\ SameInbounds(saved.m, db)
  /\ LET m == Repath(Extended(WithDecoys(saved.m, apex)), db, repath)
     IN Dialog("decoys", IF repath THEN Extended(m) ELSE m, Seen)

Mode ==
  /\ saved # None /\ SameInbounds(saved.m, db)
  /\ LET m == Refresh(saved.m, db)
     IN Dialog("mode", [m EXCEPT !.mode = IF @ = "strict" THEN "extended" ELSE "strict"], Seen)

Sidecar(yes) == saved # None /\ Dialog("sidecar", WithSidecar(saved.m, yes), saved.seen)

Cloudflare == saved # None /\ Dialog("cloudflare", [saved.m EXCEPT !.cloud = ~@], saved.seen)

\* "Check again": the intention left, or else the saved plan.
Retry ==
  /\ Open
  /\ IF pending # None THEN Offer(pending.kind, pending.m, pending.seen, pending.zones)
     ELSE saved # None /\ Offer("saved", saved.m, saved.seen, None)
  /\ UNCHANGED <<db, certs, saved, failed, file, touched, edits, faults, parted>>

Resume == failed # None /\ Dialog("resume", failed.m, failed.seen)

Repair ==
  /\ saved # None /\ SameInbounds(saved.m, db)
  /\ Dialog("repair", Refresh(saved.m, db), Seen)

\* --plan writes a manifest file that is not there yet, --apply --manifest reads it.
PlanToFile(a, c) ==
  /\ Open /\ file = None /\ db.on # {} /\ Valid(Wizard(db, a, c))
  /\ file' = [m |-> Wizard(db, a, c), seen |-> Seen]
  /\ UNCHANGED <<db, certs, saved, failed, pending, job, touched, edits, faults, parted>>

FromFile == file # None /\ Dialog("file", file.m, file.seen)

----------------------------------------------------------------------------
(* The answer to the plan.                                                  *)

Shown == job # None /\ job.stage = "shown"

Decline ==
  /\ Shown /\ job' = None
  /\ UNCHANGED <<db, certs, saved, failed, pending, file, touched, dialogs, edits, faults, parted>>

\* Faulty variant: whatever the renewal dialog was shown is registered.
RenewalOnlyAny == saved # None

\* The renewal is registered only beside the saved settings, renewal apart.
RenewalOnly ==
  saved # None /\ [job.m EXCEPT !.renewal = saved.m.renewal] = saved.m

\* The plan was made from the state, or from the file, as it still is.
Fence ==
  /\ job.kind = "repair" => job.seal = Run
  /\ job.kind = "file" => job.seal = file

Admitted ==
  /\ Fence
  /\ IF job.kind = "renewal" THEN RenewalOnly ELSE Valid(job.m) /\ Audited(job.m, db, TRUE)

\* Refused before the first write: only the intention stays.
ApplyRefused ==
  /\ Shown /\ ~Admitted
  /\ job' = None /\ pending' = Left(job.kind, job.m, job.seen, job.zones)
  /\ UNCHANGED <<db, certs, saved, failed, file, touched, dialogs, edits, faults, parted>>

Certified(m) == m.cert \in certs /\ Covers(m.cert, Required(m))
After == Published(job.m, db)
Final == Reread(job.m, After)
Succeeds == /\ ~PublicationRefused(job.m, db)
            /\ Audited(Final, After, FALSE)
            /\ Certified(Final)

\* The panel, the files and the certificates are restored.  What is kept for a
\* resume is the manifest as far as the run came: once it has published, with
\* the facts of the published database.
ApplyFailed ==
  /\ Shown /\ Admitted
  /\ \/ faults < MaxFaults /\ faults' = faults + 1
     \/ (IF job.kind = "renewal" THEN ~Certified(job.m) ELSE ~Succeeds) /\ UNCHANGED faults
  /\ job' = None /\ pending' = Left(job.kind, job.m, job.seen, job.zones)
  /\ \/ job.kind = "renewal" /\ UNCHANGED failed
     \/ job.kind # "renewal" /\ failed' = [m |-> job.m, seen |-> job.seen]
     \/ /\ job.kind # "renewal" /\ ~PublicationRefused(job.m, db)
        /\ failed' = [m |-> Final, seen |-> job.seen]
  /\ UNCHANGED <<db, certs, saved, file, touched, dialogs, edits, parted>>

\* The dialogs whose plans have the sites of all their domains, built anew.  After
\* the run of one nothing is left that may lack a site.
Anew == {"wizard", "zone", "decoys", "mode"}

Applied ==
  /\ Shown /\ Admitted /\ job.kind # "renewal" /\ Succeeds
  /\ db' = After
  /\ saved' = [m |-> Final, run |-> Run + 1, seen |-> [i \in DOMAIN db.hosts |-> Share(After, i)]]
  /\ failed' = None /\ job' = None /\ touched' = FALSE
  /\ pending' = IF job.kind \in Apart THEN pending ELSE None
  /\ parted' = IF job.kind \in Anew THEN {} ELSE parted
  /\ UNCHANGED <<certs, file, dialogs, edits, faults>>

RenewalApplied ==
  /\ Shown /\ Admitted /\ job.kind = "renewal" /\ Certified(job.m)
  /\ saved' = [saved EXCEPT !.m = job.m, !.run = @ + 1]
  /\ job' = None /\ pending' = None
  /\ UNCHANGED <<db, certs, failed, file, touched, dialogs, edits, faults, parted>>

----------------------------------------------------------------------------
DialogNext ==
  \/ \E i \in DOMAIN db.hosts, n \in PanelNames : PanelHost(i, <<n>>) \/ PanelHost(i, db.hosts[i] \o <<n>>)
  \/ \E n \in PanelNames : PanelDomain(n)
  \/ \E i \in DOMAIN db.hosts : PanelSwitch(i)
  \/ OtherSession \/ FileEdited
  \/ \E a \in WizardAnswers, c \in certs : Initial(a, c) \/ PlanToFile(a, c)
  \/ \E a \in DomainAnswers, c \in certs : Domain(a, c)
  \/ \E z \in Zones : Zone(z) \/ Certbot(z[2])
  \/ CertificateIssued \/ CertificateRefused
  \/ Renewal \/ Mode \/ Cloudflare \/ Retry \/ Resume \/ Repair \/ FromFile
  \/ \E apex \in Apexes, repath \in BOOLEAN : Decoys(apex, repath)
  \/ \E yes \in BOOLEAN : Sidecar(yes)
  \/ Decline \/ ApplyRefused \/ ApplyFailed \/ Applied \/ RenewalApplied

DialogSpec == DialogInit /\ [][DialogNext]_dialogVars

----------------------------------------------------------------------------
(* What the dialogs keep.                                                   *)

Kinds == {"wizard", "domains", "zone", "certbot", "renewal", "paths", "decoys", "mode", "sidecar",
          "cloudflare", "saved", "resume", "repair", "file"}

DialogTypeOK ==
  /\ certs \subseteq Certificates \cup {Ordered(z[2]) : z \in Zones}
  /\ saved # None => DOMAIN saved = {"m", "run", "seen"} /\ saved.run \in Nat
  /\ failed # None => DOMAIN failed = {"m", "seen"}
  /\ pending # None => pending.kind \in Kinds \ Apart
  /\ job # None => job.kind \in Kinds /\ job.stage \in {"order", "shown"}
  /\ touched \in BOOLEAN /\ edits \in 0..MaxEdits /\ faults \in 0..MaxFaults /\ dialogs \in 0..MaxDialogs

\* The panel says what the saved manifest says: its two domains, the address of
\* every inbound, the facts the routes were planned from, and the certificate
\* once its paths were given to the panel.
InStep ==
  LET m == saved.m IN
  /\ db.web = m.panel /\ db.sub = m.sub /\ SameInbounds(m, db)
  /\ \A i \in Planned(m) : Share(db, i) \in {NoName, m.protocols[i].dom} /\ m.protocols[i].facts = Facts(db, i)
  /\ "paths" \in m.flags => db.cert = m.cert

\* What is derived from the names follows them: every domain has a site of its
\* own, the sidecar answers for the subscription domain and for no other, and
\* the certificate covers what is served.  The exception are the inbounds that
\* lost their site when a domain they shared was changed.
Served(m) ==
  /\ m.decoys => \A i \in Planned(m) \ parted : m.protocols[i].dom \in m.sites
  /\ m.sidecar => m.hosts = {m.sub}
  /\ Covers(m.cert, Required(m))

\* Whatever dialogs, failures, retries, repairs and edits went before: what is
\* saved is complete, and as long as nobody edits the panel after a run the
\* panel and the saved manifest agree (the last act of every run in engine.py is
\* to save the manifest it has read back from the panel).  Complete but for one
\* case, in which the code loses a site: two inbounds have one domain, as a direct
\* one and one behind HAProxy may, and the change of single domains gives them two
\* (domain_changes in questionnaire.py keeps the last).  A site can then be missing
\* for the other inbound, and for no inbound else, until a run of the wizard, of a
\* move, of the decoys or of their mode has built the sites again.
DialogInv ==
  /\ DialogTypeOK
  /\ saved # None => Served(saved.m) /\ (~touched => InStep)

\* A run replaces only what its plan was shown with: an address is replaced only
\* if the panel still has the one the dialog read, also when the plan comes from
\* a retry, a resume or a file (validate_audit_against_manifest); a file counts
\* only as it was when it was shown, a repair only for the state it was made
\* from; the renewal of acme.sh changes nothing but the renewal
\* (enable_certificate_renewal); and nothing else than a run changes the state
\* of this session (OtherSession is another one).
Protected ==
  [][saved' # saved /\ job' # job =>
       /\ \A i \in DOMAIN db.hosts :
            LET after == IF db'.hosts[i] # <<>> THEN Head(db'.hosts[i]) ELSE db'.share[i] IN
            Share(db, i) # after => Share(db, i) \in {NoName, job.seen[i]}
       /\ job.kind = "file" => saved'.m.cloud = file.m.cloud
       /\ job.kind = "repair" => saved'.run = job.seal + 1
       /\ job.kind = "renewal" => [saved'.m EXCEPT !.renewal = saved.m.renewal] = saved.m /\ db' = db]_dialogVars

\* A move to another zone leaves alone what is not of the old zone: addresses
\* and TLS names of other zones, and everything a Reality inbound shows to the
\* outside (migrate_manifest_dns_zone, _endpoint_field_plan).
ZoneOnly ==
  [][saved' # saved /\ job' # job /\ job.kind = "zone" =>
       \A i \in DOMAIN db.hosts :
         /\ \A k \in DOMAIN db.hosts[i] : db.hosts[i][k].zone # job.zones[1] => db'.hosts[i][k] = db.hosts[i][k]
         /\ \A n \in db.tls[i] : i \in Reality \/ n.zone # job.zones[1] => n \in db'.tls[i]]_dialogVars

\* questionnaire.py, in the migration: "A previously configured subscription base
\* URL still points at the old zone; without rewriting it the public subURI family
\* would be recreated with the stale domain and links would break after the
\* migration."  So the base it makes must be one the publication can write, an
\* absolute URL (synchronize_lucx_publication refuses any other).
MigratedBaseWorks ==
  job # None /\ job.kind = "zone" /\ job.stage = "shown" /\ job.m.base # NoBase
    => ~("urls" \in job.m.flags /\ job.m.base.kind # "url")
=============================================================================
