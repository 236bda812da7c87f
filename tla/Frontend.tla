------------------------------ MODULE Frontend ------------------------------
(****************************************************************************)
(* From the panel's inbounds to the frontend in force.  A person plans (the   *)
(* inbounds are read again, a route is decided for each and both are saved in *)
(* the manifest); a run of the configurator audits, renders and installs; the *)
(* panel and the Naive sources change when they like, and the saved routes    *)
(* may have been edited by hand or emptied.  Routing holds the decisions.     *)
(****************************************************************************)
EXTENDS Routing

CONSTANTS ID,            \* the ids an inbound may have
          Absent,        \* the record of an id without an enabled inbound
          Profiles,      \* [ID -> set of inbounds]: what the panel may hold
          Later,         \* [ID -> set of inbounds]: what the panel may come to hold
          Sources,       \* the Naive sources: records [kind, version]
          NoSource,      \* the record of an inbound without one
          Settings,      \* the settings a manifest may have
          None,          \* no manifest, no files
          MaxEdits       \* bound: changes of the panel and of the manifest

\* Every port is one that ensure_port lets pass.
PortsIn(p) == p.public \in 1 .. LastPort /\ \A e \in p.eps : e.port \in 1 .. LastPort

ASSUME InboundsAssumption ==
  /\ ID \subseteq Nat \ {0} /\ IsFiniteSet(ID) /\ LastPort \in Nat /\ MaxEdits \in Nat
  /\ \A i \in ID : \A p \in Profiles[i] \cup Later[i] : p.id = i /\ PortsIn(p)
  /\ \A m \in Settings : /\ {"mode", "shared", "sites"} \subseteq DOMAIN m
                         /\ m.mode \in {"strict", "extended"} /\ m.shared \in 1 .. LastPort
                         /\ NoName \notin m.sites

VARIABLES settings,   \* what the person chose in the dialogs
          inbounds,   \* [ID -> inbound or Absent]: the panel's database
          source,     \* [ID -> source]: the Naive Caddyfiles
          manifest,   \* the saved plan
          staged,     \* the rendered files of a run that has not committed
          live,       \* the files in force
          edits

frontVars == <<settings, inbounds, source, manifest, staged, live, edits>>

Enabled == {inbounds[i] : i \in {j \in ID : inbounds[j] # Absent}}

FrontInit ==
  /\ settings \in Settings
  /\ inbounds \in [ID -> (UNION {Profiles[i] : i \in ID}) \cup {Absent}]
  /\ \A i \in ID : inbounds[i] \in Profiles[i]
  /\ \E s \in Sources : source = [i \in ID |-> IF inbounds[i].proto = "naive" THEN s ELSE NoSource]
  /\ manifest = None /\ staged = None /\ live = None
  /\ edits = 0

----------------------------------------------------------------------------
(* The outside world.                                                       *)

Edit == edits < MaxEdits /\ edits' = edits + 1

\* A person adds, changes or removes an inbound in the panel.
EditPanel(i, p) ==
  /\ Edit /\ p # inbounds[i]
  /\ inbounds' = [inbounds EXCEPT ![i] = p]
  /\ source' = [source EXCEPT ![i] = NoSource]
  /\ UNCHANGED <<settings, manifest, staged, live>>

\* LucX writes the Caddyfile of a Naive inbound again.
EditSource(i, s) ==
  /\ Edit /\ inbounds[i] # Absent /\ inbounds[i].proto = "naive" /\ s # source[i]
  /\ source' = [source EXCEPT ![i] = s]
  /\ UNCHANGED <<settings, inbounds, manifest, staged, live>>

\* The saved routes are emptied, or a side site is claimed for an inbound.
EditRoutes ==
  /\ Edit /\ manifest # None
  /\ \/ manifest' = [manifest EXCEPT !.routes = <<>>]
     \/ \E k \in DOMAIN manifest.routes :
          manifest' = [manifest EXCEPT !.routes[k].strategy = "tcp_side_site", !.routes[k].status = "ready"]
  /\ UNCHANGED <<settings, inbounds, source, staged, live>>

----------------------------------------------------------------------------
(* The configurator.                                                        *)

\* The sites are those of their own and one for every domain of an inbound.
Planned(m0, ps) ==
  LET m      == [m0 EXCEPT !.sites = @ \cup UNION {Domains(p) : p \in ps}]
      routes == IF m.mode = "strict" THEN <<>> ELSE Classify(m, ps, source)
      front  == [m EXCEPT !.naiveFrontend =
                   \E k \in DOMAIN routes : routes[k].strategy = "naive_managed"]
  IN [settings |-> front, inbounds |-> ps, routes |-> routes, promised |-> ManagedNames(front, ps, routes)]

Plan ==
  /\ staged = None
  /\ manifest' = Planned(settings, Enabled)
  /\ manifest' # manifest
  /\ UNCHANGED <<settings, inbounds, source, staged, live, edits>>

\* The audit agrees with what was planned.
Audited == manifest.inbounds = Enabled

\* A program other than HAProxy already listens on a port HAProxy is to take.
BindConflict(m, ps) ==
  \E p \in ps : /\ p.expo \in {"tcp_direct", "tcp_udp_direct"} /\ p.net \in {"tcp", "both"}
                /\ \/ p.internal \in {m.panelPort, m.subPort}
                   \/ m.enabled /\ p.internal = m.shared
                   \/ \E q \in ps : q.expo = "tcp_sni" /\ q.public = p.internal

\* What is rendered is decided again from the audit; the saved routes only
\* have to agree.
Stage ==
  LET m     == manifest.settings
      ps    == manifest.inbounds
      fresh == Classify(m, ps, source)
  IN /\ manifest # None /\ staged = None
     /\ Audited
     /\ ~BindConflict(m, ps)
     /\ Valid(m, ps, manifest.routes, manifest.promised)
     /\ m.mode = "extended" => /\ Verified(m, ps, source, manifest.routes, fresh)
                               /\ Renderable(m, ps, fresh)
     /\ staged' = Files(m, ps, source, manifest.routes, manifest.promised)
     /\ UNCHANGED <<settings, inbounds, source, manifest, live, edits>>

\* Faulty variant: the audit before the files are replaced looks at the database only.
UnmovedInbounds == staged.inbounds = Enabled

\* The audit before the files are replaced finds the panel and the sources as
\* they were when the files were rendered.
Unmoved == staged.inbounds = Enabled /\ staged.source = source

CommitFiles ==
  /\ staged # None /\ Unmoved
  /\ live' = staged /\ staged' = None
  /\ UNCHANGED <<settings, inbounds, source, manifest, edits>>

GiveUp ==
  /\ staged # None /\ ~Unmoved
  /\ staged' = None
  /\ UNCHANGED <<settings, inbounds, source, manifest, live, edits>>

FrontNext ==
  \/ \E i \in ID : \/ \E p \in Later[i] \cup {Absent} : EditPanel(i, p)
                   \/ \E s \in Sources : EditSource(i, s)
  \/ EditRoutes \/ Plan \/ Stage \/ CommitFiles \/ GiveUp

FrontSpec == FrontInit /\ [][FrontNext]_frontVars

----------------------------------------------------------------------------
(* Properties.                                                              *)

\* Types.
FrontTypeOK ==
  /\ settings \in Settings
  /\ \A i \in ID : inbounds[i] \in Profiles[i] \cup Later[i] \cup {Absent}
  /\ source \in [ID -> Sources \cup {NoSource}]
  /\ manifest # None => manifest.inbounds \subseteq UNION {Profiles[i] \cup Later[i] : i \in ID}
  /\ edits \in 0 .. MaxEdits

Ask(port, name, asks, of, host) ==
  [port |-> port, sni |-> name, tls |-> TRUE, from |-> "elsewhere", hello |-> 0,
   asks |-> asks, of |-> of, host |-> host]

\* The panel and the subscription are reached from Cloudflare only, when that
\* was asked for, whatever the inbounds are; and nobody gets to them by a name
\* that is not theirs.
Sheltered ==
  live # None =>
    \A port \in {live.settings.panelPort, live.settings.subPort, live.settings.shared} :
      \A name \in {e.name : e \in live.table} :
        LET to == Handle(live, Ask(port, name, "site", 0, name)) IN
        /\ live.settings.cloudflare => to.kind \notin {"panel", "sub"}
        /\ to.kind = "panel" => name = Panel
        /\ to.kind = "sub" => name = Sub

\* The listeners the frontend opens for itself do not take each other's port,
\* nor one that LucX, the panel, a site or a managed Naive frontend has.  (What a
\* managed one keeps clear of itself is less, ManagedOccupied, and not compared.)
Apart(f) ==
  LET managed == {r.listen : r \in {x \in f.routes : x.strategy = "naive_managed"}}
  IN /\ IsInjective(f.split) /\ IsInjective(f.connect)
     /\ Range(f.split) \cap Range(f.connect) = {}
     /\ (Range(f.split) \cup Range(f.connect)) \cap (Reserved(f.settings, f.inbounds) \cup managed) = {}

ListenersApart == live # None => Apart(live)

\* The ports a person has given to what is reached over the loopback interface
\* only, and those given to what is public.
Internal(m) == {m.panelIn, m.subIn, m.sidecarPort, m.decoy, m.decoy + 1}
Public(m, ps) == {m.shared, m.panelPort, m.subPort} \cup
                 UNION {{p.public} \cup {e.port : e \in p.eps} \cup p.ports \cup p.span : p \in ps}

\* The allowlist of the firewall admits every port the frontend listens on, no
\* listener that the frontend has opened for itself, and, where nobody has given
\* a port twice, none that is meant for the loopback interface.
WallFits(f) ==
  /\ {e.port : e \in f.table} \subseteq f.admits
  /\ (Range(f.split) \cup Range(f.connect)) \cap f.admits = {}
  /\ Internal(f.settings) \cap Public(f.settings, f.inbounds) = {} => f.closed \cap f.admits = {}

FirewallFits == live # None /\ live.settings.allowlist => WallFits(live)

FrontInv == FrontTypeOK /\ Sheltered /\ ListenersApart /\ FirewallFits

\* A client of an inbound, by one of its public endpoints.
Client(p, i, host) ==
  [Ask(i.port, i.name, "vpn", p.id, host) EXCEPT !.hello = IF p.hello THEN p.id ELSE 0]

Arrives(f, p, i, host) ==
  LET to == Handle(f, Client(p, i, host))
  IN \/ to \in {To("inbound", p.id, 0), To("managed", p.id, 0)}
     \/ CompatOwns(f.settings, p) /\ to.kind = "compat"

\* Every client that comes by a name (those of Mieru and qWDTT show none) reaches
\* its own inbound by every public endpoint of it, through whichever chain of
\* listeners, whatever else is published on the same ports.
ClientsArrive(f) ==
  \A p \in f.inbounds : Routed(p) /\ ~Aside(p) =>
    \A i \in {x \in Ingresses(p, f.settings.shared) : x.kind = "vpn"}, host \in VpnHosts(p) : Arrives(f, p, i, host)

VpnReaches == live # None => ClientsArrive(live)

\* The names that belong to the clients of an inbound: those they show which are
\* no domain of it, any that they show to a Reality inbound, and the further
\* domains of the inbound that has the separate TrustTunnel backend.
Shown(p) == p.snis \cup UNION {e.names : e \in p.eps}
OfClients(f) ==
  {d \in UNION {Shown(p) \cup Domains(p) : p \in f.inbounds} :
     \E p \in f.inbounds : \/ d \in Shown(p) /\ (p.sec = "reality" \/ d \notin Domains(p))
                           \/ CompatOwns(f.settings, p) /\ d \in Domains(p) \ {p.domain}}

SiteOf(f, d) ==
  LET to == Handle(f, Ask(f.settings.shared, d, "site", 0, d)) IN
  \/ to = Site \/ to.kind = "compat"
  \/ \E r \in f.routes : /\ r.strategy \in {"naive_native", "naive_managed"}
                         /\ d \in Domains(r.facts) /\ to.id = r.id

\* A browser that opens a domain whose site the acceptance asks for gets the
\* site of that domain, or the server (Naive, or the separate TrustTunnel
\* backend) that serves one itself; a name of the VPN clients stays with them.
SitesShown(f) ==
  \A d \in (Covered(f) \cap f.settings.sites) \ ({Panel, Sub} \cup OfClients(f)) : SiteOf(f, d)

BrowserGetsSite == live # None /\ live.settings.enabled => SitesShown(live)

\* What is put in force was decided from the panel and the sources as they are
\* at that moment, whatever was planned, saved or edited in between.
LiveIsFresh ==
  [][live' # live => live'.inbounds = Enabled /\ live'.source = source
                     /\ live'.routes \subseteq Kept(Classify(live'.settings, Enabled, source))]_frontVars

=============================================================================
