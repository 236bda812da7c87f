------------------------------ MODULE Domains ------------------------------
(****************************************************************************)
(* The names a server is published under, and what the dialogs make of them: *)
(* the manifest built by the wizard, the change of single domains, the move   *)
(* to another DNS zone, the refresh from the panel's database, the decoy      *)
(* sites, and then what a run checks (validation.py) and writes back into the *)
(* panel (transaction.py, engine.py).  Pure operators over two records.       *)
(*                                                                          *)
(*  db, the panel's database: web, sub (webDomain, subDomain), uri (subURI or  *)
(*    NoName), cert, on (the enabled inbounds), hosts (the addresses of the    *)
(*    enabled Host rows, in order), share (share_addr or NoName), tls (the     *)
(*    names in the TLS or Reality settings), direct (inbounds whose public     *)
(*    port is their listener's), rooted (inbounds whose path is "/")           *)
(*  m, a manifest: panel, sub, base (of the subscription links), protocols,    *)
(*    flags (settings_management: "domains", "urls", "endpoints", "paths",     *)
(*    "names"), paths (inbound_changes), decoys, sites, apex, mode, cert,      *)
(*    renewal, sidecar, hosts (allowed_hosts of the sidecar), cloud            *)
(*    (cloudflare.enabled, which stands for the settings no name depends on)   *)
(*                                                                          *)
(* A name is a label in a zone, an apex has an empty label.  A certificate is *)
(* the set of zones it covers with their apexes, and the client it came from. *)
(****************************************************************************)
EXTENDS Naturals, Sequences, SequencesExt

CONSTANTS Reality,     \* the inbounds with Reality: their names belong to others
          Naive,       \* the Naive inbounds: without a name of their own they use the address
          Xhttp,       \* the inbounds with the XHTTP transport
          NoName       \* no domain

ASSUME KindsApart == Reality \cap Naive = {} /\ Reality \cap Xhttp = {} /\ Naive \cap Xhttp = {}

Apex(zone) == [label |-> "", zone |-> zone]

Replace(n, old, new) == IF n # NoName /\ n.zone = old THEN [n EXCEPT !.zone = new] ELSE n

NoBase == [kind |-> "none", name |-> NoName]
Absolute(n) == [kind |-> "url", name |-> n]
\* "name/" without a scheme: urlsplit finds no netloc in it.
Bare(n) == [kind |-> "bare", name |-> n]
Netloc(base) == IF base.kind = "url" THEN base.name ELSE NoName

----------------------------------------------------------------------------
(* What an audit reads of an inbound.                                       *)

Share(db, i) == IF db.hosts[i] # <<>> THEN Head(db.hosts[i]) ELSE db.share[i]

HostNames(db, i) == IF db.hosts[i] # <<>> THEN ToSet(db.hosts[i]) ELSE {db.share[i]} \ {NoName}

ServerNames(db, i) == IF i \in Naive /\ db.tls[i] = {} THEN HostNames(db, i) ELSE db.tls[i]

\* Stands for source_routing_fingerprint: two facts are the same only when the
\* fingerprints are.
Facts(db, i) == [share |-> Share(db, i), hosts |-> db.hosts[i], names |-> ServerNames(db, i),
                 direct |-> i \in db.direct, rooted |-> i \in db.rooted]

Inferred(db, i) == IF i \in db.direct THEN "direct" ELSE "tcp_sni"

SubscriptionSni(db, i, d) ==
  ServerNames(db, i) \cup IF i \in Reality /\ ServerNames(db, i) # {} THEN {} ELSE {d}

\* An endpoint without a Host row takes the chosen domain.
Endpoints(db, i, d) == IF db.hosts[i] = <<>> THEN {d} ELSE ToSet(db.hosts[i])

Planned(m) == DOMAIN m.protocols
EndpointDomains(p) == {p.dom} \cup p.ends
AllEndpointDomains(m) == UNION {EndpointDomains(m.protocols[i]) : i \in Planned(m)}
Sites(m) == AllEndpointDomains(m) \cup {IF m.apex # NoName THEN m.apex ELSE Apex(m.panel.zone)}

Required(m) == {m.panel, m.sub} \cup IF m.decoys THEN m.sites ELSE {}
Covers(c, names) == \A n \in names : n.zone \in c.zones
\* The order is refused when a name is outside the zone.
Orderable(m, zone) == \A n \in Required(m) : n.zone = zone
Ordered(zone) == [zones |-> {zone}, by |-> "certbot"]

----------------------------------------------------------------------------
(* The wizard.                                                              *)

\* Blank or 1 selects every name found, otherwise some of them.
Selected(names, few) == IF few THEN {CHOOSE n \in names : TRUE} ELSE names

WizardProtocol(db, i, a) ==
  [dom |-> a.dom[i], expo |-> a.expo[i],
   sni |-> IF a.expo[i] = "tcp_sni" THEN Selected(SubscriptionSni(db, i, a.dom[i]), a.few) ELSE {},
   ends |-> Endpoints(db, i, a.dom[i]), facts |-> Facts(db, i), sync |-> a.expo[i] # "none",
   follow |-> FALSE]

\* The base of an existing subURI is kept, whatever subscription domain was typed.
WizardBase(db, a) ==
  IF ~a.urls THEN NoBase ELSE Absolute(IF db.uri = NoName THEN a.sub ELSE db.uri)

WizardFlags(db, a) ==
  (IF db.web # a.panel \/ db.sub # a.sub THEN {"domains"} ELSE {})
  \cup (IF a.urls THEN {"urls"} ELSE {})
  \cup (IF \E i \in db.on : a.expo[i] # "none" THEN {"endpoints"} ELSE {})

WithDecoys(m, apex) ==
  LET on == [m EXCEPT !.decoys = TRUE, !.apex = apex] IN [on EXCEPT !.sites = Sites(on)]

\* A root path cannot be told from a browser's: the route is blocked, and the
\* person may allow another path.
BlockedXhttp(m, db) ==
  {i \in Planned(m) \cap Xhttp : i \in db.rooted /\ m.protocols[i].expo # "direct"}
Repath(m, db, yes) == IF yes THEN [m EXCEPT !.paths = @ \cup BlockedXhttp(m, db)] ELSE m

WithSidecar(m, yes) == [m EXCEPT !.sidecar = yes, !.hosts = IF yes THEN {m.sub} ELSE @]

Wizard(db, a, c) ==
  LET m == [panel |-> a.panel, sub |-> a.sub, base |-> WizardBase(db, a),
            protocols |-> [i \in db.on |-> WizardProtocol(db, i, a)],
            flags |-> WizardFlags(db, a), paths |-> {},
            decoys |-> FALSE, sites |-> {}, apex |-> NoName, mode |-> "strict",
            cert |-> c, renewal |-> c.by # "other" \/ a.renew, sidecar |-> FALSE, hosts |-> {}, cloud |-> a.cloud]
      d == IF a.decoys THEN Repath([WithDecoys(m, a.apex) EXCEPT !.mode = "extended"], db, a.repath) ELSE m
  IN WithSidecar(d, a.sidecar)

----------------------------------------------------------------------------
(* Single domains, a whole zone, a refresh.                                 *)

SameInbounds(m, db) == Planned(m) = db.on

\* The site of an old domain becomes the site of the new one; of two inbounds
\* with one old domain the last decides.
RenamedSite(m, a, s) ==
  LET of == {i \in Planned(m) : m.protocols[i].dom = s} IN IF of = {} THEN s ELSE a.dom[Max(of)]

Reconfigure(m, db, a, c) ==
  LET protocol(i) ==
        LET e == Inferred(db, i) IN
        [m.protocols[i] EXCEPT !.dom = a.dom[i], !.expo = e, !.facts = Facts(db, i), !.sync = TRUE,
           !.sni = IF e = "tcp_sni" THEN SubscriptionSni(db, i, a.dom[i]) ELSE {},
           !.ends = Endpoints(db, i, a.dom[i])]
  IN WithSidecar([m EXCEPT !.panel = a.panel, !.sub = a.sub, !.flags = {"domains", "endpoints"},
       !.protocols = [i \in Planned(m) |-> protocol(i)],
       !.sites = IF m.decoys THEN {RenamedSite(m, a, s) : s \in @} ELSE @,
       !.cert = c, !.renewal = @ \/ c.by # "other"], a.sidecar)

\* The endpoints and the facts stay as the audit had them; of the sites only
\* those of the domains and of the new apex are built again.
Migrate(m, old, new) ==
  LET protocol(i) ==
        [m.protocols[i] EXCEPT !.dom = Replace(@, old, new), !.sync = @ \/ m.protocols[i].expo # "none",
           !.sni = IF i \in Reality THEN @ ELSE {Replace(n, old, new) : n \in @}]
      moved == [i \in Planned(m) |-> protocol(i)]
      sub   == Replace(m.sub, old, new)
  IN [m EXCEPT !.panel = Replace(@, old, new), !.sub = sub, !.protocols = moved, !.hosts = {sub},
        !.apex = Apex(new), !.sites = {moved[i].dom : i \in Planned(m)} \cup {Apex(new)},
        !.flags = @ \cup {"domains", "endpoints"},
        !.base = IF m.base = NoBase THEN Absolute(sub) ELSE Bare(Replace(Netloc(m.base), old, new))]

\* The certificate found or ordered for the new zone, and the answer that the
\* names in the TLS settings follow the domain.
Switched(m, c) ==
  LET followers == Planned(m) \ Reality IN
  [m EXCEPT !.cert = c, !.renewal = @ \/ c.by # "other",
     !.flags = @ \cup {"paths"} \cup IF followers = {} THEN {} ELSE {"names"},
     !.protocols = [i \in Planned(m) |-> [m.protocols[i] EXCEPT !.follow = @ \/ i \in followers]]]

RefreshedProtocol(m, db, i) ==
  LET p == m.protocols[i]
      d == IF Share(db, i) # NoName THEN Share(db, i) ELSE p.dom
      e == Inferred(db, i)
  IN [p EXCEPT !.dom = d, !.expo = e, !.sni = IF e = "tcp_sni" THEN SubscriptionSni(db, i, d) ELSE {},
        !.ends = Endpoints(db, i, d), !.facts = Facts(db, i), !.sync = @ \/ (i \in Naive /\ e = "tcp_sni")]

\* Faulty variant: the sites are left to the next change of domains.
RefreshKeepsSites(m, db) ==
  LET now == [m EXCEPT !.protocols = [i \in Planned(m) |-> RefreshedProtocol(m, db, i)]]
  IN [now EXCEPT !.renewal = @ \/ m.cert.by # "other",
                 !.hosts = IF m.sidecar THEN {m.sub} ELSE @]

Refresh(m, db) ==
  LET now   == [m EXCEPT !.protocols = [i \in Planned(m) |-> RefreshedProtocol(m, db, i)]]
      any   == \E i \in Planned(m) : now.protocols[i].sync
      stale == m.base # NoBase /\ Netloc(m.base) # m.sub
      flags == (m.flags \ {"endpoints"}) \cup (IF any THEN {"endpoints"} ELSE {})
               \cup (IF stale THEN {"urls"} ELSE {})
  IN [now EXCEPT !.flags = flags, !.base = IF stale THEN Absolute(m.sub) ELSE @,
        !.renewal = @ \/ m.cert.by # "other",
        !.sites = IF m.decoys THEN (m.sites \ AllEndpointDomains(m)) \cup AllEndpointDomains(now) ELSE @,
        !.hosts = IF m.sidecar THEN {m.sub} ELSE @]

----------------------------------------------------------------------------
(* What a run checks of a manifest, writes into the panel and reads again.  *)

RouteNames(m, i) ==
  LET p == m.protocols[i] IN IF p.expo = "tcp_sni" THEN p.sni \cup EndpointDomains(p) ELSE {}

Valid(m) ==
  /\ m.panel # m.sub
  /\ \A i \in Planned(m) : {m.panel, m.sub} \cap RouteNames(m, i) = {}
  /\ \A i, j \in Planned(m) : i # j => RouteNames(m, i) \cap RouteNames(m, j) = {}
  /\ "names" \in m.flags => "paths" \in m.flags
  /\ "urls" \in m.flags => m.base # NoBase
  /\ m.mode = "extended" => m.decoys

Audited(m, db, pending) ==
  /\ SameInbounds(m, db)
  /\ (db.web # m.panel \/ db.sub # m.sub) => pending /\ "domains" \in m.flags
  /\ \A i \in Planned(m) :
       LET p == m.protocols[i] IN
       /\ p.facts = Facts(db, i)
       /\ Share(db, i) \notin {NoName, p.dom} => pending /\ p.sync /\ {"domains", "endpoints"} \subseteq m.flags

Publishes(m) == m.flags # {}

\* Raised before the first write: nothing is published.
PublicationRefused(m, db) ==
  /\ Publishes(m)
  /\ \/ "urls" \in m.flags /\ m.base.kind # "url"
     \/ \E i \in Planned(m) : LET p == m.protocols[i] IN
          \/ p.follow /\ i \notin Reality /\ "paths" \notin m.flags
          \/ p.sync /\ Len(db.hosts[i]) > 1 /\ (Head(db.hosts[i]) # p.dom \/ (i \in db.direct) # (p.expo = "direct"))

\* Faulty variant: the names of Reality inbounds follow too.
RewrittenNamesAll(m, db, i) ==
  {IF m.protocols[i].sync /\ n # m.protocols[i].dom THEN m.protocols[i].dom ELSE n : n \in db.tls[i]}

\* Only a name that equals the address published so far follows it.
RewrittenNames(m, db, i) ==
  IF m.protocols[i].follow /\ i \notin Reality
  THEN {IF n = Share(db, i) THEN m.protocols[i].dom ELSE n : n \in db.tls[i]}
  ELSE db.tls[i]

Published(m, db) ==
  LET moved == {i \in Planned(m) : m.protocols[i].sync}
      repathed == [db EXCEPT !.rooted = @ \ m.paths]
  IN IF ~Publishes(m) THEN repathed
     ELSE [repathed EXCEPT
       !.web = IF "domains" \in m.flags THEN m.panel ELSE @,
       !.sub = IF "domains" \in m.flags THEN m.sub ELSE @,
       !.uri = IF "urls" \in m.flags THEN m.base.name ELSE @,
       !.cert = IF "paths" \in m.flags THEN m.cert ELSE @,
       !.tls = [i \in DOMAIN @ |-> IF i \in Planned(m) THEN RewrittenNames(m, db, i) ELSE @[i]],
       !.share = [i \in DOMAIN @ |-> IF i \in moved THEN m.protocols[i].dom ELSE @[i]],
       !.hosts = [i \in DOMAIN @ |-> IF i \in moved /\ Len(@[i]) <= 1 THEN <<m.protocols[i].dom>> ELSE @[i]],
       !.direct = {i \in DOMAIN db.hosts : IF i \in moved THEN m.protocols[i].expo = "direct" ELSE i \in @}]

\* The names chosen in the wizard give way to those the panel now has.
Reread(m, db) ==
  IF ~Publishes(m) /\ m.paths = {} THEN m
  ELSE [m EXCEPT !.protocols = [i \in Planned(m) |->
          [m.protocols[i] EXCEPT !.facts = Facts(db, i), !.ends = HostNames(db, i),
                                 !.sni = ServerNames(db, i)]]]
=============================================================================
