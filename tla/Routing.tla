------------------------------- MODULE Routing -------------------------------
(****************************************************************************)
(* How a public name is led to an inbound or to a decoy site: the decision  *)
(* for every inbound (extended_decoys.py, routing_profiles.py), the listener *)
(* ports given to the decisions, the table of the HAProxy frontend           *)
(* (renderers.py), the check of a manifest (models.py), and what the frontend *)
(* then does with a connection.  Pure operators over two kinds of record:    *)
(*                                                                          *)
(*  an inbound p: id, proto, net, uot, sec, trans, path, expo, domain, snis,  *)
(*    hosts, eps, internal, public, ports, span, hello, wrapped               *)
(*    eps is the set of its public endpoints [addr, port, names, host]; names *)
(*    is {} for a blank SNI and has several members for an inherited Reality  *)
(*    set, host tells whether the endpoint overrides the HTTP Host.           *)
(*  the settings m of a manifest: mode, shared, enabled, unknown, sites,      *)
(*    cloudflare, panelPort, subPort, panelIn, subIn, sidecar, sidecarPort,   *)
(*    decoy, compat, compatPort, binary, allowlist                            *)
(*                                                                          *)
(* Ports are small numbers, names are model values, paths are "", "/" or      *)
(* "/own": nothing else about them is told apart.                             *)
(****************************************************************************)
EXTENDS Naturals, Sequences, FiniteSets, SequencesExt

CONSTANTS Panel, Sub,        \* the public names of the panel and of the subscription
          NoName,            \* no domain
          Https,             \* 443, the port the code falls back to
          SplitStart,        \* 24443
          ManagedStart,      \* 26443
          LastPort           \* 65535

----------------------------------------------------------------------------
(* Facts of one inbound.                                                    *)

Routed(p) == p.expo = "tcp_sni" /\ p.net \in {"tcp", "both"}
Tls(p) == p.sec = "tls" \/ p.proto = "anytls"
OnlyUdp(p) == p.net = "udp" /\ ~p.uot

Domains(p) == ({p.domain} \cup {e.addr : e \in p.eps}) \ {NoName}

\* Every endpoint has a confirmed name; a set of names only Reality inherits.
Confirmed(p) ==
  \A e \in p.eps : /\ e.names # {}
                   /\ Cardinality(e.names) > 1 => p.sec = "reality" /\ e.names \subseteq p.snis

At(port, names, kind) == {[port |-> port, name |-> n, kind |-> kind] : n \in names}

Ingresses(p, shared) ==
  At(shared, Domains(p), "site") \cup
  IF Routed(p)
  THEN At(p.public, p.snis, "vpn") \cup At(p.public, {p.domain}, "site") \cup
       UNION {At(e.port, e.names, "vpn") \cup At(e.port, {e.addr}, "site") : e \in p.eps}
  ELSE {}

\* public_ingresses does not raise.
Ingressable(p) == Routed(p) => Confirmed(p) /\ p.snis # {} /\ p.domain # NoName

Reserved(m, ps) ==
  {m.shared, m.panelPort, m.subPort, m.panelIn, m.subIn, m.sidecarPort}
  \cup m.decoy .. m.decoy + 2
  \cup UNION {{p.public, p.internal} \cup {e.port : e \in p.eps} \cup p.ports \cup p.span : p \in ps}

\* Ports for keys, each the next free one after that of the key before it: the
\* port that has as many free ports below it as the key has keys before it.
\* "none" holds the keys for which no port was left.
Allocate(before, start, taken) ==
  LET free == (start .. LastPort) \ taken
      PortsOf(k) == {p \in free : Cardinality({q \in free : q < p}) = Cardinality(before[k])}
      none == {k \in DOMAIN before : PortsOf(k) = {}}
  IN [port |-> [k \in DOMAIN before \ none |-> CHOOSE p \in PortsOf(k) : TRUE], none |-> none]

\* The ids before each id.
Ascending(ids) == [i \in ids |-> {j \in ids : j < i}]

----------------------------------------------------------------------------
(* The decision for one inbound.  FirstOf takes the first rule that applies, *)
(* as the chain of continue statements does.                                *)

Blocked == "blocked"
FirstOf(rules) == rules[CHOOSE i \in DOMAIN rules : rules[i][1] /\ \A j \in 1 .. i - 1 : ~rules[j][1]][2]
If(condition, strategy) == IF condition THEN strategy ELSE Blocked

Unusable(p) ==
  \/ p.domain = NoName
  \/ Tls(p) /\ p.net \in {"tcp", "both"} /\ ~Confirmed(p)
  \/ \E e \in p.eps : e.host
  \/ Tls(p) /\ \E e \in p.eps : e.names = {} \/ ~(e.names \subseteq p.snis \cup {x.addr : x \in p.eps})

OwnsShared(m, p) == \/ p.net \in {"tcp", "both"} /\ p.public = m.shared
                    \/ m.shared \in p.ports

Aside(p) == p.proto \in {"mieru", "qwdtt"} \/ p.expo \in {"tcp_direct", "tcp_udp_direct"}

RealitySite(p) == If(Domains(p) \cap p.snis = {}, "reality_endpoint_site")

BackendName(p) == IF p.domain \in p.snis \/ p.snis = {} THEN p.domain
                  ELSE IF Cardinality(p.snis) = 1 THEN CHOOSE n \in p.snis : TRUE ELSE NoName

ConnectCandidate(p, source) ==
  /\ p.proto = "naive" /\ p.net = "tcp" /\ p.trans = "tcp" /\ p.sec \in {"", "tls"}
  /\ p.expo = "tcp_sni" /\ p.wrapped = "no" /\ ~p.uot /\ p.path = "" /\ p.hosts = {}
  /\ p.eps # {} /\ Ingressable(p) /\ \A e \in p.eps : ~e.host
  /\ source.kind = "forward" /\ BackendName(p) # NoName

NaiveStrategy(m, p, source) ==
  CASE source.kind = "native"  -> "naive_native"
    [] source.kind = "forward" ->
         IF m.binary /\ (Cardinality(p.eps) > 1 => m.naiveFrontend) THEN "naive_managed"
         ELSE If(ConnectCandidate(p, source), "naive_connect_h2")
    [] OTHER -> Blocked

TrustStrategy(p) == If(p.hello, "trusttunnel_clienthello_split")

HttpStrategy(p) ==
  CASE p.trans = "xhttp" -> If(p.path = "/own", "xhttp_tls_split")
    [] p.trans = "http"  -> Blocked
    [] OTHER             -> If(p.path # "", "http_tls_split")

BinaryStrategy(p) ==
  If(p.proto \in {"shadowsocks", "anytls"} /\ Tls(p) /\ p.trans = "tcp" /\ p.domain \in p.snis,
     "binary_tls_split")

Xray == {"vmess", "vless", "trojan", "shadowsocks", "anytls"}

Strategy(m, p, source) == FirstOf(<<
  <<Unusable(p), Blocked>>,
  <<OnlyUdp(p), "tcp_side_site">>,
  <<p.wrapped = "review", Blocked>>,
  <<Aside(p), If(~OwnsShared(m, p), "tcp_side_site")>>,
  <<p.sec = "reality", RealitySite(p)>>,
  <<p.proto = "naive", NaiveStrategy(m, p, source)>>,
  <<p.proto = "trusttunnel", TrustStrategy(p)>>,
  <<Tls(p) /\ p.proto \in Xray /\ p.trans # "tcp", HttpStrategy(p)>>,
  <<TRUE, BinaryStrategy(p)>> >>)

\* The facts stand for routing_fingerprint and for the fields copied from the
\* inbound; two routes are the same only when their facts are.
Route(m, p, source) ==
  LET s == Strategy(m, p, source) IN
  [id |-> p.id, strategy |-> s, facts |-> p, shared |-> m.shared, source |-> source, listen |-> 0,
   status |-> CASE s = Blocked -> "blocked" [] s = "naive_connect_h2" -> "candidate" [] OTHER -> "ready"]

\* An inbound in a wrapper is blocked by a break that leaves only the loop over
\* the wrappers: the chain goes on, and the same row is entered a second time.
Rows(p) == {<<p.id, 1>>} \cup IF p.wrapped = "extra" /\ ~Unusable(p) /\ ~OnlyUdp(p) THEN {<<p.id, 2>>} ELSE {}

By(ps, i) == CHOOSE p \in ps : p.id = i

\* The ports the managed Naive frontends keep clear of: fewer than Reserved.
ManagedOccupied(m, ps) ==
  {m.shared, m.panelIn, m.subIn, m.decoy, m.decoy + 1}
  \cup UNION {{p.internal} \cup {e.port : e \in p.eps} \cup p.span : p \in ps}

\* The list of the decisions is a function from its rows; no order of it matters.
Classify(m, ps, source) ==
  LET row     == [i \in {p.id : p \in ps} |-> Route(m, By(ps, i), source[i])]
      managed == {i \in DOMAIN row : row[i].strategy = "naive_managed"}
      given   == Allocate(Ascending(managed), ManagedStart, ManagedOccupied(m, ps))
      Decided(i) == IF i \notin managed THEN row[i]
                    ELSE IF i \in given.none THEN [row[i] EXCEPT !.strategy = Blocked, !.status = "blocked"]
                    ELSE [row[i] EXCEPT !.listen = given.port[i]]
  IN [k \in UNION {Rows(p) : p \in ps} |-> Decided(k[1])]

----------------------------------------------------------------------------
(* Saved routes are used only when they say what the current facts say.     *)

Ids(routes) == {routes[k].id : k \in DOMAIN routes}

\* The text of a Naive source is needed unless the inbound has one row, and that
\* puts it aside of the frontend without the text.
SourceNeeded(m, p) ==
  p.proto = "naive" /\ ~(Strategy(m, p, [kind |-> "none"]) = "tcp_side_site" /\ Rows(p) = {<<p.id, 1>>})

Verified(m, ps, source, cached, fresh) ==
  /\ \A p \in ps : SourceNeeded(m, p) => source[p.id].kind \in {"native", "forward"}
  /\ cached # <<>> => /\ Cardinality(DOMAIN cached) = Cardinality(Ids(cached))
                      /\ Ids(cached) = Ids(fresh)
                      /\ Range(cached) \subseteq Range(fresh)

\* A blocked inbound keeps its names, passed through; a blocked UDP one needs none.
Passed(r) == r.status = "blocked" /\ Routed(r.facts) /\ r.facts.snis # {}
Refused(r) == r.status = "blocked" /\ ~Passed(r) /\ ~OnlyUdp(r.facts)
Kept(routes) ==
  {[r EXCEPT !.strategy = IF Passed(r) THEN "passthrough" ELSE @] :
     r \in {x \in Range(routes) : x.status # "blocked" \/ Passed(x)}}

----------------------------------------------------------------------------
(* The table of the extended frontend: where a name on a port is led.       *)

To(kind, id, port) == [kind |-> kind, id |-> id, port |-> port]
Site == To("site", 0, 0)
Entry(port, name, to) == [port |-> port, name |-> name, to |-> to]

SplitStrategies == {"http_tls_split", "xhttp_tls_split", "binary_tls_split", "trusttunnel_clienthello_split"}

Supported == SplitStrategies \cup
  {"tcp_side_site", "reality_endpoint_site", "naive_connect_h2", "naive_managed", "naive_native", "passthrough"}

SplitPorts(m, ps, rs) ==
  Allocate(Ascending({r.id : r \in {x \in rs : x.strategy \in SplitStrategies}}), SplitStart,
           Reserved(m, ps) \cup {r.listen : r \in rs})

\* A Naive CONNECT candidate has a listener of its own for every public port.
ConnectKeys(m, rs) ==
  LET own == {r \in rs : r.strategy = "naive_connect_h2"}
      all == UNION {{<<r.id, i.port>> : i \in Ingresses(r.facts, m.shared)} : r \in own}
  IN [a \in all |-> {b \in all : b[1] < a[1] \/ (b[1] = a[1] /\ b[2] < a[2])}]

\* Faulty variant: the second kind of listener does not look at the first.
ConnectPortsFromStart(m, ps, rs) ==
  Allocate(ConnectKeys(m, rs), SplitStart, Reserved(m, ps) \cup {r.listen : r \in rs})

ConnectPorts(m, ps, rs) ==
  LET given == SplitPorts(m, ps, rs)
      used  == {given.port[i] : i \in DOMAIN given.port}
  IN Allocate(ConnectKeys(m, rs), IF used = {} THEN SplitStart ELSE Max(used) + 1,
              Reserved(m, ps) \cup used \cup {r.listen : r \in rs})

CompatOwns(m, p) == m.compat # NoName /\ p.domain = m.compat

Target(m, r, i) ==
  LET p == r.facts
      vpn == {[port |-> x.port, name |-> x.name] : x \in {y \in Ingresses(p, m.shared) : y.kind = "vpn"}}
  IN IF CompatOwns(m, p) THEN IF i.name = p.domain THEN To("compat", 0, 0) ELSE To("inbound", p.id, 0)
     ELSE CASE r.strategy = "tcp_side_site" -> Site
            [] r.strategy = "reality_endpoint_site" ->
                 IF [port |-> i.port, name |-> i.name] \in vpn THEN To("inbound", p.id, 0) ELSE Site
            [] r.strategy \in SplitStrategies -> To("split", p.id, 0)
            [] r.strategy = "naive_connect_h2" -> To("connect", p.id, i.port)
            [] r.strategy = "naive_managed" -> To("managed", p.id, 0)
            [] r.strategy \in {"passthrough", "naive_native"} -> To("inbound", p.id, 0)

\* A side site yields to an owner of the name: its entries are looked at last.
Yields(m, r, i) == r.strategy = "tcp_side_site" /\ ~CompatOwns(m, r.facts) /\ i.kind = "site"

OwnEntries(m, rs) ==
  {Entry(m.panelPort, Panel, To("panel", 0, 0)), Entry(m.subPort, Sub, To("sub", 0, 0))} \cup
  UNION {{Entry(i.port, i.name, Target(m, r, i)) :
            i \in {x \in Ingresses(r.facts, m.shared) : ~Yields(m, r, x)}} : r \in rs}

Owned(entries, port, name) == \E e \in entries : e.port = port /\ e.name = name

SideEntries(m, rs, own) ==
  UNION {{Entry(i.port, i.name, Site) :
            i \in {x \in Ingresses(r.facts, m.shared) : Yields(m, r, x) /\ ~Owned(own, x.port, x.name)}} : r \in rs}

\* A site of its own is routed when no inbound has its name, on whatever port.
AloneEntries(m, rs, entries) ==
  {Entry(m.shared, d, Site) :
     d \in {x \in m.sites : /\ \A r \in rs : x \notin Domains(r.facts) \cup r.facts.snis
                            /\ ~Owned(entries, m.shared, x)}}

ExtendedTable(m, rs) ==
  LET own  == OwnEntries(m, rs)
      side == own \cup SideEntries(m, rs, own)
  IN side \cup AloneEntries(m, rs, side)

\* sni_route raises: a name on a port would be led to two places.
Conflict(entries) == \E e, f \in entries : e.port = f.port /\ e.name = f.name /\ e.to # f.to

\* A ClientHello whose random starts with the prefix of a TrustTunnel inbound
\* goes to that inbound, for the names of the inbound on that port.
TrustRules(m, rs) ==
  UNION {{[port |-> i.port, name |-> i.name, id |-> r.id] : i \in Ingresses(r.facts, m.shared)} :
           r \in {x \in rs : x.strategy = "trusttunnel_clienthello_split" /\ ~CompatOwns(m, x.facts)}}

Renderable(m, ps, routes) ==
  LET rs == Kept(routes) IN
  /\ \A k \in DOMAIN routes : ~Refused(routes[k])
  /\ \A p \in ps : Ingressable(p)
  /\ \A r \in rs : r.strategy \in Supported
  /\ SplitPorts(m, ps, rs).none = {} /\ ConnectPorts(m, ps, rs).none = {}
  /\ \A r \in rs : CompatOwns(m, r.facts) => r.facts.proto = "trusttunnel"
  /\ \A r \in rs : r.strategy \in SplitStrategies => BackendName(r.facts) # NoName
  /\ ~Conflict(OwnEntries(m, rs))

----------------------------------------------------------------------------
(* Which names are promised a site, and the table of the strict frontend.   *)

\* Only a vpn name of a Reality inbound is taken from the sites.
SniOwners(m, ps, d) ==
  {p \in ps : /\ p.expo = "tcp_sni"
              /\ \E i \in Ingresses(p, m.shared) :
                   i.port = m.shared /\ i.name = d /\ (i.kind = "vpn" \/ p.sec # "reality")}

StrictManaged(m, ps, d) ==
  /\ \A p \in ps : d \in Domains(p) => p.net \in {"tcp", "udp", "both"}
  /\ SniOwners(m, ps, d) = {}
  /\ \A p \in ps : ~(p.expo \in {"tcp_direct", "tcp_udp_direct"} /\ p.public = m.shared)

\* Faulty variant: one ready inbound is enough for a domain of several.
ManagedNamesAny(m, ps, routes) ==
  LET own == UNION {Domains(p) : p \in ps} IN
  IF m.mode = "strict" THEN {d \in own \cup m.sites : StrictManaged(m, ps, d)}
  ELSE {d \in own : \E k \in DOMAIN routes : d \in Domains(routes[k].facts) /\ routes[k].status = "ready"}
       \cup {d \in m.sites \ own : StrictManaged(m, ps, d)}

ManagedNames(m, ps, routes) ==
  LET own == UNION {Domains(p) : p \in ps} IN
  IF m.mode = "strict" THEN {d \in own \cup m.sites : StrictManaged(m, ps, d)}
  ELSE {d \in own : \A k \in DOMAIN routes : d \in Domains(routes[k].facts) => routes[k].status = "ready"}
       \cup {d \in m.sites \ own : StrictManaged(m, ps, d)}

\* The domains whose site the acceptance asks for: what the saved plan counts
\* as covered and the current facts still do.
Covered(f) ==
  f.promised \cap ManagedNames(f.settings, f.inbounds, Classify(f.settings, f.inbounds, f.source))

StrictTable(m, ps, promised) ==
  LET own == {Entry(m.panelPort, Panel, To("panel", 0, 0)), Entry(m.subPort, Sub, To("sub", 0, 0))} \cup
             UNION {{Entry(i.port, i.name, To("inbound", p.id, 0)) :
                       i \in {x \in Ingresses(p, m.shared) : x.kind = "vpn" \/ p.sec # "reality"}} :
                     p \in {q \in ps : q.expo = "tcp_sni"}}
  IN own \cup IF ~m.enabled THEN {}
              ELSE {Entry(m.shared, d, Site) : d \in {x \in promised \cap m.sites : ~Owned(own, m.shared, x)}}

\* The one Reality inbound takes what is not TLS.
NonTls(ps) ==
  LET reality == {p \in ps : p.sec = "reality" /\ p.expo = "tcp_sni"} IN
  IF Cardinality(reality) = 1 THEN reality ELSE {}

----------------------------------------------------------------------------
(* The check of a manifest.                                                 *)

ProtectedPorts(m) == {m.panelIn, m.subIn, m.decoy} \cup IF m.sidecar THEN {m.sidecarPort} ELSE {}
HaproxyOwned(m) == {m.panelPort, m.subPort} \cup IF m.enabled THEN {m.shared} ELSE {}

SettingsValid(m) ==
  /\ m.mode = "extended" => m.enabled
  /\ m.unknown = "decoy" => m.enabled
  /\ m.compat # NoName => m.compat \in m.sites
  /\ Panel # Sub

InboundValid(m, p) ==
  /\ ~(m.mode = "extended" /\ p.net \in {"tcp", "both"} /\ p.internal = m.decoy + 1)
  /\ p.expo \in {"tcp_direct", "udp_direct", "tcp_udp_direct"} => p.public = p.internal
  /\ p.expo \in {"tcp_direct", "tcp_udp_direct"} => p.public \notin HaproxyOwned(m) \cup ProtectedPorts(m)
  /\ p.expo = "tcp_sni" => /\ p.snis # {} /\ Ingressable(p)
                           /\ \A i \in Ingresses(p, m.shared) : i.port \notin ProtectedPorts(m)

NamesDistinct(m, ps) ==
  LET keys == [p \in {q \in ps : q.expo = "tcp_sni"} |->
                 {<<i.port, i.name>> : i \in Ingresses(p, m.shared)}]
  IN /\ \A p \in DOMAIN keys : keys[p] \cap {<<m.panelPort, Panel>>, <<m.subPort, Sub>>} = {}
     /\ \A p, q \in DOMAIN keys : p # q => keys[p] \cap keys[q] = {}

SitesApart(m, ps, promised) ==
  m.mode = "strict" =>
    promised \cap UNION {p.snis : p \in {q \in ps : q.expo = "tcp_sni" /\ q.public = m.shared}} = {}

Valid(m, ps, routes, promised) ==
  /\ SettingsValid(m)
  /\ \A p \in ps : InboundValid(m, p)
  /\ NamesDistinct(m, ps)
  /\ \A k \in DOMAIN routes : routes[k].strategy = "naive_managed" => m.naiveFrontend
  /\ SitesApart(m, ps, promised)

----------------------------------------------------------------------------
(* What is written, and what nftables lets through.                         *)

\* The internal ports closed to everything but the loopback interface.
Closed(m, ps, cached) ==
  {m.panelIn, m.subIn} \cup
  (IF ~m.enabled THEN {} ELSE {m.decoy}) \cup
  (IF ~(m.enabled /\ m.mode = "extended") THEN {}
   ELSE LET given == SplitPorts(m, ps, Range(cached)).port
        IN {m.decoy + 1} \cup {given[i] : i \in DOMAIN given}) \cup
  (IF m.sidecar THEN {m.sidecarPort} ELSE {})

\* The TCP ports the strict allowlist admits for what is published.  The ports of
\* SSH, on which nothing is published, and the rules that ask where a connection
\* comes from (Cloudflare) are left out.
Admitted(m, ps) ==
  {m.panelPort, m.subPort} \cup (IF m.enabled THEN {m.shared} ELSE {}) \cup
  UNION {CASE p.expo = "tcp_sni" -> {p.public} \cup {i.port : i \in Ingresses(p, m.shared)}
           [] p.expo \in {"tcp_direct", "tcp_udp_direct"} -> {p.public} \cup p.ports \cup p.span
           [] OTHER -> {} : p \in ps}

\* The files of one generation: the tables they hold.
Files(m, ps, source, cached, promised) ==
  LET routes == Classify(m, ps, source)
      rs     == Kept(routes)
      strict == m.mode = "strict"
  IN [settings |-> m, inbounds |-> ps, source |-> source, promised |-> promised,
      routes  |-> IF strict THEN {} ELSE rs,
      table   |-> IF strict THEN StrictTable(m, ps, promised) ELSE ExtendedTable(m, rs),
      trust   |-> IF strict THEN {} ELSE TrustRules(m, rs),
      split   |-> IF strict THEN <<>> ELSE SplitPorts(m, ps, rs).port,
      connect |-> IF strict THEN <<>> ELSE ConnectPorts(m, ps, rs).port,
      closed  |-> Closed(m, ps, cached),
      admits  |-> Admitted(m, ps)]

----------------------------------------------------------------------------
(* What the frontend does with a connection q: port, sni, tls, from (where   *)
(* it comes from), hello (the inbound whose ClientHello prefix it carries, or *)
(* 0), asks ("site" or "vpn"), of (the inbound a VPN client was made for) and *)
(* host (the HTTP Host, or authority).                                       *)

\* Nginx serves a site under its own name only.
Decoy(f, q) == IF q.asks = "site" /\ q.host \in f.settings.sites THEN Site ELSE To("error", 0, 0)

\* Faulty variant: the hosts of the transport are forgotten.
RequestHostsDomainsOnly(p) == Domains(p)

RequestHosts(p) == Domains(p) \cup p.hosts
VpnHosts(p) == IF p.hosts # {} THEN p.hosts ELSE Domains(p)

\* The request carries what this transport tells VPN from a browser by.
Marked(p, q) == q.asks = "vpn" /\ q.of = p.id

HttpSplit(f, p, q) ==
  IF q.host \notin RequestHosts(p) THEN To("error", 0, 0)
  ELSE IF q.host \in VpnHosts(p) /\ Marked(p, q) THEN To("inbound", p.id, 0)
  ELSE Decoy(f, q)

BinarySplit(f, p, q) ==
  IF p.proto = "anytls" THEN IF Marked(p, q) THEN To("inbound", p.id, 0) ELSE Decoy(f, q)
  ELSE IF q.asks = "site" THEN Decoy(f, q) ELSE To("inbound", p.id, 0)

TrustSplit(f, p, q) == IF q.asks = "vpn" THEN To("inbound", p.id, 0) ELSE Decoy(f, q)

ConnectSplit(f, p, port, q) ==
  LET mine == {i \in Ingresses(p, f.settings.shared) : i.port = port}
      names(kind) == {i.name : i \in {x \in mine : x.kind = kind}}
  IN IF q.asks = "vpn" THEN IF q.sni \in names("vpn") THEN To("inbound", p.id, 0) ELSE To("error", 0, 0)
     ELSE IF q.host \in names("site") /\ q.host = q.sni THEN Decoy(f, q) ELSE To("error", 0, 0)

Behind(f, to, q) ==
  LET r == CHOOSE x \in f.routes : x.id = to.id
  IN CASE to.kind = "site" -> Decoy(f, q)
       [] to.kind = "split" /\ r.strategy \in {"http_tls_split", "xhttp_tls_split"} -> HttpSplit(f, r.facts, q)
       [] to.kind = "split" /\ r.strategy = "binary_tls_split" -> BinarySplit(f, r.facts, q)
       [] to.kind = "split" /\ r.strategy = "trusttunnel_clienthello_split" -> TrustSplit(f, r.facts, q)
       [] to.kind = "connect" -> ConnectSplit(f, r.facts, to.port, q)
       [] OTHER -> to

Guarded(f, q) == /\ f.settings.cloudflare /\ q.from = "elsewhere"
                 /\ \E e \in f.table : e.port = q.port /\ e.name = q.sni /\ e.to.kind \in {"panel", "sub"}

\* In the extended table the port is compared with network.public_port, a key
\* no manifest has: the comparison is with 443.
UnknownToDecoy(m, port) ==
  m.unknown = "decoy" /\ port = IF m.mode = "strict" THEN m.shared ELSE Https

Plain(f, q) ==
  LET taker == {p \in NonTls(f.inbounds) : f.settings.mode = "strict" /\ p.public = q.port}
  IN IF taker = {} THEN To("reject", 0, 0) ELSE To("inbound", (CHOOSE p \in taker : TRUE).id, 0)

Handle(f, q) ==
  LET known == {e \in f.table : e.port = q.port /\ e.name = q.sni}
      trust == {t \in f.trust : t.port = q.port /\ t.name = q.sni /\ t.id = q.hello}
  IN IF \A e \in f.table : e.port # q.port THEN To("closed", 0, 0)
     ELSE IF ~q.tls THEN Plain(f, q)
     ELSE IF Guarded(f, q) THEN To("reject", 0, 0)
     ELSE IF known = {} THEN IF UnknownToDecoy(f.settings, q.port) THEN Site ELSE To("reject", 0, 0)
     ELSE IF trust # {} THEN To("inbound", q.hello, 0)
     ELSE Behind(f, (CHOOSE e \in known : TRUE).to, q)
=============================================================================
