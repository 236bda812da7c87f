----------------------------- MODULE MCFrontend -----------------------------
(* Two inbounds of every kind the decisions tell apart, on ports 1 .. 40.     *)
EXTENDS Frontend

CONSTANTS panel, sub, nobody, a, b, alias, camouflage, apex

Endpoint(addr, port, names) == [addr |-> addr, port |-> port, names |-> names, host |-> FALSE]

\* A vless inbound over WebSocket, named d, on the shared port 10.
Plainest(i, d) ==
  [id |-> i, proto |-> "vless", net |-> "tcp", uot |-> FALSE, sec |-> "tls", trans |-> "ws",
   path |-> "/own", expo |-> "tcp_sni", domain |-> d, snis |-> {d}, hosts |-> {},
   eps |-> {Endpoint(d, 10, {d})}, internal |-> 4 + i, public |-> 10, ports |-> {}, span |-> {},
   hello |-> FALSE, wrapped |-> "no"]

Kinds(i, d) ==
  LET p == Plainest(i, d) IN
  { p,
    [p EXCEPT !.trans = "grpc", !.hosts = {alias}],
    [p EXCEPT !.trans = "xhttp", !.eps = @ \cup {Endpoint(alias, 12, {alias})}, !.snis = {d, alias}],
    [p EXCEPT !.trans = "xhttp", !.path = "/"],
    [p EXCEPT !.trans = "tcp"],
    [p EXCEPT !.eps = {[Endpoint(d, 10, {d}) EXCEPT !.host = TRUE]}],
    [p EXCEPT !.wrapped = "review"],
    [p EXCEPT !.proto = "anytls", !.sec = "", !.trans = "tcp"],
    [p EXCEPT !.proto = "shadowsocks", !.trans = "tcp", !.net = "both", !.span = {20}],
    [p EXCEPT !.sec = "reality", !.trans = "tcp", !.snis = {camouflage}, !.eps = {Endpoint(d, 10, {camouflage})}],
    [p EXCEPT !.sec = "reality", !.trans = "tcp", !.snis = {camouflage, apex}, !.public = 11,
              !.eps = {Endpoint(d, 11, {camouflage, apex})}],
    [p EXCEPT !.sec = "reality", !.trans = "tcp"],
    [p EXCEPT !.proto = "trusttunnel", !.sec = "", !.trans = "tcp", !.net = "both", !.hello = TRUE],
    [p EXCEPT !.proto = "naive", !.sec = "", !.trans = "tcp", !.path = ""],
    [p EXCEPT !.proto = "naive", !.sec = "", !.trans = "tcp", !.path = "",
              !.eps = @ \cup {Endpoint(alias, 12, {alias})}, !.snis = {d, alias}],
    [p EXCEPT !.domain = alias, !.eps = {Endpoint(alias, 10, {d})}],
    [p EXCEPT !.sec = "reality", !.trans = "tcp", !.snis = {camouflage}],
    [p EXCEPT !.proto = "trusttunnel", !.sec = "", !.trans = "tcp", !.hello = TRUE,
              !.eps = @ \cup {Endpoint(alias, 10, {alias})}, !.snis = {d, alias}],
    [p EXCEPT !.proto = "naive", !.sec = "", !.trans = "tcp"],
    [p EXCEPT !.proto = "mieru", !.sec = "", !.trans = "tcp", !.public = 11],
    [p EXCEPT !.proto = "hysteria", !.net = "udp", !.sec = "", !.trans = "tcp", !.expo = "udp_direct",
              !.snis = {}, !.public = 4 + i, !.eps = {Endpoint(d, 4 + i, {})}],
    [p EXCEPT !.proto = "mieru", !.sec = "", !.trans = "tcp", !.expo = "tcp_direct", !.public = 4 + i,
              !.snis = {}, !.span = {21, 22}, !.eps = {}] }

\* Beside any of them: the same domain, a wrapper, the same camouflage, UDP, a
\* direct listener, Naive, a transport that is passed through.
Second ==
  LET p == Plainest(2, b) IN
  { Plainest(2, a), [p EXCEPT !.wrapped = "extra"],
    [p EXCEPT !.sec = "reality", !.trans = "tcp", !.snis = {camouflage}, !.eps = {Endpoint(b, 10, {camouflage})}],
    [p EXCEPT !.proto = "hysteria", !.net = "udp", !.sec = "", !.trans = "tcp", !.expo = "udp_direct",
              !.domain = a, !.snis = {}, !.public = 6, !.eps = {Endpoint(a, 6, {})}],
    [p EXCEPT !.proto = "naive", !.sec = "", !.trans = "tcp", !.path = ""],
    [p EXCEPT !.trans = "tcp"] }

McProfiles == [i \in ID |-> IF i = 1 THEN Kinds(1, a) ELSE Second]
McLater == [i \in ID |-> IF i = 1 THEN {Plainest(1, a)} ELSE {Plainest(2, b)}]

McNoSource == [kind |-> "none", version |-> 0]
McSources == {[kind |-> "forward", version |-> 1], [kind |-> "forward", version |-> 2],
              [kind |-> "native", version |-> 1]}

Base == [mode |-> "extended", shared |-> 10, enabled |-> TRUE, unknown |-> "reject", sites |-> {apex},
         cloudflare |-> FALSE, panelPort |-> 10, subPort |-> 10, panelIn |-> 1, subIn |-> 2,
         sidecar |-> TRUE, sidecarPort |-> 3, decoy |-> 30, compat |-> NoName, binary |-> TRUE,
         naiveFrontend |-> FALSE, allowlist |-> TRUE]

McSettings == { Base,
                [Base EXCEPT !.cloudflare = TRUE, !.panelPort = 13, !.binary = FALSE],
                [Base EXCEPT !.mode = "strict", !.unknown = "decoy", !.cloudflare = TRUE],
                [Base EXCEPT !.compat = a, !.unknown = "decoy", !.allowlist = FALSE] }
=============================================================================
