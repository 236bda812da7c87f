---------------------------- MODULE Subscription ----------------------------
(***************************************************************************)
(* What the subscription sidecar does to the answer of the panel           *)
(* (assets/lucx_sub_sidecar.py): which lines it drops, which it changes,   *)
(* and for which client.                                                   *)
(*                                                                         *)
(* A line is [kind, host, port, name]: what the client can tell from its   *)
(* scheme and parameters, its authority and its display name, which stands *)
(* for credentials and everything else that is copied.  An endpoint is     *)
(* [id, proto, internal, host, public, range, secrets].                    *)
(***************************************************************************)
EXTENDS Integers, Sequences, SequencesExt, FiniteSetsExt

NoHost == ""

NoRange == 0

\* What qWDTT, TrustTunnel over QUIC or HTTP/3 and unreadable deep links look like.
Unpublished == {"wdtt", "tt-deep-h3", "tt-broken", "tt-quic"}

Kinds == Unpublished \cup
    {"tt-deep", "tt", "tt-partial", "anytls", "vmess-grpc", "vmess", "vmess-uri", "awg", "wg",
     "mieru", "mieru-escaped", "other"}

Formats == {"base64", "yaml", "json", "plain"}

IsText(lines) ==
    /\ lines \in Seq({lines[i] : i \in DOMAIN lines})
    /\ \A i \in DOMAIN lines :
         lines[i].kind \in Kinds /\ DOMAIN lines[i] = {"kind", "host", "port", "name"}

\* load_public_endpoint_snapshot: an enabled host row first, else the share address.
PublicHost(inbound, row) == IF row.host # NoHost THEN row.host ELSE inbound.share

PublicPort(inbound, row) ==
    IF row.port # 0 THEN row.port
    ELSE IF row.host = NoHost THEN inbound.sharePort ELSE 0

\* The inbounds its first statement selects.
Selected(inbounds) ==
    {i \in DOMAIN inbounds : inbounds[i].enabled /\ inbounds[i].proto \in {"anytls", "mieru"}}

Usable(inbound, row) ==
    PublicHost(inbound, row) # NoHost /\ PublicPort(inbound, row) \in 1 .. 65535

Endpoint(i, inbound, row) ==
    [id |-> i, proto |-> inbound.proto, internal |-> inbound.port,
     host |-> PublicHost(inbound, row), public |-> PublicPort(inbound, row),
     range |-> IF inbound.proto = "mieru" THEN inbound.range ELSE NoRange,
     secrets |-> inbound.secrets]

\* Of the inbounds of which the host row has been read.
Endpoints(inbounds, rows) ==
    {Endpoint(i, inbounds[i], rows[i]) : i \in {j \in DOMAIN rows : Usable(inbounds[j], rows[j])}}

-----------------------------------------------------------------------------
(* The lines of one subscription. *)

Score(line, e) ==
    (IF line.host # NoHost /\ line.host = e.host THEN 100 ELSE 0)
    + (IF line.port # 0 /\ line.port = e.internal THEN 30 ELSE 0)
    + (IF line.port # 0 /\ line.port = e.public THEN 20 ELSE 0)

Better(line, e, f) ==
    \/ Score(line, e) > Score(line, f)
    \/ Score(line, e) = Score(line, f) /\ e.id <= f.id

\* Faulty variant: the port of the link is compared with the public port only.
AnyTlsByPublicPort(line, endpoints) ==
    LET candidates == {e \in endpoints : e.proto = "anytls" /\ line.port = e.public}
    IN  IF candidates = {} THEN line
        ELSE LET best == CHOOSE e \in candidates : \A f \in candidates : e.id <= f.id
             IN  [line EXCEPT !.host = best.host, !.port = best.public]

\* rewrite_anytls_public_endpoint
AnyTls(line, endpoints) ==
    LET candidates == {e \in endpoints : e.proto = "anytls" /\ Score(line, e) > 0}
    IN  IF candidates = {} THEN line
        ELSE LET best == CHOOSE e \in candidates : \A f \in candidates : Better(line, e, f)
             IN  [line EXCEPT !.host = best.host, !.port = best.public]

\* rewrite_mieru_port_range: the port becomes the range of an endpoint of the same host.
MieruRange(line, endpoints) ==
    LET ranges == {e \in endpoints : e.proto = "mieru" /\ e.host = line.host /\ e.range # NoRange}
    IN  IF line.host = NoHost \/ ranges = {} THEN line
        ELSE [line EXCEPT !.port = (CHOOSE e \in ranges : \A f \in ranges : e.id <= f.id).range]

\* rewrite_mieru_for_throne
Unescaped(line) == [line EXCEPT !.kind = "mieru"]

\* rewrite_vmess_grpc_for_throne changes the one shape it knows.
VmessUri(line) == IF line.kind = "vmess-grpc" THEN [line EXCEPT !.kind = "vmess-uri"] ELSE line

\* build_trusttunnel_throne_uri
ThroneLink(line) == [line EXCEPT !.kind = "tt"]

\* build_awg_wg_uri: the endpoint is the one of the configuration that was fetched.
AwgUri(line, conf) ==
    IF conf.host = NoHost \/ conf.port = 0 THEN line
    ELSE [line EXCEPT !.kind = "wg", !.host = conf.host, !.port = conf.port]

\* Faulty variant: a deep link is passed on without being read.
DroppedUnread(line, throne) == line.kind \in {"wdtt", "tt-quic"}

\* The lines for which the loop of rewrite_subscription writes nothing.  A deep link without
\* address or user has no form for Throne.
Dropped(line, throne) == line.kind \in Unpublished \/ (throne /\ line.kind = "tt-partial")

\* What it writes for the others.
Line(line, throne, endpoints, conf) ==
    CASE line.kind = "tt-deep" /\ throne -> ThroneLink(line)
      [] line.kind = "anytls" -> AnyTls(line, endpoints)
      [] line.kind \in {"vmess-grpc", "vmess"} /\ throne -> VmessUri(line)
      [] line.kind = "awg" -> AwgUri(line, conf)
      [] line.kind \in {"mieru", "mieru-escaped"} ->
            LET ranged == MieruRange(line, endpoints)
            IN  IF throne THEN Unescaped(ranged) ELSE ranged
      [] OTHER -> line

\* Faulty variant: both forms of one link are kept.
OnceMore(lines, line) == Append(lines, line)

\* _dedupe_lines
Once(lines, line) == IF \E i \in DOMAIN lines : lines[i] = line THEN lines ELSE Append(lines, line)

\* rewrite_subscription
Rewrite(lines, throne, endpoints, conf) ==
    LET out[n \in 0 .. Len(lines)] ==
          IF n = 0 THEN <<>>
          ELSE IF Dropped(lines[n], throne) THEN out[n - 1]
          ELSE Once(out[n - 1], Line(lines[n], throne, endpoints, conf))
    IN  out[Len(lines)]

HasAwg(lines) == \E i \in DOMAIN lines : lines[i].kind = "awg"

\* rewrite_structured_subscription: entries of a JSON document are dropped, not changed.
Structured(lines) ==
    LET out[n \in 0 .. Len(lines)] ==
          IF n = 0 THEN <<>>
          ELSE IF lines[n].kind \in Unpublished THEN out[n - 1]
          ELSE Append(out[n - 1], lines[n])
    IN  out[Len(lines)]

\* inject_anytls_into_clash_yaml: one proxy for each secret of each endpoint.
Injected(lines, endpoints) ==
    LET proxies == UNION {{[kind |-> "anytls", host |-> e.host, port |-> e.public, name |-> s] :
                              s \in e.secrets} : e \in endpoints}
    IN  lines \o SetToSeq(proxies)

=============================================================================
