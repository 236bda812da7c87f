----------------------------- MODULE MCSidecar -----------------------------
(* Two AnyTLS inbounds and one Mieru inbound.  While clients are served the *)
(* panel moves both AnyTLS inbounds to other hosts in one commit, and then  *)
(* stores settings of the Mieru inbound that are no object.  The public     *)
(* port of the second is the internal port of the first: only the score     *)
(* tells them apart.  A range is written as its last port, a name as a      *)
(* number.                                                                  *)
EXTENDS Sidecar

Inbound(proto, port, share, sharePort, range) ==
    [proto |-> proto, port |-> port, enabled |-> TRUE, share |-> share, sharePort |-> sharePort,
     range |-> range, secrets |-> {1}, object |-> TRUE]

Row(host, port) == [host |-> host, port |-> port]

First == Inbound("anytls", 1001, NoHost, 0, NoRange)
Second == Inbound("anytls", 1002, "b", 1001, NoRange)
Third == Inbound("mieru", 2000, NoHost, 0, 2100)
Before == << First, Second, Third >>

MCDatabases ==
    << [inbounds |-> Before, rows |-> << Row("a", 443), Row(NoHost, 0), Row("m", 2000) >>],
       [inbounds |-> Before, rows |-> << Row("c", 8443), Row("d", 1001), Row("m", 2000) >>],
       [inbounds |-> << First, Second, [Third EXCEPT !.object = FALSE] >>,
        rows |-> << Row("c", 8443), Row("d", 1001), Row("m", 2000) >>] >>

L(kind, host, port, name) == [kind |-> kind, host |-> host, port |-> port, name |-> name]

Of(kind, name) == L(kind, "p", 443, name)

Leading ==
    << L("anytls", NoHost, 0, 1), L("anytls", NoHost, 0, 2), Of("tt-deep", 11), Of("tt-deep-h3", 12) >>

Thrones ==
    << L("tt-deep", "t", 443, 30), L("tt", "t", 443, 30), Of("tt-partial", 13),
       Of("vmess-grpc", 14), Of("awg", 16), L("mieru-escaped", "m", 2000, 31) >>

MixedBody == << Of("tt-quic", 20), Of("other", 21), Of("wdtt", 22) >>

Ask(format, throne, items) ==
    [allowed |-> TRUE, get |-> TRUE, throne |-> throne, format |-> format,
     nested |-> FALSE, items |-> items]

MCQuestions ==
    {Ask("base64", FALSE, Leading), Ask("base64", TRUE, Thrones)}
    \cup {Ask("json", FALSE, MixedBody),
           Ask("yaml", FALSE, << Of("other", 23) >>), Ask("plain", TRUE, MixedBody)}
    \cup {[Ask("base64", FALSE, MixedBody) EXCEPT !.get = FALSE],
          [Ask("base64", FALSE, MixedBody) EXCEPT !.allowed = FALSE],
          [Ask("json", FALSE, MixedBody) EXCEPT !.nested = TRUE]}

MCConfigurations == {NoConf, [host |-> "w", port |-> 51820]}

\* The instance is one that the theorem about OwnEndpoint speaks of.
ASSUME InboundsSteady == Steady

=============================================================================
