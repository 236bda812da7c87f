---------------------------- MODULE MCPublication ----------------------------
(* A small instance of Publication: a Naive inbound "n" with a host, a VLESS *)
(* inbound "v" without one, and two runs, the second over the first.         *)
EXTENDS Publication

MCValues == {"", "a", "b", "c", "/p", "/x", "/y", "/old", "/new", "443", "8443",
             "n", "v", "yes", "no", "tls", "reality", "inherited", "base", "mine"}

\* A JSON column with the given fields and no other.
Column(i, col, name, cert, path, security) ==
    [c \in FieldsOf(<<i, col>>) |->
        CASE c[3] = "name" -> name [] c[3] = "cert" -> cert [] c[3] = "path" -> path
          [] c[3] = "security" -> security [] c[3] = "rest" -> "base"]

Row(h, i, address, disabled) ==
    [c \in RowOf(h) |->
        CASE c[3] = "inbound_id" -> i [] c[3] = "address" -> address [] c[3] = "port" -> "443"
          [] c[3] = "is_disabled" -> disabled [] c[3] = "rest" -> "base"]

Empty == [c \in Cells |-> "absent"]

\* The name of n may be empty, as its share_addr may.
Base(name) ==
    Overlay([c \in {Setting("webDomain"), Share("n"), Share("v")} |->
                IF c = Setting("webDomain") THEN "a" ELSE name],
    Overlay(Column("n", "settings", name, "/old", "absent", "absent"),
    Overlay(Column("n", "stream_settings", "absent", "absent", "absent", "absent"),
    Overlay(Column("v", "settings", "absent", "absent", "absent", "absent"),
    Overlay(Column("v", "stream_settings", "a", "/old", "/p", "tls"), Empty)))))

OneHost == Overlay(Row(1, "n", "a", "no"), Base("a"))

\* An alias behind the primary host, which is already where the plan wants it.
Aliases == Overlay(Row(1, "n", "b", "no"), Overlay(Row(2, "n", "c", "no"), Base("")))

Disabled == Overlay(Row(1, "n", "a", "yes"), Base("a"))

MCStarts == {OneHost, Aliases, Disabled}

Setting1(k, v) == [kind |-> "setting", key |-> k, value |-> v]
Publish(i, v, p) == <<[kind |-> "share", inbound |-> i, value |-> v],
                      [kind |-> "host", inbound |-> i, value |-> v, port |-> p]>>
Endpoint(i, v, cert) == [kind |-> "endpoint", inbound |-> i, value |-> v, cert |-> cert]
Transport(i, v) == [kind |-> "transport", inbound |-> i, value |-> v]

First == [inbound |-> <<Transport("v", "/x")>>,
          publication |-> <<Setting1("webDomain", "b"), Setting1("subURI", "b"),
                            Endpoint("n", "b", "/new")>>
                          \o Publish("n", "b", "443") \o Publish("v", "b", "443")]

\* Path and endpoint of one inbound; the path may be there already.
Second == [inbound |-> <<Transport("v", "/x")>>,
           publication |-> <<Setting1("subURI", "c"), Endpoint("v", "c", "/new")>>
                           \o Publish("n", "b", "443") \o Publish("v", "c", "8443")]

MCPlans == <<First, Second>>

MCPanelWrites ==
    [c \in Cells |->
        CASE c = Setting("webDomain") -> {"mine", "a", "b"}
          [] c = Share("n") -> {"mine"}
          [] c[1] = "settings" /\ c[2] = "n" /\ c[3] \in {"name", "rest"} -> {"mine"}
          [] c[1] = "stream_settings" /\ c[2] = "v" /\ c[3] \in {"path", "rest"} -> {"mine"}
          [] c[1] = "stream_settings" /\ c[2] = "v" /\ c[3] = "security" -> {"reality"}
          [] c[1] = "host" /\ c[3] = "address" -> {"mine"}
          [] c[1] = "host" /\ c[3] = "port" -> {"8443"}
          [] c[1] = "host" /\ c[3] = "is_disabled" -> {"yes", "no"}
          [] OTHER -> {}]

MCResaves == {<<"v", "stream_settings">>}

ASSUME Consistent

=============================================================================
