----------------------------- MODULE MCDialogs -----------------------------
(* Three inbounds, Naive, XHTTP and Reality, all in one zone; Reality shows   *)
(* the name of somebody else.  One panel publishes through share addresses,   *)
(* the other through Host rows, one of them with an alias.                    *)
EXTENDS Dialogs

MCOld == "old.org"
MCNew == "new.org"
MCName(label) == [label |-> label, zone |-> MCOld]
MCForeign == [label |-> "www", zone |-> "cam.org"]

MCPair == [zones |-> {MCOld}, by |-> "acme.sh"]
MCOther == [zones |-> {MCOld, "cam.org"}, by |-> "other"]
MCCertificates == {MCPair, MCOther}

MCByShare ==
  [web |-> MCName("panel"), sub |-> MCName("sub"), uri |-> NoName, cert |-> MCOther, on |-> {1, 2, 3},
   hosts |-> <<<<>>, <<>>, <<>>>>, share |-> <<MCName("n"), MCName("x"), MCName("r")>>,
   tls |-> <<{}, {MCName("x")}, {MCForeign}>>, direct |-> {}, rooted |-> {2}]
MCByHosts ==
  [MCByShare EXCEPT !.uri = MCName("sub"), !.on = {2, 3}, !.direct = {3},
     !.hosts = <<<<MCName("n")>>, <<MCName("x"), MCName("y")>>, <<MCForeign>>>>]
MCDatabases == {MCByShare, MCByHosts}

MCKeep ==
  [panel |-> MCName("panel"), sub |-> MCName("sub"), dom |-> <<MCName("n"), MCName("x"), MCName("r")>>,
   expo |-> <<"tcp_sni", "tcp_sni", "direct">>, few |-> FALSE, urls |-> TRUE, decoys |-> TRUE,
   apex |-> NoName, repath |-> TRUE, sidecar |-> TRUE, cloud |-> FALSE, renew |-> FALSE]
MCChange ==
  [MCKeep EXCEPT !.panel = MCName("panel2"), !.dom = <<MCName("n2"), MCName("x"), MCForeign>>,
     !.expo = <<"tcp_sni", "none", "tcp_sni">>, !.few = TRUE, !.urls = FALSE, !.decoys = FALSE,
     !.repath = FALSE, !.sidecar = FALSE, !.renew = TRUE]
\* The direct Reality inbound under the domain of the Naive one.
MCShare == [MCKeep EXCEPT !.dom = <<MCName("n"), MCName("x"), MCName("n")>>]
MCWizardAnswers == {MCKeep, MCChange, MCShare}

MCDomainAnswers ==
  {[panel |-> MCName("panel"), sub |-> MCName("sub2"),
    dom |-> <<MCName("x2"), MCName("x"), MCName("r3")>>, sidecar |-> TRUE]}

MCZones == {<<MCOld, MCNew>>}
MCApexes == {Apex(MCOld)}
MCPanelNames == {MCName("z")}
=============================================================================
