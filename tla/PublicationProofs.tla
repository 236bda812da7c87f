-------------------------- MODULE PublicationProofs --------------------------
(***************************************************************************)
(* Proofs about the receipts of Publication, for any database, any plans,  *)
(* any failures and any writes of the panel in between.                    *)
(*                                                                         *)
(* A receipt says of each cell what it held (was) and what it was given    *)
(* (now).  The receipts of a cell, in their order, are a trail: each one   *)
(* starts where the one before it ended, unless the panel wrote the cell   *)
(* in between.  As long as it did not, the first one starts at the         *)
(* baseline of the run and the last one ends at what the database holds,   *)
(* so that undoing them from the last to the first finds, at every step,   *)
(* what the receipt expects, and ends at the baseline.  IInv says this of  *)
(* the receipts of the present run, of those of an undo in the middle of   *)
(* its queue, and of those of every run that rests on the stack.           *)
(*                                                                         *)
(* The one receipt that compares more than its cells is that of a          *)
(* transport path: it compares the text of a column, whose layout others   *)
(* change too.  A refusal that comes from it alone is therefore possible,  *)
(* and RefusedOnlyAfterEdits is proved for plans without one.              *)
(*                                                                         *)
(* That a completed run has published its plan is a second invariant,      *)
(* Leads.  The content X that a transaction wrote serves the requests: a   *)
(* request is served by its own write (WriteServes), and a write for       *)
(* another thing keeps it (WriteKeeps).  The receipts lead from the        *)
(* baseline to one value of a cell only (FromOne), and that is what the    *)
(* check finds in the database (AcceptedLeads): so the database holds X,   *)
(* or the check refuses.  The panel may have written a cell before our     *)
(* transaction, and then the receipts do not lead to X in it; but then the *)
(* database still holds X there, and the check has to refuse.              *)
(***************************************************************************)

EXTENDS Publication, SequenceTheorems, FiniteSetTheorems, TLAPS

-------------------------------------------------------------------------------
(* Cells, requests and receipts *)

Whole == Values \cup {Absent}

\* What some cells hold, and how some columns are laid out.
Parts == UNION {[S -> Whole] : S \in SUBSET Cells}
Layouts == UNION {[S -> Forms] : S \in SUBSET Docs}

\* What the plans ask for.
Asked ==
    {q \in Requests : \E n \in DOMAIN Plans :
        \/ \E k \in DOMAIN Plans[n].inbound : q = Plans[n].inbound[k]
        \/ \E k \in DOMAIN Plans[n].publication : q = Plans[n].publication[k]}

Kinds == {"created", "host"} \cup {q.kind : q \in Asked}

\* Transport and endpoint receipts are about JSON columns, and an endpoint is never empty; a
\* receipt that has an inbound_id is about the whole row.
Receipts ==
    {r \in [kind : Kinds, inbound : Inbounds \cup {Absent}, was : Parts, now : Parts,
            form : Layouts] :
        /\ DOMAIN r.was = DOMAIN r.now
        /\ \A c \in DOMAIN r.now : c[1] \in Columns <=> r.kind \in {"endpoint", "transport"}
        /\ r.kind = "endpoint" => \A c \in DOMAIN r.now : r.now[c] \notin {Absent, Blank}
        /\ \A h \in Hosts : Host(h, "inbound_id") \in DOMAIN r.now => RowOf(h) \subseteq DOMAIN r.now}

Bases == [cell : Contents, form : [Docs -> Forms]]

LEMMA CellFacts ==
    /\ \A k \in Keys : Setting(k) \in Cells /\ Setting(k)[1] = "setting"
    /\ \A i \in Inbounds : Share(i) \in Cells /\ Share(i)[1] = "share_addr"
    /\ \A doc \in Docs : /\ FieldsOf(doc) \subseteq Cells
                         /\ \A c \in FieldsOf(doc) : c[1] = doc[2] /\ c[1] \in Columns
    /\ \A h \in Hosts : /\ RowOf(h) \subseteq Cells
                        /\ \A c \in RowOf(h) : c[1] = "host" /\ c[2] = h /\ c[3] \in HostColumns
                        /\ \A a \in HostColumns : Host(h, a) \in RowOf(h)
    /\ \A c \in Cells : c[1] = "host" => c[2] \in Hosts /\ c \in RowOf(c[2])
<1>1. \A k \in Keys : Setting(k) \in Cells /\ Setting(k)[1] = "setting"
  BY DEF Cells, Setting
<1>2. \A i \in Inbounds : Share(i) \in Cells /\ Share(i)[1] = "share_addr"
  BY DEF Cells, Share
<1>3. \A doc \in Docs : /\ FieldsOf(doc) \subseteq Cells
                        /\ \A c \in FieldsOf(doc) : c[1] = doc[2] /\ c[1] \in Columns
  <2> SUFFICES ASSUME NEW doc \in Docs
               PROVE  /\ FieldsOf(doc) \subseteq Cells
                      /\ \A c \in FieldsOf(doc) : c[1] = doc[2] /\ c[1] \in Columns
    OBVIOUS
  <2>1. FieldsOf(doc) \subseteq Cells
    BY Zenon DEF Cells
  <2>2. doc[2] \in Columns
    BY DEF Docs
  <2>3. \A f : Field(doc, f)[1] = doc[2]
    BY DEF Field
  <2> QED
    BY <2>1, <2>2, <2>3 DEF FieldsOf
<1>4. \A h \in Hosts : /\ RowOf(h) \subseteq Cells
                       /\ \A c \in RowOf(h) : c[1] = "host" /\ c[2] = h /\ c[3] \in HostColumns
                       /\ \A a \in HostColumns : Host(h, a) \in RowOf(h)
  <2> SUFFICES ASSUME NEW h \in Hosts
               PROVE  /\ RowOf(h) \subseteq Cells
                      /\ \A c \in RowOf(h) : c[1] = "host" /\ c[2] = h /\ c[3] \in HostColumns
                      /\ \A a \in HostColumns : Host(h, a) \in RowOf(h)
    OBVIOUS
  <2>1. RowOf(h) \subseteq UNION {RowOf(g) : g \in Hosts}
    OBVIOUS
  <2>2. RowOf(h) \subseteq Cells
    BY <2>1 DEF Cells
  <2> QED
    BY <2>2 DEF RowOf, Host
<1>5. \A c \in Cells : c[1] = "host" => c[2] \in Hosts /\ c \in RowOf(c[2])
  <2> SUFFICES ASSUME NEW c \in Cells, c[1] = "host" PROVE c[2] \in Hosts /\ c \in RowOf(c[2])
    OBVIOUS
  <2>1. \/ \E k \in Keys : c = Setting(k)
        \/ \E i \in Inbounds : c = Share(i)
        \/ \E doc \in Docs : c \in FieldsOf(doc)
        \/ \E h \in Hosts : c \in RowOf(h)
    BY Zenon DEF Cells
  <2>2. PICK h \in Hosts : c \in RowOf(h)
    BY <1>1, <1>2, <1>3, <2>1 DEF Columns
  <2> QED
    BY <1>4, <2>2
<1> QED
  BY <1>1, <1>2, <1>3, <1>4, <1>5

LEMMA OverlayType ==
    ASSUME NEW part \in Parts, NEW cell \in Contents
    PROVE  /\ Overlay(part, cell) \in Contents
           /\ \A c \in Cells : Overlay(part, cell)[c] = IF c \in DOMAIN part THEN part[c] ELSE cell[c]
<1>1. PICK S \in SUBSET Cells : part \in [S -> Whole]
  BY DEF Parts
<1> QED
  BY <1>1 DEF Overlay, Contents, Whole

\* The first row that is enabled, and a fresh id, are there when they are asked for.
LEMMA PrimaryIsOne ==
    ASSUME NEW S \in SUBSET Hosts, S # {}
    PROVE  Primary(S) \in S /\ \A g \in S : Primary(S) <= g
<1> DEFINE R == OpToRel(<, Nat)
<1>1. S \subseteq Nat
  BY ConstantsAssumption
<1>2. \E h \in S : \A g \in S : ~ (<<g, h>> \in R)
  <2>1. IsWellFoundedOn(R, Nat)
    BY NatLessThanWellFounded
  <2> HIDE DEF R
  <2> QED
    BY <1>1, <2>1, WFMin
<1>3. PICK h \in S : \A g \in S : ~ (g < h)
  BY <1>1, <1>2 DEF OpToRel
<1>4. \A g \in S : h <= g
  BY <1>1, <1>3
<1> QED
  BY <1>4 DEF Primary

\* A request writes cells, and a row of hosts only while it belongs to the inbound.
LEMMA WantedFits ==
    ASSUME NEW q \in Requests, NEW cell \in Contents, NEW share \in [Inbounds -> Values],
           NEW form, ~ NoRowLeft(q, [cell |-> cell, form |-> form])
    PROVE  LET now == Wanted(q, cell, share) IN
           /\ now \in Parts
           /\ \A c \in DOMAIN now : c[1] \in Columns <=> q.kind \in {"endpoint", "transport"}
           /\ q.kind = "endpoint" => \A c \in DOMAIN now : now[c] \notin {Absent, Blank}
           /\ \A h \in Hosts : Host(h, "inbound_id") \in DOMAIN now => RowOf(h) \subseteq DOMAIN now
           /\ \A c \in DOMAIN now : c[1] = "host" =>
                 q.kind = "host" /\ Overlay(now, cell)[Host(c[2], "inbound_id")] = q.inbound
<1> DEFINE now == Wanted(q, cell, share)
<1> DEFINE Fits ==
           /\ now \in Parts
           /\ \A c \in DOMAIN now : c[1] \in Columns <=> q.kind \in {"endpoint", "transport"}
           /\ q.kind = "endpoint" => \A c \in DOMAIN now : now[c] \notin {Absent, Blank}
           /\ \A h \in Hosts : Host(h, "inbound_id") \in DOMAIN now => RowOf(h) \subseteq DOMAIN now
           /\ \A c \in DOMAIN now : c[1] = "host" =>
                 q.kind = "host" /\ Overlay(now, cell)[Host(c[2], "inbound_id")] = q.inbound
<1> SUFFICES Fits
  OBVIOUS
<1>0. /\ \A c \in Cells : cell[c] \in Whole
      /\ Values \subseteq Whole /\ Absent \in Whole
  BY DEF Contents, Whole
<1>a. \A h \in Hosts : Host(h, "inbound_id")[1] = "host" /\ Host(h, "inbound_id")[1] \notin Columns
  BY DEF Host, Columns
<1>1. CASE q.kind = "setting"
  <2>1. q.key \in Keys /\ q.value \in Values
    BY <1>1 DEF Requests
  <2> DEFINE S == {Setting(q.key)} \cap {c \in Cells : Text(cell[c]) # q.value}
  <2>2. now = [c \in S |-> q.value]
    BY <1>1 DEF Wanted
  <2>3. S \in SUBSET Cells /\ \A c \in S : c[1] = "setting"
    BY <2>1, CellFacts
  <2>4. now \in [S -> Whole]
    BY <1>0, <2>1, <2>2
  <2> HIDE DEF S, now
  <2>5. now \in Parts /\ DOMAIN now = S
    BY <2>3, <2>4 DEF Parts
  <2>6. \A c \in DOMAIN now : c[1] # "host" /\ c[1] \notin Columns
    BY <2>3, <2>5 DEF Columns
  <2> QED
    BY <1>1, <1>a, <2>5, <2>6
<1>2. CASE q.kind = "share"
  <2>1. q.inbound \in Inbounds /\ q.value \in Values
    BY <1>2 DEF Requests
  <2> DEFINE S == {Share(q.inbound)} \cap {c \in Cells : cell[c] # q.value}
  <2>2. now = [c \in S |-> q.value]
    BY <1>2 DEF Wanted
  <2>3. S \in SUBSET Cells /\ \A c \in S : c[1] = "share_addr"
    BY <2>1, CellFacts
  <2>4. now \in [S -> Whole]
    BY <1>0, <2>1, <2>2
  <2> HIDE DEF S, now
  <2>5. now \in Parts /\ DOMAIN now = S
    BY <2>3, <2>4 DEF Parts
  <2>6. \A c \in DOMAIN now : c[1] # "host" /\ c[1] \notin Columns
    BY <2>3, <2>5 DEF Columns
  <2> QED
    BY <1>2, <1>a, <2>5, <2>6
<1>3. CASE q.kind = "transport"
  <2>1. q.inbound \in Inbounds /\ q.value \in Values
    BY <1>3 DEF Requests
  <2> DEFINE doc == <<q.inbound, "stream_settings">>
  <2>2. now = [c \in FieldsOf(doc) |-> IF c = Field(doc, "path") THEN q.value ELSE cell[c]]
    BY <1>3 DEF Wanted
  <2>3. doc \in Docs
    BY <2>1 DEF Docs, Columns
  <2>4. FieldsOf(doc) \in SUBSET Cells /\ \A c \in FieldsOf(doc) : c[1] \in Columns
    BY <2>3, CellFacts
  <2>5. now \in [FieldsOf(doc) -> Whole]
    BY <1>0, <2>1, <2>2, <2>4
  <2> HIDE DEF doc, now
  <2>6. now \in Parts /\ DOMAIN now = FieldsOf(doc)
    BY <2>4, <2>5 DEF Parts
  <2>7. \A c \in DOMAIN now : c[1] # "host"
    BY <2>4, <2>6 DEF Columns
  <2> QED
    BY <1>3, <1>a, <2>4, <2>6, <2>7
<1>4. CASE q.kind = "endpoint"
  <2>1. q.inbound \in Inbounds /\ q.value \in Values \ {Blank} /\ q.cert \in Values \ {Blank}
    BY <1>4 DEF Requests
  <2> DEFINE S == EndpointFields(q, cell, share[q.inbound])
  <2>2. now = [c \in S |-> IF \E doc \in Docs, f \in Names : c = Field(doc, f) THEN q.value ELSE q.cert]
    BY <1>4 DEF Wanted
  <2>3. \A c \in S : \E doc \in Docs : c \in FieldsOf(doc)
    <3> SUFFICES ASSUME NEW c \in S PROVE \E doc \in Docs : c \in FieldsOf(doc)
      OBVIOUS
    <3>1. PICK doc \in {q.inbound} \X Columns : \E f \in Names \cup Certs : c = Field(doc, f)
      BY DEF EndpointFields
    <3>2. doc \in Docs
      BY <2>1 DEF Docs
    <3> QED
      BY <3>1, <3>2 DEF FieldsOf, Fields
  <2>4. S \in SUBSET Cells /\ \A c \in S : c[1] \in Columns
    BY <2>3, CellFacts
  <2>5. now \in [S -> Whole] /\ \A c \in S : now[c] \notin {Absent, Blank}
    BY <1>0, <2>1, <2>2, ConstantsAssumption
  <2> HIDE DEF S, now
  <2>6. now \in Parts /\ DOMAIN now = S
    BY <2>4, <2>5 DEF Parts
  <2>7. \A c \in DOMAIN now : c[1] # "host"
    BY <2>4, <2>6 DEF Columns
  <2> QED
    BY <1>4, <1>a, <2>4, <2>5, <2>6, <2>7
<1>5. CASE q.kind = "host"
  <2>1. q.inbound \in Inbounds /\ q.value \in Values /\ q.port \in Values
    BY <1>5 DEF Requests
  <2> DEFINE E == EnabledHosts(q.inbound, cell)
  <2>2. E \in SUBSET Hosts /\ \A h \in E : cell[Host(h, "inbound_id")] = q.inbound
    BY DEF EnabledHosts
  <2>3. CASE E = {}
    <3> DEFINE h == NewId(cell)
    <3>1. now = [c \in RowOf(h) |-> NewRow(q.inbound, q)[c[3]]]
      <4>1. Cardinality(E) = 0
        BY <2>3, FS_EmptySet
      <4> QED
        BY <1>5, <2>3, <4>1 DEF Wanted
    <3>2. h \in Hosts
      <4>1. FreshHosts(cell) # {}
        BY <1>5, <2>3 DEF NoRowLeft
      <4> QED
        BY <4>1 DEF NewId, FreshHosts
    <3> HIDE DEF h
    <3>3. \A a \in HostColumns : NewRow(q.inbound, q)[a] \in Whole
      BY <1>0, <2>1, ConstantsAssumption DEF NewRow, HostColumns
    <3>4. now \in [RowOf(h) -> Whole] /\ RowOf(h) \in SUBSET Cells
      BY <3>1, <3>2, <3>3, CellFacts
    <3>5. now[Host(h, "inbound_id")] = q.inbound
      <4>1. Host(h, "inbound_id") \in RowOf(h) /\ Host(h, "inbound_id")[3] = "inbound_id"
        BY <3>2, CellFacts DEF HostColumns, Host
      <4>2. NewRow(q.inbound, q)["inbound_id"] = q.inbound
        BY DEF NewRow, HostColumns
      <4> QED
        BY <3>1, <4>1, <4>2
    <3> HIDE DEF now
    <3>6. now \in Parts /\ DOMAIN now = RowOf(h)
      BY <3>4 DEF Parts
    <3>7. \A g \in Hosts : Host(g, "inbound_id") \in DOMAIN now => g = h
      BY <3>2, <3>6, CellFacts DEF Host
    <3>8. Overlay(now, cell)[Host(h, "inbound_id")] = q.inbound
      BY <3>2, <3>5, <3>6, OverlayType, CellFacts DEF HostColumns
    <3>9. \A c \in DOMAIN now : c[2] = h /\ c[1] \notin Columns
      BY <3>2, <3>6, CellFacts DEF Columns
    <3> QED
      BY <1>5, <3>6, <3>7, <3>8, <3>9
  <2>4. CASE E # {} /\ Cardinality(E) = 1
    <3> DEFINE h == Primary(E)
               S == {Host(h, "address"), Host(h, "port")}
    <3>1. now = [c \in S |-> IF c[3] = "address" THEN q.value ELSE q.port]
      BY <1>5, <2>4 DEF Wanted
    <3>2. h \in E
      BY <2>2, <2>4, PrimaryIsOne
    <3> HIDE DEF h
    <3>3. /\ S \in SUBSET Cells
          /\ \A c \in S : c[2] = h /\ c[1] = "host" /\ c[1] \notin Columns /\ c[3] # "inbound_id"
      <4>1. Host(h, "address") \in Cells /\ Host(h, "port") \in Cells
        BY <2>2, <3>2, CellFacts DEF HostColumns
      <4> QED
        BY <4>1 DEF Host, Columns
    <3>4. now \in [S -> Whole]
      BY <1>0, <2>1, <3>1
    <3> HIDE DEF now, S
    <3>5. now \in Parts /\ DOMAIN now = S
      BY <3>3, <3>4 DEF Parts
    <3>6. \A g \in Hosts : Host(g, "inbound_id") \notin DOMAIN now
      BY <3>3, <3>5 DEF Host
    <3>7. h \in Hosts /\ Host(h, "inbound_id") \in Cells
      BY <2>2, <3>2, CellFacts DEF HostColumns
    <3>8. Overlay(now, cell)[Host(h, "inbound_id")] = q.inbound
      BY <2>2, <3>2, <3>5, <3>6, <3>7, OverlayType
    <3> QED
      BY <1>5, <3>3, <3>5, <3>6, <3>8
  <2>5. CASE E # {} /\ Cardinality(E) # 1
    <3>1. now = [c \in {} |-> Absent]
      BY <1>5, <2>5 DEF Wanted
    <3>2. now \in [{} -> Whole] /\ DOMAIN now = {}
      BY <3>1
    <3> HIDE DEF now
    <3>3. now \in Parts
      BY <3>2 DEF Parts
    <3> QED
      BY <1>5, <3>2, <3>3
  <2> QED
    BY <2>3, <2>4, <2>5
<1>6. q.kind \in {"setting", "share", "transport", "endpoint", "host"}
  BY DEF Requests
<1> QED
  BY <1>1, <1>2, <1>3, <1>4, <1>5, <1>6

-------------------------------------------------------------------------------
(* Types *)

RunStages ==
    {"beforeInbound", "inbound", "checkInbound", "beforePublication", "publication", "verify",
     "checkPublication", "checkFinal", "commit"}

Stages == RunStages \cup {"idle", "handler", "beforeUndo", "undo"}

Entries == [changes : Seq(Receipts), before : Contents, sealed : Nat]

Typed ==
    /\ db \in Bases /\ draft \in Bases
    /\ stage \in Stages /\ (stage \notin Open => draft = db)
    /\ pending \in Seq(Receipts) /\ changes \in Seq(Receipts)
    /\ stage \notin {"inbound", "publication", "verify"} => pending = <<>>
    /\ stage \in {"inbound", "publication"} => queue \in Seq(Asked)
    /\ stage \in {"verify", "undo"} => queue \in Seq(Receipts)
    /\ baseline \in Contents /\ audited \in [Inbounds -> Values]
    /\ runs \in 0 .. Len(Plans) /\ stack \in Seq(Entries) /\ Len(stack) <= runs
    /\ stage \in RunStages => Len(stack) < runs
    /\ edits \in 0 .. MaxEdits /\ sealed \in 0 .. edits
    /\ touched \subseteq Cells /\ lost \subseteq Cells
    /\ wrote \in [Cells -> SUBSET Whole] /\ ahead \subseteq Cells /\ twice \subseteq Cells

LEMMA PlanAsks ==
    ASSUME NEW n \in 1 .. Len(Plans)
    PROVE  Plans[n].inbound \in Seq(Asked) /\ Plans[n].publication \in Seq(Asked)
<1>1. /\ n \in DOMAIN Plans
      /\ Plans[n].inbound \in Seq(Requests) /\ Plans[n].publication \in Seq(Requests)
  <2> DEFINE R == Seq(Requests)
  <2>1. Plans \in Seq([inbound : R, publication : R])
    BY ConstantsAssumption
  <2> HIDE DEF R
  <2> DEFINE T == [inbound : R, publication : R]
  <2>2. n \in DOMAIN Plans /\ Plans[n] \in T
    <3> HIDE DEF T
    <3>1. Plans \in Seq(T)
      BY <2>1 DEF T
    <3> QED
      BY <3>1
  <2> QED
    BY <2>2 DEF R
<1>2. \A k \in DOMAIN Plans[n].inbound : Plans[n].inbound[k] \in Asked
  BY <1>1 DEF Asked
<1>3. \A k \in DOMAIN Plans[n].publication : Plans[n].publication[k] \in Asked
  BY <1>1 DEF Asked
<1> QED
  BY <1>1, <1>2, <1>3

LEMMA SharesType == ASSUME NEW cell \in Contents PROVE Shares(cell) \in [Inbounds -> Values]
<1>1. \A i \in Inbounds : cell[Share(i)] \in Whole
  BY CellFacts DEF Contents, Whole
<1> QED
  BY <1>1, ConstantsAssumption DEF Shares, Text, Whole

LEMMA CellsOfType == ASSUME NEW s \in Seq(Receipts) PROVE CellsOf(s) \subseteq Cells
<1>1. \A k \in DOMAIN s : s[k] \in Receipts
  OBVIOUS
<1>2. \A r \in Receipts : DOMAIN r.now \subseteq Cells
  BY DEF Receipts, Parts
<1> QED
  BY <1>1, <1>2 DEF CellsOf

\* The receipt of a write, and the database after it.
LEMMA WriteType ==
    ASSUME NEW q \in Asked, NEW old \in Bases, NEW share \in [Inbounds -> Values],
           ~ NoRowLeft(q, old)
    PROVE  LET now == Wanted(q, old.cell, share)
               r   == Receipt(q, now, old)
           IN  /\ r \in Receipts /\ r.now = now
               /\ \A c \in DOMAIN now : r.was[c] = old.cell[c]
               /\ After(q, now, old) \in Bases
               /\ After(q, now, old).cell = Overlay(now, old.cell)
               /\ \A c \in DOMAIN now : c[1] = "host" =>
                     After(q, now, old).cell[Host(c[2], "inbound_id")] = r.inbound
<1> DEFINE now == Wanted(q, old.cell, share)
           r   == Receipt(q, now, old)
           kind == IF q.kind # "host" THEN q.kind
                   ELSE IF EnabledHosts(q.inbound, old.cell) = {} THEN "created" ELSE "host"
<1>1. old.cell \in Contents /\ old.form \in [Docs -> Forms] /\ old = [cell |-> old.cell, form |-> old.form]
  BY DEF Bases
<1>2. /\ now \in Parts
      /\ \A c \in DOMAIN now : c[1] \in Columns <=> q.kind \in {"endpoint", "transport"}
      /\ q.kind = "endpoint" => \A c \in DOMAIN now : now[c] \notin {Absent, Blank}
      /\ \A h \in Hosts : Host(h, "inbound_id") \in DOMAIN now => RowOf(h) \subseteq DOMAIN now
      /\ \A c \in DOMAIN now : c[1] = "host" =>
            q.kind = "host" /\ Overlay(now, old.cell)[Host(c[2], "inbound_id")] = q.inbound
  <2>1. q \in Requests
    BY DEF Asked
  <2> QED
    BY <1>1, <2>1, WantedFits
<1> HIDE DEF now
<1>3. /\ r.kind = kind /\ r.inbound = (IF q.kind = "setting" THEN Absent ELSE q.inbound)
      /\ r.now = now /\ r.was = [c \in DOMAIN now |-> old.cell[c]]
      /\ r.form = [doc \in Docked(now) |-> old.form[doc]]
      /\ DOMAIN r = {"kind", "inbound", "was", "now", "form"}
      /\ r = [kind |-> r.kind, inbound |-> r.inbound, was |-> r.was, now |-> r.now, form |-> r.form]
  BY DEF Receipt
<1>4. /\ kind \in Kinds /\ r.inbound \in Inbounds \cup {Absent}
      /\ (kind = "endpoint" <=> q.kind = "endpoint") /\ (kind = "transport" <=> q.kind = "transport")
  <2>1. q \in Requests
    BY DEF Asked
  <2>2. q.kind \in {"setting", "share", "transport", "endpoint", "host"}
    BY <2>1 DEF Requests
  <2>3. q.kind # "setting" => q.inbound \in Inbounds
    BY <2>1 DEF Requests
  <2> QED
    BY <1>3, <2>2, <2>3 DEF Kinds
<1>5. DOMAIN now \in SUBSET Cells
  BY <1>2 DEF Parts
<1>6. r.was \in [DOMAIN now -> Whole]
  BY <1>1, <1>3, <1>5 DEF Contents, Whole
<1>7. r.was \in Parts /\ DOMAIN r.was = DOMAIN now
  BY <1>5, <1>6 DEF Parts
<1>8. Docked(now) \in SUBSET Docs /\ r.form \in [Docked(now) -> Forms]
  BY <1>1, <1>3 DEF Docked
<1>9. r.form \in Layouts
  BY <1>8 DEF Layouts
<1>10. r \in Receipts
  BY <1>2, <1>3, <1>4, <1>7, <1>9 DEF Receipts
<1>11. /\ After(q, now, old).cell = Overlay(now, old.cell)
       /\ After(q, now, old) \in Bases
  BY <1>1, <1>2, OverlayType DEF After, Bases, Relaid, Forms
<1> QED
  BY <1>2, <1>3, <1>6, <1>10, <1>11 DEF now

LEMMA InitTyped == Init => Typed
<1> SUFFICES ASSUME Init PROVE Typed
  OBVIOUS
<1>1. PICK start \in Starts : db = [cell |-> start, form |-> [doc \in Docs |-> "panel"]]
  BY DEF Init
<1>2. start \in Contents
  BY ConstantsAssumption
<1>3. db \in Bases /\ db.cell \in Contents
  BY <1>1, <1>2 DEF Bases, Forms
<1>4. Shares(db.cell) \in [Inbounds -> Values]
  BY <1>3, SharesType
<1>5. Len(Plans) \in Nat
  BY ConstantsAssumption
<1> QED
  BY <1>3, <1>4, <1>5, ConstantsAssumption DEF Init, Typed, Stages, RunStages, Open

\* What Raise does, besides the cells that are lost.
LEMMA RaiseTyped ==
    ASSUME Typed, Raise, edits' = edits, sealed' = sealed, touched' = touched, wrote' = wrote,
           ahead' = ahead, twice' = twice, lost' \subseteq Cells
    PROVE  Typed'
  BY DEF Typed, Raise, Stages, RunStages, Open

LEMMA GiveUpTyped ==
    ASSUME Typed, stage \in {"handler", "beforeUndo", "undo"}, NEW how, GiveUp(how),
           UNCHANGED <<pending, changes, baseline, audited, runs, stack, edits, sealed, wrote, touched,
                       ahead, twice>>
    PROVE  Typed'
<1>1. CellsOf(changes) \subseteq Cells
  BY CellsOfType DEF Typed
<1> QED
  BY <1>1 DEF Typed, GiveUp, Stages, RunStages, Open

LEMMA StartTyped == ASSUME Typed, Start PROVE Typed'
<1>1. db.cell \in Contents /\ Shares(db.cell) \in [Inbounds -> Values]
  BY SharesType DEF Typed, Bases
<1>2. stage' \in {"beforeInbound", "beforePublication"}
  BY DEF Start
<1>3. runs' \in 0 .. Len(Plans) /\ Len(stack) < runs'
  BY ConstantsAssumption DEF Start, Typed
<1> QED
  BY <1>1, <1>2, <1>3 DEF Start, Typed, Stages, RunStages, Open, data

LEMMA BeginTyped == ASSUME Typed, BeginInbound \/ BeginPublication PROVE Typed'
<1>1. runs \in 1 .. Len(Plans) \/ stage \notin RunStages
  BY ConstantsAssumption DEF Typed
<1>2. stage \in RunStages => Plan.inbound \in Seq(Asked) /\ Plan.publication \in Seq(Asked)
  BY <1>1, PlanAsks DEF Plan
<1>3. CASE BeginInbound
  BY <1>2, <1>3 DEF BeginInbound, Typed, Stages, RunStages, Open, data, past, history
<1>4. CASE BeginPublication /\ stage' = "publication"
  <2>1. stage = "beforePublication" /\ stage' = "publication" /\ queue' = Plan.publication
        /\ UNCHANGED <<data, pending, changes, baseline, audited, past, history>>
    BY <1>4 DEF BeginPublication, Raise
  <2> QED
    BY <1>2, <2>1 DEF Typed, Stages, RunStages, Open, data, past, history
<1>5. CASE BeginPublication /\ stage' # "publication"
  <2>1. Raise /\ UNCHANGED history
    BY <1>5 DEF BeginPublication
  <2> QED
    BY <2>1, RaiseTyped DEF history, Typed
<1> QED
  BY <1>3, <1>4, <1>5

LEMMA WriteTyped == ASSUME Typed, Write PROVE Typed'
<1> DEFINE q == Head(queue)
           now == Wanted(q, draft.cell, audited)
<1>1. /\ queue \in Seq(Asked) /\ queue # <<>> /\ stage \in {"inbound", "publication"}
      /\ draft \in Bases /\ audited \in [Inbounds -> Values]
  BY DEF Write, Typed
<1>2. q \in Asked /\ Tail(queue) \in Seq(Asked)
  BY <1>1
<1> HIDE DEF q
<1>3. CASE Raise /\ UNCHANGED history
  BY <1>3, RaiseTyped DEF history, Typed
<1>4. CASE /\ ~ NoRowLeft(q, draft) /\ queue' = Tail(queue)
           /\ \/ UNCHANGED <<draft, pending>>
              \/ draft' = After(q, now, draft) /\ pending' = Append(pending, Receipt(q, now, draft))
           /\ UNCHANGED <<db, stage, changes, baseline, audited, past, history>>
  <2>1. Receipt(q, now, draft) \in Receipts /\ After(q, now, draft) \in Bases
    BY <1>1, <1>2, <1>4, WriteType
  <2> HIDE DEF now
  <2>2. draft' \in Bases /\ pending' \in Seq(Receipts)
    <3>1. pending \in Seq(Receipts)
      BY DEF Typed
    <3> DEFINE r == Receipt(q, now, draft)
    <3>2. r \in Receipts
      BY <2>1
    <3> HIDE DEF r
    <3>3. Append(pending, r) \in Seq(Receipts)
      BY <3>1, <3>2
    <3> QED
      BY <1>1, <1>4, <2>1, <3>1, <3>3 DEF r
  <2> QED
    BY <1>1, <1>2, <1>4, <2>2 DEF Typed, Open, past, history
<1> QED
  BY <1>3, <1>4 DEF Write, q

LEMMA CommitTyped == ASSUME Typed, CommitInbound \/ CommitPublication PROVE Typed'
<1>1. pending \in Seq(Receipts) /\ changes \in Seq(Receipts) /\ changes \o pending \in Seq(Receipts)
  BY DEF Typed
<1>2. wrote' \in [Cells -> SUBSET Whole]
  <2>1. \A k \in DOMAIN pending : \A c \in Written(pending[k]) : pending[k].now[c] \in Whole
    <3> SUFFICES ASSUME NEW k \in DOMAIN pending, NEW c \in Written(pending[k])
                 PROVE  pending[k].now[c] \in Whole
      OBVIOUS
    <3>1. pending[k] \in Receipts
      BY <1>1
    <3>2. pending[k].now \in Parts /\ c \in DOMAIN pending[k].now
      BY <3>1 DEF Receipts, Written
    <3> QED
      BY <3>2 DEF Parts
  <2>2. \A c \in Cells : {pending[k].now[c] : k \in {k \in DOMAIN pending : c \in Written(pending[k])}}
                        \subseteq Whole
    BY <2>1
  <2>3. Remember(pending) /\ wrote \in [Cells -> SUBSET Whole]
    BY DEF CommitInbound, CommitPublication, Typed
  <2> QED
    BY <2>2, <2>3 DEF Remember
<1>3. CASE CommitInbound
  BY <1>1, <1>2, <1>3 DEF CommitInbound, Typed, Stages, RunStages, Open, past
<1>4. CASE CommitPublication
  BY <1>1, <1>2, <1>4 DEF CommitPublication, Typed, Stages, RunStages, Open, past
<1> QED
  BY <1>3, <1>4

LEMMA VerifyTyped == ASSUME Typed, Verify \/ Fail PROVE Typed'
<1>1. lost \cup CellsOf(pending) \subseteq Cells
  BY CellsOfType DEF Typed
<1>2. CASE Raise
  <2>1. lost' \subseteq Cells
    BY <1>1, <1>2 DEF Verify, Fail, Raise, Typed
  <2> QED
    BY <1>2, <2>1, RaiseTyped DEF Verify, Fail, Typed
<1>3. CASE Verify /\ ~ Raise
  <2>1. queue \in Seq(Receipts) /\ queue # <<>>
    BY <1>3 DEF Verify, Typed
  <2>2. Tail(queue) \in Seq(Receipts)
    BY <2>1
  <2> QED
    BY <1>3, <2>2 DEF Verify, Typed, data, past
<1> QED
  BY <1>2, <1>3 DEF Fail

LEMMA ReturnTyped == ASSUME Typed, Return PROVE Typed'
<1>1. pending \in Seq(Receipts) /\ changes \in Seq(Receipts) /\ changes \o pending \in Seq(Receipts)
  BY DEF Typed
<1> QED
  BY <1>1 DEF Return, Typed, Stages, RunStages, Open, data, past, history

LEMMA CheckTyped == ASSUME Typed, Check PROVE Typed'
<1>1. Shares(db.cell) \in [Inbounds -> Values]
  BY SharesType DEF Typed, Bases
<1>2. CASE Raise /\ UNCHANGED <<sealed, ahead>>
  BY <1>2, RaiseTyped DEF Check, Typed
<1>3. CASE ~ (Raise /\ UNCHANGED <<sealed, ahead>>)
  <2>1. /\ stage \in {"checkInbound", "checkPublication", "checkFinal"}
        /\ stage' = CASE stage = "checkInbound" -> "beforePublication"
                       [] stage = "checkPublication" -> "checkFinal"
                       [] stage = "checkFinal" -> "commit"
        /\ audited' = Shares(db.cell) /\ sealed' = edits
        /\ UNCHANGED <<data, queue, pending, changes, baseline, past, edits, wrote, touched, lost, twice>>
        /\ ahead' = {}
    BY <1>3 DEF Check
  <2>2. stage' \in {"beforePublication", "checkFinal", "commit"}
    BY <2>1
  <2> QED
    BY <1>1, <2>1, <2>2 DEF Typed, Stages, RunStages, Open, data, past
<1> QED
  BY <1>2, <1>3

LEMMA CompleteTyped == ASSUME Typed, Complete PROVE Typed'
<1> DEFINE e == [changes |-> changes, before |-> baseline, sealed |-> sealed]
<1>1. e \in Entries
  BY DEF Entries, Typed
<1> HIDE DEF e
<1>2. stack \in Seq(Entries) /\ stack' = Append(stack, e)
  BY DEF Complete, Typed, e
<1>3. stack' \in Seq(Entries) /\ Len(stack') = Len(stack) + 1
  BY <1>1, <1>2
<1>4. Len(stack') <= runs
  BY <1>2, <1>3, ConstantsAssumption DEF Complete, Typed, RunStages
<1> QED
  BY <1>3, <1>4 DEF Complete, Typed, Stages, RunStages, Open, data, run, history

LEMMA StackTop ==
    ASSUME Typed, stack # <<>>
    PROVE  /\ Last(stack) \in Entries /\ Last(stack) = stack[Len(stack)] /\ Len(stack) \in Nat \ {0}
           /\ Front(stack) \in Seq(Entries) /\ Len(Front(stack)) = Len(stack) - 1
           /\ \A k \in 1 .. Len(stack) - 1 : Front(stack)[k] = stack[k]
<1>1. stack \in Seq(Entries) /\ Len(stack) \in Nat \ {0}
  BY DEF Typed
<1>2. \A k \in 1 .. Len(stack) : stack[k] \in Entries
  BY <1>1
<1>3. /\ Len(stack) - 1 \in Nat
      /\ Front(stack) = [k \in 1 .. Len(stack) - 1 |-> stack[k]]
  BY <1>1 DEF Front
<1>4. Front(stack) \in Seq(Entries) /\ Len(Front(stack)) = Len(stack) - 1
  BY <1>1, <1>2, <1>3
<1> QED
  BY <1>1, <1>2, <1>3, <1>4 DEF Last

LEMMA RollbackTyped ==
    ASSUME Typed, Rollback, Last(stack).sealed <= sealed
    PROVE  Typed'
<1>1. stack # <<>>
  BY DEF Rollback
<1>2. /\ Last(stack).changes \in Seq(Receipts) /\ Last(stack).before \in Contents
      /\ Last(stack).sealed \in Nat
  BY <1>1, StackTop DEF Entries
<1>3. Front(stack) \in Seq(Entries) /\ Len(Front(stack)) < Len(stack) /\ Len(stack) \in Nat
  BY <1>1, StackTop
<1>4. Last(stack).sealed \in 0 .. edits
  BY <1>2 DEF Typed
<1>5. stage' \in {"idle", "beforeUndo"} /\ stage = "idle"
  BY DEF Rollback
<1>6. /\ changes' \in Seq(Receipts) /\ baseline' \in Contents /\ sealed' \in 0 .. edits
      /\ stack' \in Seq(Entries) /\ Len(stack') < Len(stack)
      /\ UNCHANGED <<db, draft, queue, pending, audited, runs, edits, wrote, touched, lost, ahead,
                     twice>>
  BY <1>2, <1>3, <1>4 DEF Rollback, data
<1>7. Len(stack') <= runs /\ Len(stack') \in Nat
  <2>1. Len(Plans) \in Nat
    BY ConstantsAssumption
  <2>2. Len(stack) <= runs /\ runs \in 0 .. Len(Plans) /\ Len(stack') \in Nat
    BY <1>6 DEF Typed
  <2> QED
    BY <1>3, <1>6, <2>1, <2>2
<1> QED
  BY <1>5, <1>6, <1>7 DEF Typed, Stages, RunStages, Open

LEMMA ReverseType ==
    ASSUME NEW s \in Seq(Receipts)
    PROVE  /\ Reverse(s) \in Seq(Receipts) /\ Len(Reverse(s)) = Len(s)
           /\ \A k \in 1 .. Len(s) : Reverse(s)[k] = s[Len(s) + 1 - k]
<1>1. \A k \in 1 .. Len(s) : s[(Len(s) - k) + 1] \in Receipts
  OBVIOUS
<1> QED
  BY <1>1 DEF Reverse

LEMMA UndoneType ==
    ASSUME NEW r \in Receipts, NEW d \in Bases
    PROVE  /\ Undone(r, d) \in Bases
           /\ \A c \in Cells : Undone(r, d).cell[c] =
                 IF c \in DOMAIN r.now
                 THEN IF r.kind = "endpoint" /\ r.was[c] = Blank THEN Absent ELSE r.was[c]
                 ELSE d.cell[c]
<1> DEFINE part == [c \in DOMAIN r.was |-> IF r.kind = "endpoint" /\ r.was[c] = Blank THEN Absent ELSE r.was[c]]
<1>1. /\ DOMAIN r.was = DOMAIN r.now /\ DOMAIN r.was \in SUBSET Cells
      /\ r.was \in [DOMAIN r.was -> Whole]
  BY DEF Receipts, Parts
<1>2. part \in [DOMAIN r.was -> Whole]
  BY <1>1 DEF Whole
<1>3. part \in Parts
  BY <1>1, <1>2 DEF Parts
<1>4. d.cell \in Contents /\ d.form \in [Docs -> Forms]
  BY DEF Bases
<1>5. Undone(r, d).cell = Overlay(part, d.cell)
  BY DEF Undone
<1>6. Undone(r, d).form \in [Docs -> Forms]
  <2>1. \A doc \in DOMAIN r.form : r.form[doc] \in Forms
    BY DEF Receipts, Layouts
  <2> QED
    BY <1>4, <2>1 DEF Undone, Relaid, Forms
<1>7. Undone(r, d) = [cell |-> Undone(r, d).cell, form |-> Undone(r, d).form]
  BY DEF Undone
<1>8. /\ Overlay(part, d.cell) \in Contents
      /\ \A c \in Cells : Overlay(part, d.cell)[c] = IF c \in DOMAIN part THEN part[c] ELSE d.cell[c]
  BY <1>3, <1>4, OverlayType
<1> QED
  BY <1>1, <1>5, <1>6, <1>7, <1>8 DEF Bases

LEMMA UndoTyped == ASSUME Typed, BeginUndo \/ Undo \/ CommitUndo PROVE Typed'
<1>1. CASE BeginUndo
  <2>1. Reverse(changes) \in Seq(Receipts)
    BY ReverseType DEF Typed
  <2> QED
    BY <1>1, <2>1 DEF BeginUndo, Typed, Stages, RunStages, Open, data, past, history
<1>2. CASE Undo /\ Reversible(Head(queue), draft)
  <2>1. queue \in Seq(Receipts) /\ queue # <<>> /\ draft \in Bases
    BY <1>2 DEF Undo, Typed
  <2>2. Head(queue) \in Receipts /\ Tail(queue) \in Seq(Receipts)
    BY <2>1
  <2>3. Undone(Head(queue), draft) \in Bases
    BY <2>1, <2>2, UndoneType
  <2> QED
    BY <1>2, <2>2, <2>3 DEF Undo, Typed, Open
<1>3. CASE Undo /\ ~ Reversible(Head(queue), draft)
  <2>1. /\ stage = "undo" /\ GiveUp("refused")
        /\ UNCHANGED <<pending, changes, baseline, audited, runs, stack, edits, sealed, wrote, touched,
                       ahead, twice>>
    BY <1>3 DEF Undo
  <2> QED
    BY <2>1, GiveUpTyped
<1>4. CASE CommitUndo
  BY <1>4 DEF CommitUndo, Typed, Stages, RunStages, Open, run, history
<1> QED
  BY <1>1, <1>2, <1>3, <1>4

LEMMA UndoFailsTyped == ASSUME Typed, UndoFails PROVE Typed'
  BY GiveUpTyped DEF UndoFails

\* What the panel writes.
LEMMA PanelPuts ==
    ASSUME Typed, Panel
    PROVE  \E cell \in Contents : \E form \in [Docs -> Forms] : \E cells \in SUBSET Cells :
              /\ PanelPut(cell, form, cells)
              /\ \A c \in Cells \ cells : cell[c] = db.cell[c]
<1>1. db.cell \in Contents /\ db.form \in [Docs -> Forms]
  BY DEF Typed, Bases
<1>2. \A docs, f : f \in Forms => Relaid(db.form, docs, f) \in [Docs -> Forms]
  BY <1>1 DEF Relaid
<1>3. CASE \E c \in Cells : \E v \in PanelWrites[c] : PanelWrite(c, v)
  <2>1. PICK c \in Cells : \E v \in PanelWrites[c] : PanelWrite(c, v)
    BY <1>3
  <2>2. PICK v \in PanelWrites[c] : PanelWrite(c, v)
    BY <2>1
  <2>3. v \in Whole
    BY <2>2, ConstantsAssumption DEF Whole
  <2> DEFINE cell == [db.cell EXCEPT ![c] = v]
             form == Relaid(db.form, {doc \in Docs : c \in FieldsOf(doc)}, "panel")
  <2>4. cell \in Contents /\ \A d \in Cells \ {c} : cell[d] = db.cell[d]
    BY <1>1, <2>3 DEF Contents, Whole
  <2>5. form \in [Docs -> Forms]
    BY <1>2 DEF Forms
  <2>6. PanelPut(cell, form, {c})
    BY <2>2 DEF PanelWrite
  <2> HIDE DEF cell, form
  <2> QED
    BY <2>4, <2>5, <2>6
<1>4. CASE \E doc \in Resaves : PanelResave(doc)
  <2>1. PICK doc \in Resaves : PanelResave(doc)
    BY <1>4
  <2> DEFINE form == Relaid(db.form, {doc}, "panel")
  <2>2. form \in [Docs -> Forms]
    BY <1>2 DEF Forms
  <2>3. PanelPut(db.cell, form, {})
    BY <2>1 DEF PanelResave
  <2> HIDE DEF form
  <2> QED
    BY <1>1, <2>2, <2>3
<1>5. CASE \E h \in Hosts : PanelDelete(h)
  <2>1. PICK h \in Hosts : PanelDelete(h)
    BY <1>5
  <2> DEFINE cell == [c \in Cells |-> IF c \in RowOf(h) THEN Absent ELSE db.cell[c]]
  <2>2. cell \in Contents /\ \A c \in Cells \ RowOf(h) : cell[c] = db.cell[c]
    BY <1>1 DEF Contents
  <2>3. PanelPut(cell, db.form, RowOf(h))
    BY <2>1 DEF PanelDelete
  <2>4. RowOf(h) \in SUBSET Cells
    BY CellFacts
  <2> HIDE DEF cell
  <2> QED
    BY <1>1, <2>2, <2>3, <2>4
<1>6. CASE \E h \in Hosts, i \in Inbounds : \E address \in PanelWrites[Host(h, "address")],
              port \in PanelWrites[Host(h, "port")] : PanelAdd(h, i, address, port)
  <2>1. PICK h \in Hosts, i \in Inbounds : \E address \in PanelWrites[Host(h, "address")],
              port \in PanelWrites[Host(h, "port")] : PanelAdd(h, i, address, port)
    BY <1>6
  <2>2. PICK address \in PanelWrites[Host(h, "address")], port \in PanelWrites[Host(h, "port")] :
              PanelAdd(h, i, address, port)
    BY <2>1
  <2> DEFINE new == NewRow(i, [value |-> address, port |-> port])
             part == [c \in RowOf(h) |-> new[c[3]]]
             cell == Overlay(part, db.cell)
  <2>3. Host(h, "address") \in Cells /\ Host(h, "port") \in Cells /\ RowOf(h) \in SUBSET Cells
    BY CellFacts DEF HostColumns
  <2>4. address \in Whole /\ port \in Whole /\ i \in Whole
    BY <2>3, ConstantsAssumption DEF Whole
  <2>5. \A a \in HostColumns : new[a] \in Whole
    BY <2>4, ConstantsAssumption DEF NewRow, HostColumns, Whole
  <2>6. part \in [RowOf(h) -> Whole]
    BY <2>5, CellFacts
  <2>7. PanelPut(cell, db.form, RowOf(h))
    BY <2>2 DEF PanelAdd
  <2> HIDE DEF part
  <2>8. part \in Parts /\ DOMAIN part = RowOf(h)
    BY <2>3, <2>6 DEF Parts
  <2>9. cell \in Contents /\ \A c \in Cells \ RowOf(h) : cell[c] = db.cell[c]
    BY <1>1, <2>8, OverlayType
  <2> HIDE DEF cell
  <2> QED
    BY <1>1, <2>3, <2>7, <2>9
<1> QED
  BY <1>3, <1>4, <1>5, <1>6 DEF Panel

LEMMA PanelTyped == ASSUME Typed, Panel PROVE Typed'
<1>1. PICK cell \in Contents, form \in [Docs -> Forms], cells \in SUBSET Cells :
         PanelPut(cell, form, cells)
  BY PanelPuts
<1>2. db' \in Bases /\ draft' = db'
  BY <1>1 DEF PanelPut, Bases
<1>3. edits' \in 0 .. MaxEdits /\ sealed \in 0 .. edits'
  BY <1>1, ConstantsAssumption DEF PanelPut, Typed
<1> QED
  BY <1>1, <1>2, <1>3 DEF PanelPut, Typed, run, past

\* Nothing is undone that was sealed later than what is undone after it.
SealsGrow ==
    /\ \A k \in 1 .. Len(stack) : stack[k].sealed <= sealed
    /\ \A j, k \in 1 .. Len(stack) : j < k => stack[j].sealed <= stack[k].sealed

LEMMA TypedStep == ASSUME Typed, SealsGrow, [Next]_vars PROVE Typed'
<1>1. CASE Apply
  BY <1>1, StartTyped, BeginTyped, WriteTyped, CommitTyped, VerifyTyped, ReturnTyped, CheckTyped,
     CompleteTyped DEF Apply
<1>2. CASE Restore
  <2>1. CASE Rollback
    <3>1. stack # <<>>
      BY <2>1 DEF Rollback
    <3>2. Last(stack).sealed <= sealed
      BY <3>1, StackTop DEF SealsGrow
    <3> QED
      BY <2>1, <3>2, RollbackTyped
  <2> QED
    BY <1>2, <2>1, UndoTyped, UndoFailsTyped DEF Restore
<1>3. CASE Panel
  BY <1>3, PanelTyped
<1>4. CASE Rest \/ UNCHANGED vars
  BY <1>4 DEF Rest, vars, data, run, past, history, Typed
<1> QED
  BY <1>1, <1>2, <1>3, <1>4 DEF Next

LEMMA InitSealsGrow == Init => SealsGrow
  BY DEF Init, SealsGrow

LEMMA SealsGrowStep == ASSUME Typed, SealsGrow, [Next]_vars PROVE SealsGrow'
<1>0. /\ \A k \in 1 .. Len(stack) : stack[k] \in Entries /\ stack[k].sealed \in Nat
      /\ Len(stack) \in Nat /\ sealed \in Nat /\ edits \in Nat /\ sealed <= edits
  <2>1. stack \in Seq(Entries)
    BY DEF Typed
  <2>2. \A e \in Entries : e.sealed \in Nat
    BY DEF Entries
  <2> QED
    BY <2>1, <2>2, ConstantsAssumption DEF Typed
<1>1. CASE stack' = stack /\ sealed' \in {sealed, edits}
  BY <1>0, <1>1 DEF SealsGrow
<1>2. CASE Complete
  <2> DEFINE e == [changes |-> changes, before |-> baseline, sealed |-> sealed]
  <2>1. stack' = Append(stack, e) /\ sealed' = sealed
    BY <1>2 DEF Complete, history
  <2>2. e.sealed = sealed
    OBVIOUS
  <2> HIDE DEF e
  <2>3. /\ Len(stack') = Len(stack) + 1 /\ stack'[Len(stack) + 1] = e
        /\ \A k \in 1 .. Len(stack) : stack'[k] = stack[k]
    BY <2>1 DEF Typed
  <2>4. \A k \in 1 .. Len(stack') : stack'[k].sealed <= sealed
    BY <1>0, <2>2, <2>3 DEF SealsGrow
  <2>5. ASSUME NEW j \in 1 .. Len(stack'), NEW k \in 1 .. Len(stack'), j < k
        PROVE  stack'[j].sealed <= stack'[k].sealed
    <3>1. CASE k = Len(stack) + 1
      BY <1>0, <2>2, <2>3, <2>4, <2>5, <3>1
    <3>2. CASE k # Len(stack) + 1
      BY <1>0, <2>3, <2>5, <3>2 DEF SealsGrow
    <3> QED
      BY <3>1, <3>2
  <2> QED
    BY <2>1, <2>4, <2>5 DEF SealsGrow
<1>3. CASE Rollback
  <2>1. stack # <<>> /\ stack' = Front(stack) /\ sealed' = Last(stack).sealed
    BY <1>3 DEF Rollback
  <2>2. /\ Len(stack') = Len(stack) - 1 /\ sealed' = stack[Len(stack)].sealed
        /\ \A k \in 1 .. Len(stack) - 1 : stack'[k] = stack[k]
        /\ Len(stack) \in Nat \ {0}
    BY <2>1, StackTop
  <2> QED
    BY <1>0, <2>2 DEF SealsGrow
<1>4. Complete \/ Rollback \/ (stack' = stack /\ sealed' \in {sealed, edits})
  BY DEF Next, Apply, Start, BeginInbound, BeginPublication, Write, CommitInbound, CommitPublication,
     Verify, Return, Check, Fail, Restore, BeginUndo, Undo, CommitUndo, UndoFails, Panel, PanelWrite,
     PanelResave, PanelDelete, PanelAdd, PanelPut, Rest, Raise, GiveUp, data, run, past, history, vars
<1> QED
  BY <1>1, <1>2, <1>3, <1>4

\* The types of the module follow.
LEMMA TypedImplies == ASSUME Typed PROVE TypeOK
<1>1. \A r \in Receipts : IsReceipt(r)
  BY DEF Receipts, IsReceipt, Parts, Layouts
<1>2. (\A k \in DOMAIN pending : pending[k] \in Receipts) /\ (\A k \in DOMAIN changes : changes[k] \in Receipts)
  BY DEF Typed
<1>3. \A d \in {db, draft} : d.cell \in Contents /\ d.form \in [Docs -> Forms]
  BY DEF Typed, Bases
<1> QED
  BY <1>1, <1>2, <1>3 DEF Typed, TypeOK

-------------------------------------------------------------------------------
(* What is undone was written by us *)

WroteAll(s) == \A k \in 1 .. Len(s) : \A c \in Written(s[k]) : s[k].now[c] \in wrote[c]

Recorded ==
    /\ WroteAll(changes)
    /\ stage = "verify" => WroteAll(pending)
    /\ \A k \in 1 .. Len(stack) : WroteAll(stack[k].changes)

\* The receipts that are still to be undone are the first ones, the last of them next.
Queued ==
    stage = "undo" =>
        /\ Len(queue) <= Len(changes)
        /\ \A i \in 1 .. Len(queue) : queue[i] = changes[Len(queue) + 1 - i]

UndoOwn ==
    stage = "undo" => \A c \in Cells : draft.cell[c] # db.cell[c] => db.cell[c] \in wrote[c]

LEMMA QueuedStep == ASSUME Typed, Queued, [Next]_vars PROVE Queued'
<1>1. CASE BeginUndo
  <2>1. /\ changes \in Seq(Receipts) /\ queue' = Reverse(changes) /\ changes' = changes
    BY <1>1 DEF BeginUndo, Typed
  <2> QED
    BY <2>1, ReverseType DEF Queued
<1>2. CASE stage' # "undo"
  BY <1>2 DEF Queued
<1>3. CASE stage = "undo" /\ stage' = "undo" /\ queue' = Tail(queue) /\ queue # <<>> /\ changes' = changes
  <2>1. queue \in Seq(Receipts) /\ queue # <<>> /\ changes \in Seq(Receipts)
    BY <1>3 DEF Typed
  <2>2. /\ Len(Tail(queue)) = Len(queue) - 1
        /\ \A i \in 1 .. Len(queue) - 1 : Tail(queue)[i] = queue[i + 1]
    BY <2>1
  <2> QED
    BY <1>3, <2>1, <2>2 DEF Queued
<1>4. CASE UNCHANGED <<stage, queue, changes>>
  BY <1>4 DEF Queued
<1>5. \/ BeginUndo \/ stage' # "undo" \/ UNCHANGED <<stage, queue, changes>>
      \/ stage = "undo" /\ stage' = "undo" /\ queue' = Tail(queue) /\ queue # <<>> /\ changes' = changes
  BY DEF Next, Apply, Start, BeginInbound, BeginPublication, Write, CommitInbound, CommitPublication,
     Verify, Return, Check, Complete, Fail, Restore, Rollback, Undo, CommitUndo, UndoFails, Panel,
     PanelWrite, PanelResave, PanelDelete, PanelAdd, PanelPut, Rest, Raise, GiveUp, data, run, past,
     history, vars
<1> QED
  BY <1>1, <1>2, <1>3, <1>4, <1>5

LEMMA WroteGrows ==
    ASSUME Typed, CommitInbound \/ CommitPublication
    PROVE  /\ \A c \in Cells : wrote[c] \subseteq wrote'[c]
           /\ \A k \in 1 .. Len(pending) : \A c \in Written(pending[k]) : pending[k].now[c] \in wrote'[c]
<1>1. Remember(pending) /\ wrote \in [Cells -> SUBSET Whole] /\ pending \in Seq(Receipts)
  BY DEF CommitInbound, CommitPublication, Typed
<1>2. \A r \in Receipts : Written(r) \subseteq Cells
  BY DEF Receipts, Parts, Written
<1>3. \A k \in 1 .. Len(pending) : Written(pending[k]) \subseteq Cells
  BY <1>1, <1>2
<1>4. DOMAIN pending = 1 .. Len(pending)
  BY <1>1
<1>5. \A c \in Cells : wrote'[c] = wrote[c] \cup {pending[k].now[c] :
                           k \in {k \in DOMAIN pending : c \in Written(pending[k])}}
  BY <1>1 DEF Remember
<1> QED
  BY <1>3, <1>4, <1>5

LEMMA WroteAllOf ==
    ASSUME NEW s \in Seq(Receipts), WroteAll(s), \A c \in Cells : wrote[c] \subseteq wrote'[c]
    PROVE  \A k \in 1 .. Len(s) : \A c \in Written(s[k]) : s[k].now[c] \in wrote'[c]
<1>1. \A k \in 1 .. Len(s) : Written(s[k]) \subseteq Cells
  BY DEF Receipts, Parts, Written
<1> QED
  BY <1>1 DEF WroteAll

LEMMA RecordedStep == ASSUME Typed, Recorded, [Next]_vars PROVE Recorded'
<1>0. /\ changes \in Seq(Receipts) /\ pending \in Seq(Receipts) /\ Len(stack) \in Nat
      /\ \A k \in 1 .. Len(stack) : stack[k].changes \in Seq(Receipts)
  <2>1. stack \in Seq(Entries)
    BY DEF Typed
  <2>2. \A e \in Entries : e.changes \in Seq(Receipts)
    BY DEF Entries
  <2>3. \A k \in 1 .. Len(stack) : stack[k] \in Entries
    BY <2>1
  <2> QED
    BY <2>1, <2>2, <2>3 DEF Typed
<1>1. CASE CommitInbound \/ CommitPublication
  <2>1. \A c \in Cells : wrote[c] \subseteq wrote'[c]
    BY <1>1, WroteGrows
  <2>2. \A k \in 1 .. Len(pending) : \A c \in Written(pending[k]) : pending[k].now[c] \in wrote'[c]
    BY <1>1, WroteGrows
  <2>3. \A k \in 1 .. Len(changes) : \A c \in Written(changes[k]) : changes[k].now[c] \in wrote'[c]
    BY <1>0, <2>1, WroteAllOf DEF Recorded
  <2>4. stack' = stack /\ \A k \in 1 .. Len(stack) : WroteAll(stack[k].changes)'
    <3>1. stack' = stack
      BY <1>1 DEF CommitInbound, CommitPublication, past
    <3>2. \A k \in 1 .. Len(stack) : \A j \in 1 .. Len(stack[k].changes) :
             \A c \in Written(stack[k].changes[j]) : stack[k].changes[j].now[c] \in wrote'[c]
      BY <1>0, <2>1, WroteAllOf DEF Recorded
    <3> QED
      BY <3>1, <3>2 DEF WroteAll
  <2>5. CASE CommitInbound
    <3>1. changes' = changes \o pending /\ stage' # "verify"
      BY <2>5 DEF CommitInbound
    <3>2. /\ Len(changes') = Len(changes) + Len(pending)
          /\ \A k \in 1 .. Len(changes') : changes'[k] = IF k <= Len(changes) THEN changes[k]
                                                         ELSE pending[k - Len(changes)]
      BY <1>0, <3>1
    <3>3. WroteAll(changes)'
      <4> SUFFICES ASSUME NEW k \in 1 .. Len(changes'), NEW c \in Written(changes'[k])
                   PROVE  changes'[k].now[c] \in wrote'[c]
        BY DEF WroteAll
      <4>1. CASE k <= Len(changes)
        BY <1>0, <2>3, <3>2, <4>1
      <4>2. CASE k > Len(changes)
        <5>1. k - Len(changes) \in 1 .. Len(pending) /\ changes'[k] = pending[k - Len(changes)]
          BY <1>0, <3>2, <4>2
        <5> QED
          BY <2>2, <5>1
      <4> QED
        BY <1>0, <3>2, <4>1, <4>2
    <3> QED
      BY <2>4, <3>1, <3>3 DEF Recorded
  <2>6. CASE CommitPublication
    <3>1. changes' = changes /\ pending' = pending
      BY <2>6 DEF CommitPublication
    <3> QED
      BY <2>2, <2>3, <2>4, <3>1 DEF Recorded, WroteAll
  <2> QED
    BY <1>1, <2>5, <2>6
<1>2. CASE Return
  <2>1. /\ changes' = changes \o pending /\ stage' # "verify" /\ stack' = stack /\ wrote' = wrote
        /\ WroteAll(changes) /\ WroteAll(pending)
    BY <1>2 DEF Return, Recorded, past, history
  <2>2. /\ Len(changes') = Len(changes) + Len(pending)
        /\ \A k \in 1 .. Len(changes') : changes'[k] = IF k <= Len(changes) THEN changes[k]
                                                       ELSE pending[k - Len(changes)]
    BY <1>0, <2>1
  <2>3. \A k \in 1 .. Len(changes') : \A c \in Written(changes'[k]) : changes'[k].now[c] \in wrote[c]
    <3> SUFFICES ASSUME NEW k \in 1 .. Len(changes'), NEW c \in Written(changes'[k])
                 PROVE  changes'[k].now[c] \in wrote[c]
      OBVIOUS
    <3>1. CASE k <= Len(changes)
      BY <1>0, <2>1, <2>2, <3>1 DEF WroteAll
    <3>2. CASE k > Len(changes)
      <4>1. k - Len(changes) \in 1 .. Len(pending) /\ changes'[k] = pending[k - Len(changes)]
        BY <1>0, <2>2, <3>2
      <4> QED
        BY <2>1, <4>1 DEF WroteAll
    <3> QED
      BY <1>0, <2>2, <3>1, <3>2
  <2> QED
    BY <2>1, <2>3 DEF Recorded, WroteAll
<1>3. CASE Complete
  <2> DEFINE e == [changes |-> changes, before |-> baseline, sealed |-> sealed]
  <2>1. stack' = Append(stack, e) /\ wrote' = wrote /\ changes' = changes /\ stage' # "verify"
    BY <1>3 DEF Complete, run, history
  <2>2. e.changes = changes
    OBVIOUS
  <2> HIDE DEF e
  <2>3. /\ Len(stack') = Len(stack) + 1 /\ stack'[Len(stack) + 1] = e
        /\ \A k \in 1 .. Len(stack) : stack'[k] = stack[k]
    BY <2>1 DEF Typed
  <2>4. \A k \in 1 .. Len(stack') : WroteAll(stack'[k].changes)
    BY <1>0, <2>2, <2>3 DEF Recorded
  <2> QED
    BY <2>1, <2>4 DEF Recorded, WroteAll
<1>4. CASE Rollback
  <2>1. /\ stack # <<>> /\ stack' = Front(stack) /\ changes' = Last(stack).changes /\ wrote' = wrote
        /\ stage' # "verify"
    BY <1>4 DEF Rollback
  <2>2. /\ Len(stack') = Len(stack) - 1 /\ changes' = stack[Len(stack)].changes
        /\ \A k \in 1 .. Len(stack) - 1 : stack'[k] = stack[k]
        /\ Len(stack) \in Nat \ {0}
    BY <2>1, StackTop
  <2>3. \A k \in 1 .. Len(stack) : WroteAll(stack[k].changes)
    BY DEF Recorded
  <2>4. WroteAll(changes') /\ \A k \in 1 .. Len(stack') : WroteAll(stack'[k].changes)
    <3>1. WroteAll(stack[Len(stack)].changes)
      BY <2>2, <2>3
    <3> QED
      BY <2>2, <2>3, <3>1
  <2> QED
    BY <2>1, <2>4 DEF Recorded, WroteAll
<1>5. CASE /\ UNCHANGED <<stack, wrote>> /\ changes' \in {changes, <<>>}
           /\ stage' = "verify" => stage = "verify" /\ pending' = pending
  <2>1. WroteAll(<<>>)
    BY DEF WroteAll
  <2> QED
    BY <1>5, <2>1 DEF Recorded, WroteAll
<1>6. \/ CommitInbound \/ CommitPublication \/ Return \/ Complete \/ Rollback
      \/ /\ UNCHANGED <<stack, wrote>> /\ changes' \in {changes, <<>>}
         /\ stage' = "verify" => stage = "verify" /\ pending' = pending
  BY DEF Next, Apply, Start, BeginInbound, BeginPublication, Write, Verify, Check, Fail, Restore,
     BeginUndo, Undo, CommitUndo, UndoFails, Panel, PanelWrite, PanelResave, PanelDelete, PanelAdd,
     PanelPut, Rest, Raise, GiveUp, data, run, past, history, vars
<1> QED
  BY <1>1, <1>2, <1>3, <1>4, <1>5, <1>6

LEMMA UndoOwnStep ==
    ASSUME Typed, Recorded, Queued, UndoOwn, [Next]_vars
    PROVE  UndoOwn'
<1>1. CASE stage' # "undo"
  BY <1>1 DEF UndoOwn
<1>2. CASE stage' = "undo" /\ stage # "undo"
  <2>1. BeginUndo
    BY <1>2 DEF Next, Apply, Start, BeginInbound, BeginPublication, Write, CommitInbound,
       CommitPublication, Verify, Return, Check, Complete, Fail, Restore, Rollback, Undo, CommitUndo,
       UndoFails, Panel, PanelWrite, PanelResave, PanelDelete, PanelAdd, PanelPut, Rest, Raise,
       GiveUp, data, run, past, history, vars
  <2>2. draft' = db'
    BY <2>1 DEF BeginUndo, Typed, Open, data
  <2> QED
    BY <2>2 DEF UndoOwn
<1>3. CASE stage' = "undo" /\ stage = "undo" /\ ~ Undo
  <2>1. UNCHANGED <<db, draft, wrote>>
    BY <1>3 DEF Next, Apply, Start, BeginInbound, BeginPublication, Write, CommitInbound,
       CommitPublication, Verify, Return, Check, Complete, Fail, Restore, Rollback, BeginUndo,
       CommitUndo, UndoFails, Panel, PanelWrite, PanelResave, PanelDelete, PanelAdd, PanelPut, Rest,
       Raise, GiveUp, data, run, past, history, vars, Open
  <2> QED
    BY <1>3, <2>1 DEF UndoOwn
<1>4. CASE stage' = "undo" /\ stage = "undo" /\ Undo
  <2> DEFINE r == Head(queue)
  <2>1. /\ queue \in Seq(Receipts) /\ queue # <<>> /\ draft \in Bases /\ changes \in Seq(Receipts)
        /\ Reversible(r, draft) /\ draft' = Undone(r, draft) /\ UNCHANGED <<db, wrote>>
    BY <1>4 DEF Undo, GiveUp, Typed
  <2>2. r = queue[1] /\ Len(queue) \in 1 .. Len(changes) /\ r = changes[Len(queue)] /\ r \in Receipts
    <3>1. r = queue[1] /\ Len(queue) \in Nat /\ Len(queue) >= 1 /\ r \in Receipts
      BY <2>1
    <3>2. Len(queue) <= Len(changes) /\ queue[1] = changes[Len(queue) + 1 - 1]
      BY <1>4, <3>1 DEF Queued
    <3> QED
      BY <2>1, <3>1, <3>2
  <2> HIDE DEF r
  <2>3. \A c \in Written(r) : r.now[c] \in wrote[c]
    BY <2>2 DEF Recorded, WroteAll
  <2>4. \A c \in Cells : Undone(r, draft).cell[c] =
                 IF c \in DOMAIN r.now
                 THEN IF r.kind = "endpoint" /\ r.was[c] = Blank THEN Absent ELSE r.was[c]
                 ELSE draft.cell[c]
    BY <2>1, <2>2, UndoneType
  <2>5. \A c \in DOMAIN r.now : draft.cell[c] = r.now[c]
    BY <2>1 DEF Reversible, Holds
  <2> SUFFICES ASSUME NEW c \in Cells, draft'.cell[c] # db.cell[c] PROVE db.cell[c] \in wrote[c]
    BY <2>1 DEF UndoOwn
  <2>6. CASE draft.cell[c] # db.cell[c]
    BY <1>4, <2>6 DEF UndoOwn
  <2>7. CASE draft.cell[c] = db.cell[c]
    <3>1. c \in DOMAIN r.now /\ draft.cell[c] = r.now[c]
      BY <2>1, <2>4, <2>5, <2>7
    <3>2. c \in Written(r)
      BY <2>1, <2>4, <2>7, <3>1 DEF Written
    <3> QED
      BY <2>3, <2>7, <3>1, <3>2
  <2> QED
    BY <2>6, <2>7
<1> QED
  BY <1>1, <1>2, <1>3, <1>4

\* Undoing writes in no cell in which the panel wrote after us.
LEMMA UndoKeepsStep ==
    ASSUME Typed, UndoOwn, [Next]_vars, stage = "undo", NEW c \in Cells, db'.cell[c] # db.cell[c]
    PROVE  db.cell[c] \in wrote[c]
<1>1. db' \in {db, draft}
  BY DEF Next, Apply, Start, BeginInbound, BeginPublication, Write, CommitInbound, CommitPublication,
     Verify, Return, Check, Complete, Fail, Restore, Rollback, BeginUndo, Undo, CommitUndo, UndoFails,
     Panel, PanelWrite, PanelResave, PanelDelete, PanelAdd, PanelPut, Rest, Raise, GiveUp, data, run,
     past, history, vars, Open
<1> QED
  BY <1>1 DEF UndoOwn

-------------------------------------------------------------------------------
(* Trails: the values one cell had from receipt to receipt *)

\* Induction, for a set instead of a predicate.
LEMMA NatInd ==
    ASSUME NEW S, 0 \in S, \A n \in Nat : n \in S => n + 1 \in S
    PROVE  \A n \in Nat : n \in S
<1> DEFINE R == OpToRel(<, Nat)
<1>1. SUFFICES ASSUME Nat \ S # {} PROVE FALSE
  OBVIOUS
<1>2. \E x \in Nat \ S : \A y \in Nat \ S : ~ (<<y, x>> \in R)
  <2>1. IsWellFoundedOn(R, Nat)
    BY NatLessThanWellFounded
  <2> HIDE DEF R
  <2> QED
    BY <1>1, <2>1, WFMin
<1>3. PICK x \in Nat \ S : \A y \in Nat \ S : ~ (y < x)
  BY <1>2 DEF OpToRel
<1>4. x # 0 /\ x - 1 \in Nat /\ x - 1 < x
  BY <1>3
<1>5. x - 1 \in S
  BY <1>3, <1>4
<1>6. (x - 1) + 1 \in S
  BY <1>4, <1>5
<1> QED
  BY <1>3, <1>6

\* A row of hosts belongs to an inbound where a receipt speaks of the row.
OwnerOf(r, c) == \E d \in DOMAIN r.now : d[1] = "host" /\ c = Host(d[2], "inbound_id")

Trail(c, s, f) ==
    /\ f \in [0 .. Len(s) -> Whole]
    /\ \A k \in 1 .. Len(s) : IF c \in DOMAIN s[k].now
                              THEN f[k - 1] = s[k].was[c] /\ f[k] = s[k].now[c]
                              ELSE f[k] = f[k - 1]
    /\ \A k \in 1 .. Len(s) : OwnerOf(s[k], c) => f[k] = s[k].inbound

\* The receipts lead from one value to the other.
From(c, s, b, v) == \E f : Trail(c, s, f) /\ f[0] = b /\ f[Len(s)] = v

Way(c, s, b, v) == \E w : From(c, s, b, w) /\ Alike(c, v, w)

LEMMA AlikeFacts ==
    ASSUME NEW c, NEW u, NEW v, NEW w
    PROVE  /\ Alike(c, v, v)
           /\ Alike(c, v, w) => Alike(c, w, v)
           /\ Alike(c, u, v) /\ Alike(c, v, w) => Alike(c, u, w)
  BY DEF Alike

LEMMA FromEmpty ==
    ASSUME NEW c, NEW b \in Whole
    PROVE  From(c, <<>>, b, b) /\ \A v : From(c, <<>>, b, v) => v = b
<1>1. From(c, <<>>, b, b)
  <2> DEFINE f == [k \in 0 .. 0 |-> b]
  <2>1. Trail(c, <<>>, f) /\ f[0] = b /\ Len(<<>>) = 0
    BY DEF Trail
  <2> HIDE DEF f
  <2> QED
    BY <2>1 DEF From
<1>2. ASSUME NEW v, From(c, <<>>, b, v) PROVE v = b
  BY <1>2 DEF From
<1> QED
  BY <1>1, <1>2

LEMMA FromAppend ==
    ASSUME NEW c, NEW s \in Seq(Receipts), NEW r \in Receipts, NEW b, NEW v, NEW w \in Whole,
           From(c, s, b, v),
           IF c \in DOMAIN r.now THEN v = r.was[c] /\ w = r.now[c] ELSE w = v,
           OwnerOf(r, c) => w = r.inbound
    PROVE  From(c, Append(s, r), b, w)
<1>1. PICK f : Trail(c, s, f) /\ f[0] = b /\ f[Len(s)] = v
  BY DEF From
<1> DEFINE n == Len(s)
           t == Append(s, r)
           g == [k \in 0 .. n + 1 |-> IF k = n + 1 THEN w ELSE f[k]]
<1>2. n \in Nat /\ Len(t) = n + 1 /\ t[n + 1] = r /\ \A k \in 1 .. n : t[k] = s[k]
  OBVIOUS
<1>3. f \in [0 .. n -> Whole]
  BY <1>1 DEF Trail
<1>4. g \in [0 .. n + 1 -> Whole] /\ g[n + 1] = w /\ \A k \in 0 .. n : g[k] = f[k]
  BY <1>2, <1>3
<1> HIDE DEF g, t, n
<1>5. ASSUME NEW k \in 1 .. n + 1
      PROVE  IF c \in DOMAIN t[k].now
             THEN g[k - 1] = t[k].was[c] /\ g[k] = t[k].now[c]
             ELSE g[k] = g[k - 1]
  <2>1. CASE k = n + 1
    <3>1. g[k] = w /\ g[k - 1] = v /\ t[k] = r
      <4>1. k - 1 = n /\ n \in 0 .. n
        BY <1>2, <2>1
      <4> QED
        BY <1>1, <1>2, <1>4, <2>1, <4>1 DEF n
    <3> QED
      BY <3>1
  <2>2. CASE k # n + 1
    <3>1. k \in 1 .. n /\ k \in 0 .. n /\ k - 1 \in 0 .. n
      BY <1>2, <2>2
    <3>2. g[k] = f[k] /\ g[k - 1] = f[k - 1] /\ t[k] = s[k]
      BY <1>2, <1>4, <3>1
    <3> QED
      BY <1>1, <3>1, <3>2 DEF Trail, n
  <2> QED
    BY <2>1, <2>2
<1>6. Trail(c, t, g)
  <2>1. ASSUME NEW k \in 1 .. n + 1, OwnerOf(t[k], c) PROVE g[k] = t[k].inbound
    <3>1. CASE k = n + 1
      BY <1>2, <1>4, <2>1, <3>1
    <3>2. CASE k # n + 1
      <4>1. k \in 1 .. n /\ k \in 0 .. n
        BY <1>2, <3>2
      <4>2. g[k] = f[k] /\ t[k] = s[k]
        BY <1>2, <1>4, <4>1
      <4> QED
        BY <1>1, <2>1, <4>1, <4>2 DEF Trail, n
    <3> QED
      BY <3>1, <3>2
  <2> QED
    BY <1>2, <1>4, <1>5, <2>1 DEF Trail
<1>7. g[0] = b /\ g[Len(t)] = w
  BY <1>1, <1>2, <1>4
<1> QED
  BY <1>6, <1>7 DEF From, t

\* Receipts that do not speak of a cell leave it as it is.
LEMMA FromCut ==
    ASSUME NEW c, NEW s \in Seq(Receipts), NEW t \in Seq(Receipts), NEW b, NEW v,
           From(c, s \o t, b, v), c \notin CellsOf(t)
    PROVE  From(c, s, b, v)
<1>1. PICK f : Trail(c, s \o t, f) /\ f[0] = b /\ f[Len(s \o t)] = v
  BY DEF From
<1> DEFINE m == Len(s)
           n == Len(t)
<1>2. /\ m \in Nat /\ n \in Nat /\ Len(s \o t) = m + n
      /\ \A k \in 1 .. m : (s \o t)[k] = s[k]
      /\ \A k \in 1 .. n : (s \o t)[m + k] = t[k]
  OBVIOUS
<1>3. \A k \in 1 .. n : c \notin DOMAIN t[k].now
  BY DEF CellsOf
<1>4. /\ f \in [0 .. m + n -> Whole]
      /\ \A k \in 1 .. m + n : IF c \in DOMAIN (s \o t)[k].now
                              THEN f[k - 1] = (s \o t)[k].was[c] /\ f[k] = (s \o t)[k].now[c]
                              ELSE f[k] = f[k - 1]
      /\ \A k \in 1 .. m + n : OwnerOf((s \o t)[k], c) => f[k] = (s \o t)[k].inbound
  BY <1>1, <1>2 DEF Trail
<1> HIDE DEF m, n
<1> DEFINE S == {k \in Nat : k <= n => f[m + k] = f[m]}
<1>5. 0 \in S
  BY <1>2
<1>6. ASSUME NEW k \in Nat, k \in S PROVE k + 1 \in S
  <2> SUFFICES ASSUME k + 1 <= n PROVE f[m + (k + 1)] = f[m]
    OBVIOUS
  <2>1. k + 1 \in 1 .. n /\ m + (k + 1) \in 1 .. m + n /\ (m + (k + 1)) - 1 = m + k /\ k <= n
    BY <1>2
  <2>2. f[m + k] = f[m]
    BY <1>6, <2>1
  <2>3. f[m + (k + 1)] = f[(m + (k + 1)) - 1]
    BY <1>2, <1>3, <1>4, <2>1
  <2> QED
    BY <2>1, <2>2, <2>3
<1> HIDE DEF S
<1>7. n \in S
  BY <1>2, <1>5, <1>6, NatInd
<1>8. f[m] = v
  BY <1>1, <1>2, <1>7 DEF S
<1> DEFINE g == [k \in 0 .. m |-> f[k]]
<1>9. g \in [0 .. m -> Whole] /\ \A k \in 0 .. m : g[k] = f[k]
  <2>1. \A k \in 0 .. m : k \in 0 .. m + n
    BY <1>2
  <2> QED
    BY <1>4, <2>1
<1> HIDE DEF g
<1>10. ASSUME NEW k \in 1 .. m
       PROVE  IF c \in DOMAIN s[k].now
              THEN g[k - 1] = s[k].was[c] /\ g[k] = s[k].now[c]
              ELSE g[k] = g[k - 1]
  <2>1. k \in 1 .. m + n /\ k \in 0 .. m /\ k - 1 \in 0 .. m
    BY <1>2
  <2>2. g[k] = f[k] /\ g[k - 1] = f[k - 1] /\ (s \o t)[k] = s[k]
    BY <1>2, <1>9, <2>1
  <2> QED
    BY <1>4, <2>1, <2>2
<1>11. Trail(c, s, g)
  <2>1. ASSUME NEW k \in 1 .. m, OwnerOf(s[k], c) PROVE g[k] = s[k].inbound
    <3>1. k \in 1 .. m + n /\ k \in 0 .. m
      BY <1>2
    <3>2. g[k] = f[k] /\ (s \o t)[k] = s[k]
      BY <1>2, <1>9, <3>1
    <3> QED
      BY <1>4, <2>1, <3>1, <3>2
  <2> QED
    BY <1>9, <1>10, <2>1 DEF Trail, m
<1>12. g[0] = b /\ g[Len(s)] = v
  <2>1. 0 \in 0 .. m /\ m \in 0 .. m
    BY <1>2
  <2> QED
    BY <1>1, <1>8, <1>9, <2>1 DEF m
<1> QED
  BY <1>11, <1>12 DEF From

LEMMA FromUncovered ==
    ASSUME NEW c, NEW s \in Seq(Receipts), NEW b \in Whole, NEW v, From(c, s, b, v),
           c \notin CellsOf(s)
    PROVE  v = b
<1>1. <<>> \in Seq(Receipts) /\ <<>> \o s = s
  OBVIOUS
<1>2. From(c, <<>>, b, v)
  BY <1>1, FromCut
<1> QED
  BY <1>2, FromEmpty

LEMMA WayUncovered ==
    ASSUME NEW c, NEW s \in Seq(Receipts), NEW b \in Whole, NEW v, Way(c, s, b, v),
           c \notin CellsOf(s) \/ s = <<>>
    PROVE  Alike(c, v, b)
<1>1. PICK w : From(c, s, b, w) /\ Alike(c, v, w)
  BY DEF Way
<1>2. CellsOf(<<>>) = {}
  BY DEF CellsOf
<1> QED
  BY <1>1, <1>2, FromUncovered

LEMMA WayAlike ==
    ASSUME NEW c, NEW s, NEW b, NEW v, NEW w, Way(c, s, b, v), Alike(c, w, v)
    PROVE  Way(c, s, b, w)
  BY AlikeFacts DEF Way

LEMMA FromWay == ASSUME NEW c, NEW s, NEW b, NEW v, From(c, s, b, v) PROVE Way(c, s, b, v)
  BY AlikeFacts DEF Way

\* A function defined by recursion from given steps exists.
Steps(N, T) == [1 .. N -> [T -> T]]

Follows(f, N, T, b, F) ==
    f \in [0 .. N -> T] /\ f[0] = b /\ \A n \in 1 .. N : f[n] = F[n][f[n - 1]]

LEMMA Recursion ==
    ASSUME NEW N \in Nat, NEW T, NEW b \in T, NEW F \in Steps(N, T)
    PROVE  \E f : Follows(f, N, T, b, F)
<1> USE DEF Steps
<1> DEFINE S == {m \in Nat : m <= N => \E f \in [0 .. m -> T] :
                    f[0] = b /\ \A n \in 1 .. m : f[n] = F[n][f[n - 1]]}
<1>1. 0 \in S
  <2> DEFINE f == [n \in 0 .. 0 |-> b]
  <2>1. f \in [0 .. 0 -> T] /\ f[0] = b /\ \A n \in 1 .. 0 : f[n] = F[n][f[n - 1]]
    OBVIOUS
  <2> QED
    BY <2>1
<1>2. ASSUME NEW m \in Nat, m \in S PROVE m + 1 \in S
  <2> SUFFICES ASSUME m + 1 <= N
               PROVE  \E f \in [0 .. m + 1 -> T] :
                        f[0] = b /\ \A n \in 1 .. m + 1 : f[n] = F[n][f[n - 1]]
    OBVIOUS
  <2>1. m <= N
    OBVIOUS
  <2>2. PICK g \in [0 .. m -> T] : g[0] = b /\ \A n \in 1 .. m : g[n] = F[n][g[n - 1]]
    BY <1>2, <2>1
  <2> DEFINE f == [n \in 0 .. m + 1 |-> IF n = m + 1 THEN F[m + 1][g[m]] ELSE g[n]]
  <2>3. F[m + 1][g[m]] \in T
    BY <2>2
  <2>4. f \in [0 .. m + 1 -> T] /\ f[0] = b
    BY <2>2, <2>3
  <2>5. ASSUME NEW n \in 1 .. m + 1 PROVE f[n] = F[n][f[n - 1]]
    <3>1. CASE n = m + 1
      <4>1. f[n - 1] = g[m] /\ f[n] = F[n][g[m]]
        BY <3>1
      <4> QED
        BY <4>1
    <3>2. CASE n # m + 1
      <4>1. n \in 1 .. m /\ f[n] = g[n] /\ f[n - 1] = g[n - 1]
        BY <3>2
      <4> QED
        BY <2>2, <4>1
    <3> QED
      BY <3>1, <3>2
  <2> HIDE DEF f
  <2> QED
    BY <2>4, <2>5
<1> HIDE DEF S
<1>3. N \in S
  BY <1>1, <1>2, NatInd
<1> QED
  BY <1>3 DEF S, Follows

\* What StepBack works on.
Glances == [ok : BOOLEAN, cell : Contents]

LEMMA StepBackFacts ==
    ASSUME NEW at \in Glances, NEW r \in Receipts
    PROVE  /\ StepBack(at, r) \in Glances
           /\ StepBack(at, r).ok =>
                 /\ at.ok
                 /\ \A c \in Cells : IF c \in DOMAIN r.now
                                     THEN at.cell[c] = r.now[c] /\ StepBack(at, r).cell[c] = r.was[c]
                                     ELSE StepBack(at, r).cell[c] = at.cell[c]
                 /\ \A c \in Cells : OwnerOf(r, c) => at.cell[c] = r.inbound
<1>1. r.was \in Parts /\ DOMAIN r.was = DOMAIN r.now /\ at.cell \in Contents /\ at.ok \in BOOLEAN
  BY DEF Receipts, Glances
<1>2. /\ Overlay(r.was, at.cell) \in Contents
      /\ \A c \in Cells : Overlay(r.was, at.cell)[c] = IF c \in DOMAIN r.was THEN r.was[c] ELSE at.cell[c]
  BY <1>1, OverlayType
<1>3. StepBack(at, r).cell = Overlay(r.was, at.cell) /\ StepBack(at, r).ok \in BOOLEAN
  BY <1>1 DEF StepBack
<1>4. StepBack(at, r) \in Glances
  BY <1>2, <1>3 DEF Glances, StepBack
<1>5. StepBack(at, r).ok => at.ok /\ Holds(r, at.cell) /\ SameInbound(r, at.cell)
  BY DEF StepBack
<1>6. SameInbound(r, at.cell) => \A c \in Cells : OwnerOf(r, c) => at.cell[c] = r.inbound
  BY DEF SameInbound, OwnerOf
<1> QED
  BY <1>1, <1>2, <1>3, <1>4, <1>5, <1>6 DEF Holds

\* When the check passes, the receipts lead from the baseline to what it found, in every cell.
LEMMA AcceptedLeads ==
    ASSUME NEW cell \in Contents, NEW s \in Seq(Receipts), Accepted(cell, s), NEW c \in Cells
    PROVE  From(c, s, baseline[c], cell[c])
<1> DEFINE N == Len(s)
           F == [n \in 1 .. N |-> [at \in Glances |-> StepBack(at, s[N - n + 1])]]
           base == [ok |-> TRUE, cell |-> cell]
           back == CHOOSE f : f = [n \in 0 .. N |-> IF n = 0 THEN base
                                                  ELSE StepBack(f[n - 1], s[N - n + 1])]
<1>1. N \in Nat /\ base \in Glances
  BY DEF Glances
<1>2. \A n \in 1 .. N : s[N - n + 1] \in Receipts
  BY <1>1
<1>3. F \in Steps(N, Glances)
  <2>1. \A n \in 1 .. N : [at \in Glances |-> StepBack(at, s[N - n + 1])] \in [Glances -> Glances]
    BY <1>2, StepBackFacts
  <2> QED
    BY <2>1 DEF Steps
<1>4. back[N] = [ok |-> TRUE, cell |-> baseline]
  BY DEF Accepted
<1>5. /\ back \in [0 .. N -> Glances] /\ back[0] = base
      /\ \A n \in 1 .. N : back[n] = StepBack(back[n - 1], s[N - n + 1])
  <2> DEFINE G(f) == [n \in 0 .. N |-> IF n = 0 THEN base ELSE StepBack(f[n - 1], s[N - n + 1])]
  <2> HIDE DEF base, N, F
  <2>1. PICK f : Follows(f, N, Glances, base, F)
    BY <1>1, <1>3, Recursion
  <2>2. f \in [0 .. N -> Glances] /\ f[0] = base /\ \A n \in 1 .. N : f[n] = F[n][f[n - 1]]
    BY <2>1 DEF Follows
  <2>3. ASSUME NEW n \in 1 .. N PROVE f[n] = StepBack(f[n - 1], s[N - n + 1])
    <3>1. n - 1 \in 0 .. N
      BY <1>1
    <3>2. f[n - 1] \in Glances
      BY <2>2, <3>1
    <3> QED
      BY <2>2, <3>2 DEF F
  <2>4. f = G(f)
    BY <1>1, <2>2, <2>3
  <2>5. back = G(back)
    BY <2>4
  <2>6. back[0] = base /\ \A n \in 1 .. N : back[n] = StepBack(back[n - 1], s[N - n + 1])
    <3> HIDE DEF back
    <3>1. 0 \in 0 .. N /\ \A n \in 1 .. N : n \in 0 .. N /\ n # 0
      BY <1>1
    <3> QED
      BY <2>5, <3>1
  <2> DEFINE S == {n \in Nat : n <= N => back[n] = f[n]}
  <2> HIDE DEF back
  <2>7. 0 \in S
    BY <2>2, <2>6
  <2>8. ASSUME NEW n \in Nat, n \in S PROVE n + 1 \in S
    <3> SUFFICES ASSUME n + 1 <= N PROVE back[n + 1] = f[n + 1]
      OBVIOUS
    <3>1. n + 1 \in 1 .. N /\ (n + 1) - 1 = n /\ n <= N
      BY <1>1
    <3>2. back[n] = f[n]
      BY <2>8, <3>1
    <3> QED
      BY <2>3, <2>6, <3>1, <3>2
  <2> HIDE DEF S
  <2>9. \A n \in Nat : n \in S
    BY <2>7, <2>8, NatInd
  <2>10. \A n \in 0 .. N : back[n] = f[n]
    BY <1>1, <2>9 DEF S
  <2>11. DOMAIN back = 0 .. N /\ back = [n \in 0 .. N |-> back[n]]
    BY <2>5
  <2> QED
    BY <2>2, <2>6, <2>10, <2>11
<1> HIDE DEF back, base, F, N
<1>6. \A n \in 0 .. N : back[n].ok
  <2> DEFINE S == {n \in Nat : n <= N => back[N - n].ok}
  <2>1. 0 \in S
    BY <1>1, <1>4
  <2>2. ASSUME NEW n \in Nat, n \in S PROVE n + 1 \in S
    <3> SUFFICES ASSUME n + 1 <= N PROVE back[N - (n + 1)].ok
      OBVIOUS
    <3>1. N - n \in 1 .. N /\ (N - n) - 1 = N - (n + 1) /\ N - (n + 1) \in 0 .. N /\ n <= N
      BY <1>1
    <3>2. back[N - n].ok
      BY <2>2, <3>1
    <3> DEFINE m == N - n
    <3>3. back[m] = StepBack(back[m - 1], s[N - m + 1]) /\ back[m - 1] \in Glances /\ s[N - m + 1] \in Receipts
      BY <1>2, <1>5, <3>1
    <3>4. back[m - 1].ok
      BY <3>2, <3>3, StepBackFacts
    <3> QED
      BY <3>1, <3>4
  <2> HIDE DEF S
  <2>3. \A n \in Nat : n \in S
    BY <2>1, <2>2, NatInd
  <2> SUFFICES ASSUME NEW n \in 0 .. N PROVE back[n].ok
    OBVIOUS
  <2>4. N - n \in Nat /\ N - n <= N /\ N - (N - n) = n
    BY <1>1
  <2>5. N - n \in S
    BY <2>3, <2>4
  <2> QED
    BY <2>4, <2>5 DEF S
<1> DEFINE g == [k \in 0 .. N |-> back[N - k].cell[c]]
<1>7. g \in [0 .. N -> Whole] /\ \A k \in 0 .. N : g[k] = back[N - k].cell[c]
  <2>1. \A k \in 0 .. N : N - k \in 0 .. N
    BY <1>1
  <2>2. \A at \in Glances : at.cell[c] \in Whole
    BY DEF Glances, Contents, Whole
  <2> QED
    BY <1>5, <2>1, <2>2
<1> HIDE DEF g
<1>8. ASSUME NEW k \in 1 .. N
      PROVE  /\ IF c \in DOMAIN s[k].now
                THEN g[k - 1] = s[k].was[c] /\ g[k] = s[k].now[c]
                ELSE g[k] = g[k - 1]
             /\ OwnerOf(s[k], c) => g[k] = s[k].inbound
  <2> DEFINE n == N - k + 1
  <2>1. /\ n \in 1 .. N /\ n - 1 = N - k /\ n = N - (k - 1) /\ N - n + 1 = k
        /\ k \in 0 .. N /\ k - 1 \in 0 .. N /\ n \in 0 .. N /\ n - 1 \in 0 .. N
    BY <1>1
  <2>2. g[k] = back[n - 1].cell[c] /\ g[k - 1] = back[n].cell[c]
    BY <1>7, <2>1
  <2> HIDE DEF n
  <2>3. back[n] = StepBack(back[n - 1], s[k]) /\ back[n].ok /\ back[n - 1] \in Glances /\ s[k] \in Receipts
    <3>1. s[N - n + 1] = s[k] /\ s[k] \in Receipts
      BY <1>2, <2>1
    <3> QED
      BY <1>5, <1>6, <2>1, <3>1
  <2>4. /\ IF c \in DOMAIN s[k].now
           THEN back[n - 1].cell[c] = s[k].now[c] /\ back[n].cell[c] = s[k].was[c]
           ELSE back[n].cell[c] = back[n - 1].cell[c]
        /\ OwnerOf(s[k], c) => back[n - 1].cell[c] = s[k].inbound
    BY <2>3, StepBackFacts
  <2> QED
    BY <2>2, <2>4
<1>9. Trail(c, s, g)
  BY <1>7, <1>8 DEF Trail, N
<1>10. g[0] = baseline[c] /\ g[Len(s)] = cell[c]
  <2>1. 0 \in 0 .. N /\ N \in 0 .. N /\ N - 0 = N /\ N - N = 0
    BY <1>1
  <2> QED
    BY <1>4, <1>5, <1>7, <2>1 DEF N, base
<1> QED
  BY <1>9, <1>10 DEF From

-------------------------------------------------------------------------------
(* What an undo finds and leaves *)

\* A cell nobody else touched, as far as an undo of what was sealed then is concerned.
Clear(c, at) == c \notin lost /\ (edits = at \/ c \notin touched)

Applying ==
    stage \in RunStages =>
        \A c \in Cells : Clear(c, sealed) =>
            /\ From(c, changes \o pending, baseline[c], draft.cell[c])
            /\ stage # "verify" => From(c, changes, baseline[c], db.cell[c])

ToUndo ==
    stage \in {"handler", "beforeUndo"} =>
        \A c \in Cells : Clear(c, sealed) => Way(c, changes, baseline[c], db.cell[c])

Undoing ==
    stage = "undo" =>
        /\ \A c \in Cells : Clear(c, sealed) =>
              \E f : Trail(c, changes, f) /\ f[0] = baseline[c] /\ Alike(c, draft.cell[c], f[Len(queue)])
        /\ \A c \in Cells : draft.cell[c] # db.cell[c] => c \in CellsOf(changes)

\* The content the changes of the last entry of the stack lead to, once those of the run are undone.
Top == IF stage = "idle" THEN db.cell ELSE baseline

Stacked ==
    \A k \in 1 .. Len(stack) : \A c \in Cells : Clear(c, stack[k].sealed) =>
        Way(c, stack[k].changes, stack[k].before[c],
            IF k = Len(stack) THEN Top[c] ELSE stack[k + 1].before[c])

Outcomes ==
    /\ stage # "idle" => outcome \in {"running", "failing", "restoring"}
    /\ RestoredExactly

LEMMA CellTypes ==
    ASSUME Typed, NEW c \in Cells
    PROVE  db.cell[c] \in Whole /\ draft.cell[c] \in Whole /\ baseline[c] \in Whole
  BY DEF Typed, Bases, Contents, Whole

\* The steps that abandon a run.
Abandons ==
    /\ stage \in RunStages /\ Raise
    /\ edits' = edits /\ touched' = touched /\ sealed' = sealed /\ wrote' = wrote
    /\ lost' = IF stage = "verify" THEN lost \cup CellsOf(pending) ELSE lost

\* A run that is given up has either changed nothing or goes on to undo what it changed.
LEMMA AbandonsMeans ==
    ASSUME Typed, Applying, Abandons, NEW c \in Cells, Clear(c, sealed)'
    PROVE  From(c, changes, baseline[c], db.cell[c])
<1>1. Clear(c, sealed)
  BY DEF Clear, Abandons
<1>2. CASE stage # "verify"
  BY <1>1, <1>2 DEF Applying, Abandons
<1>3. CASE stage = "verify"
  <2>1. From(c, changes \o pending, baseline[c], draft.cell[c]) /\ draft = db
    BY <1>1, <1>3 DEF Applying, Typed, Open, Abandons
  <2>2. c \notin CellsOf(pending)
    BY <1>3 DEF Clear, Abandons
  <2>3. changes \in Seq(Receipts) /\ pending \in Seq(Receipts)
    BY DEF Typed
  <2> QED
    BY <2>1, <2>2, <2>3, FromCut
<1> QED
  BY <1>2, <1>3

GivesUp ==
    /\ stage \in {"handler", "beforeUndo", "undo"}
    /\ GiveUp("refused") \/ GiveUp("aborted")
    /\ UNCHANGED <<pending, changes, baseline, audited, runs, stack, edits, sealed, wrote, touched>>

WriteWrites ==
    /\ Write /\ ~ Raise
    /\ UNCHANGED history

CheckPasses == Check /\ Accepted(db.cell, changes)

Undoes == Undo /\ Reversible(Head(queue), draft)

LEMMA NextCases ==
    ASSUME Typed, [Next]_vars
    PROVE  \/ Start \/ WriteWrites \/ CommitInbound \/ CommitPublication \/ Return \/ CheckPasses
           \/ Complete \/ Rollback \/ BeginUndo \/ Undoes \/ CommitUndo \/ Panel
           \/ Abandons \/ GivesUp
           \/ /\ UNCHANGED <<data, pending, changes, baseline, past, history>>
              /\ \/ stage' = stage
                 \/ stage = "beforeInbound" /\ stage' = "inbound"
                 \/ stage = "beforePublication" /\ stage' = "publication"
              /\ stage = "undo" => queue' = queue
<1>1. ASSUME BeginPublication
      PROVE  \/ Abandons
             \/ /\ UNCHANGED <<data, pending, changes, baseline, past, history>>
                /\ stage = "beforePublication" /\ stage' = "publication"
  BY <1>1 DEF BeginPublication, Abandons, history, RunStages
<1>2. ASSUME Write PROVE WriteWrites \/ Abandons
  BY <1>2 DEF Write, WriteWrites, Abandons, history, RunStages
<1>3. ASSUME Verify
      PROVE  \/ Abandons
             \/ UNCHANGED <<data, stage, pending, changes, baseline, past, history>> /\ stage # "undo"
  BY <1>3 DEF Verify, Abandons, history, RunStages
<1>4. ASSUME Check PROVE CheckPasses \/ Abandons
  BY <1>4 DEF Check, CheckPasses, Abandons, RunStages
<1>5. ASSUME Fail PROVE Abandons
  BY <1>5 DEF Fail, Abandons, Typed, Stages
<1>6. ASSUME Undo PROVE Undoes \/ GivesUp
  BY <1>6 DEF Undo, Undoes, GivesUp
<1>7. ASSUME UndoFails PROVE GivesUp
  BY <1>7 DEF UndoFails, GivesUp
<1>8. ASSUME BeginInbound
      PROVE  /\ UNCHANGED <<data, pending, changes, baseline, past, history>>
             /\ stage = "beforeInbound" /\ stage' = "inbound"
  BY <1>8 DEF BeginInbound
<1>9. ASSUME Rest \/ UNCHANGED vars
      PROVE  UNCHANGED <<data, pending, changes, baseline, past, history>> /\ stage' = stage /\ queue' = queue
  BY <1>9 DEF Rest, vars, run
<1>10. \/ Start \/ BeginInbound \/ BeginPublication \/ Write \/ CommitInbound \/ CommitPublication
       \/ Verify \/ Return \/ Check \/ Complete \/ Fail \/ Rollback \/ BeginUndo \/ Undo \/ CommitUndo
       \/ UndoFails \/ Panel \/ Rest \/ UNCHANGED vars
  BY DEF Next, Apply, Restore
<1>11. CASE BeginInbound \/ BeginPublication \/ Verify
  BY <1>1, <1>3, <1>8, <1>11
<1>12. CASE ~ (BeginInbound \/ BeginPublication \/ Verify)
  BY <1>2, <1>4, <1>5, <1>6, <1>7, <1>9, <1>10, <1>12
<1> QED
  BY <1>11, <1>12

\* A write leads on from where the receipts have led so far.
LEMMA WriteLeads ==
    ASSUME Typed, WriteWrites, NEW c \in Cells, From(c, changes \o pending, baseline[c], draft.cell[c])
    PROVE  From(c, changes' \o pending', baseline'[c], draft'.cell[c])
<1>0. /\ changes \in Seq(Receipts) /\ pending \in Seq(Receipts) /\ changes \o pending \in Seq(Receipts)
      /\ queue # <<>> /\ queue \in Seq(Asked) /\ changes' = changes /\ baseline' = baseline
  BY DEF WriteWrites, Write, Typed
<1> DEFINE q == Head(queue)
           now == Wanted(q, draft.cell, audited)
           r == Receipt(q, now, draft)
<1>1. CASE UNCHANGED <<draft, pending>>
  BY <1>0, <1>1
<1>2. CASE ~ UNCHANGED <<draft, pending>>
  <2>1. ~ NoRowLeft(q, draft) /\ draft' = After(q, now, draft) /\ pending' = Append(pending, r)
    BY <1>2 DEF WriteWrites, Write
  <2>2. q \in Asked
    BY <1>0
  <2>3. draft \in Bases /\ audited \in [Inbounds -> Values]
    BY DEF Typed
  <2>4. /\ r \in Receipts /\ r.now = now /\ \A d \in DOMAIN now : r.was[d] = draft.cell[d]
        /\ After(q, now, draft).cell = Overlay(now, draft.cell)
        /\ \A d \in DOMAIN now : d[1] = "host" =>
              After(q, now, draft).cell[Host(d[2], "inbound_id")] = r.inbound
    BY <2>1, <2>2, <2>3, WriteType
  <2>5. now \in Parts /\ draft.cell \in Contents
    BY <2>3, <2>4 DEF Receipts, Bases
  <2> HIDE DEF r, now, q
  <2>6. /\ draft'.cell[c] = IF c \in DOMAIN now THEN now[c] ELSE draft.cell[c]
        /\ draft'.cell[c] \in Whole
    <3>1. Overlay(now, draft.cell) \in Contents
      BY <2>5, OverlayType
    <3> QED
      BY <2>1, <2>4, <2>5, <3>1, OverlayType DEF Contents, Whole
  <2>7. From(c, Append(changes \o pending, r), baseline[c], draft'.cell[c])
    <3>1. OwnerOf(r, c) => draft'.cell[c] = r.inbound
      BY <2>1, <2>4 DEF OwnerOf
    <3> QED
      BY <1>0, <2>4, <2>6, <3>1, FromAppend
  <2>8. Append(changes \o pending, r) = changes \o Append(pending, r)
    <3>1. /\ changes \in Seq(Receipts) /\ pending \in Seq(Receipts) /\ r \in Receipts
          /\ changes \o pending \in Seq(Receipts) /\ <<r>> \in Seq(Receipts)
      BY <1>0, <2>4
    <3>2. (changes \o pending) \o <<r>> = changes \o (pending \o <<r>>)
      BY <3>1, ConcatAssociative
    <3>3. Append(changes \o pending, r) = (changes \o pending) \o <<r>>
      BY <3>1, AppendIsConcat
    <3>4. Append(pending, r) = pending \o <<r>>
      BY <3>1, AppendIsConcat
    <3> QED
      BY <3>2, <3>3, <3>4
  <2> QED
    BY <1>0, <2>1, <2>7, <2>8
<1> QED
  BY <1>1, <1>2

LEMMA ApplyingStep == ASSUME Typed, Applying, [Next]_vars PROVE Applying'
<1>0. /\ changes \in Seq(Receipts) /\ pending \in Seq(Receipts) /\ changes \o pending \in Seq(Receipts)
      /\ changes \o <<>> = changes
  BY DEF Typed
<1> SUFFICES ASSUME stage' \in RunStages, NEW c \in Cells, Clear(c, sealed)'
             PROVE  /\ From(c, changes' \o pending', baseline'[c], draft'.cell[c])
                    /\ stage' # "verify" => From(c, changes', baseline'[c], db'.cell[c])
  BY DEF Applying
<1>1. CASE Start
  <2>1. /\ changes' = <<>> /\ pending' = <<>> /\ baseline' = db.cell /\ draft' = draft /\ db' = db
        /\ draft = db
    BY <1>1 DEF Start, Typed, Open, data
  <2>2. From(c, <<>>, db.cell[c], db.cell[c])
    BY CellTypes, FromEmpty
  <2>3. <<>> \o <<>> = <<>>
    OBVIOUS
  <2> QED
    BY <2>1, <2>2, <2>3
<1>2. CASE WriteWrites
  <2>1. /\ stage \in {"inbound", "publication"} /\ stage' = stage /\ changes' = changes
        /\ baseline' = baseline /\ db' = db /\ Clear(c, sealed) /\ stage \in RunStages
    BY <1>2 DEF WriteWrites, Write, Typed, Clear, history, RunStages
  <2>2. /\ From(c, changes \o pending, baseline[c], draft.cell[c])
        /\ From(c, changes, baseline[c], db.cell[c])
    BY <2>1 DEF Applying
  <2>3. From(c, changes' \o pending', baseline'[c], draft'.cell[c])
    BY <1>2, <2>2, WriteLeads
  <2> QED
    BY <2>1, <2>2, <2>3
<1>3. CASE CommitInbound \/ CommitPublication \/ Return
  <2>1. /\ stage \in {"inbound", "publication", "verify"} /\ Clear(c, sealed) /\ stage \in RunStages
        /\ draft' = draft /\ baseline' = baseline
    BY <1>3 DEF CommitInbound, CommitPublication, Return, Clear, RunStages, data, history
  <2>2. From(c, changes \o pending, baseline[c], draft.cell[c])
    BY <2>1 DEF Applying
  <2>3. CASE CommitPublication
    BY <2>1, <2>2, <2>3 DEF CommitPublication
  <2>4. CASE CommitInbound \/ Return
    <3>1. changes' = changes \o pending /\ pending' = <<>> /\ db' = draft
      BY <2>4 DEF CommitInbound, Return, Typed, Open, data
    <3>2. (changes \o pending) \o <<>> = changes \o pending
      BY <1>0
    <3> QED
      BY <2>1, <2>2, <3>1, <3>2
  <2> QED
    BY <1>3, <2>3, <2>4
<1>4. CASE CheckPasses
  <2>1. /\ Accepted(db.cell, changes) /\ pending = <<>> /\ draft = db /\ db.cell \in Contents
        /\ UNCHANGED <<draft, db, pending, changes, baseline>>
    BY <1>4 DEF CheckPasses, Check, Typed, Open, Bases, Raise, data
  <2>2. From(c, changes, baseline[c], db.cell[c])
    BY <1>0, <2>1, AcceptedLeads
  <2> QED
    BY <1>0, <2>1, <2>2
<1>5. CASE Panel
  <2>1. PICK cell \in Contents, form \in [Docs -> Forms], cells \in SUBSET Cells :
           PanelPut(cell, form, cells) /\ \A d \in Cells \ cells : cell[d] = db.cell[d]
    BY <1>5, PanelPuts
  <2>2. /\ stage \notin Open /\ stage' = stage /\ draft' = db' /\ db'.cell = cell
        /\ edits' = edits + 1 /\ touched' = touched \cup cells /\ lost' = lost /\ sealed' = sealed
        /\ changes' = changes /\ pending' = pending /\ baseline' = baseline
    BY <2>1 DEF PanelPut, run
  <2>3. sealed <= edits /\ sealed \in Nat /\ edits \in Nat
    BY ConstantsAssumption DEF Typed
  <2>4. Clear(c, sealed) /\ c \notin cells
    BY <2>2, <2>3 DEF Clear
  <2>5. cell[c] = db.cell[c] /\ draft = db
    BY <2>1, <2>2, <2>4 DEF Typed
  <2> QED
    BY <2>2, <2>4, <2>5 DEF Applying
<1>6. CASE /\ UNCHANGED <<data, pending, changes, baseline, past, history>>
           /\ \/ stage' = stage
              \/ stage = "beforeInbound" /\ stage' = "inbound"
              \/ stage = "beforePublication" /\ stage' = "publication"
  <2>1. stage \in RunStages /\ (stage' # "verify" => stage # "verify") /\ Clear(c, sealed)
        /\ UNCHANGED <<db, draft>>
    BY <1>6 DEF RunStages, Clear, data, history
  <2> QED
    BY <1>6, <2>1 DEF Applying
<1>7. ~ (Complete \/ Rollback \/ BeginUndo \/ Undoes \/ CommitUndo \/ Abandons \/ GivesUp)
  BY DEF Complete, Rollback, BeginUndo, Undoes, Undo, CommitUndo, Abandons, Raise, GivesUp, GiveUp,
     RunStages
<1> QED
  BY <1>1, <1>2, <1>3, <1>4, <1>5, <1>6, <1>7, NextCases

LEMMA ToUndoStep == ASSUME Typed, Applying, ToUndo, Stacked, [Next]_vars PROVE ToUndo'
<1> SUFFICES ASSUME stage' \in {"handler", "beforeUndo"}, NEW c \in Cells, Clear(c, sealed)'
             PROVE  Way(c, changes', baseline'[c], db'.cell[c])
  BY DEF ToUndo
<1>1. CASE Abandons
  <2>1. UNCHANGED <<changes, baseline, db>>
    BY <1>1 DEF Abandons, Raise
  <2> QED
    BY <1>1, <2>1, AbandonsMeans, FromWay
<1>2. CASE Rollback
  <2>1. /\ stage = "idle" /\ stack # <<>> /\ changes' = Last(stack).changes /\ baseline' = Last(stack).before
        /\ sealed' = Last(stack).sealed /\ UNCHANGED <<db, edits, touched, lost>>
    BY <1>2 DEF Rollback, data
  <2>2. Last(stack) = stack[Len(stack)] /\ Len(stack) \in 1 .. Len(stack)
    BY <2>1, StackTop
  <2>3. Clear(c, stack[Len(stack)].sealed)
    BY <2>1, <2>2 DEF Clear
  <2>4. Way(c, stack[Len(stack)].changes, stack[Len(stack)].before[c], db.cell[c])
    BY <2>1, <2>2, <2>3 DEF Stacked, Top
  <2> QED
    BY <2>1, <2>2, <2>4
<1>3. CASE Panel
  <2>1. PICK cell \in Contents, form \in [Docs -> Forms], cells \in SUBSET Cells :
           PanelPut(cell, form, cells) /\ \A d \in Cells \ cells : cell[d] = db.cell[d]
    BY <1>3, PanelPuts
  <2>2. /\ stage' = stage /\ db'.cell = cell /\ changes' = changes /\ baseline' = baseline
        /\ edits' = edits + 1 /\ touched' = touched \cup cells /\ lost' = lost /\ sealed' = sealed
    BY <2>1 DEF PanelPut, run
  <2>3. sealed <= edits /\ sealed \in Nat /\ edits \in Nat
    BY ConstantsAssumption DEF Typed
  <2>4. Clear(c, sealed) /\ c \notin cells
    BY <2>2, <2>3 DEF Clear
  <2> QED
    BY <2>1, <2>2, <2>4 DEF ToUndo
<1>4. CASE stage' = stage /\ UNCHANGED <<data, pending, changes, baseline, past, history>>
  BY <1>4 DEF ToUndo, Clear, data, history
<1>5. Abandons \/ Rollback \/ Panel \/ (stage' = stage /\ UNCHANGED <<data, pending, changes, baseline, past, history>>)
  <2>1. ~ (Start \/ WriteWrites \/ CommitInbound \/ CommitPublication \/ Return \/ Complete \/ BeginUndo
           \/ Undoes \/ CommitUndo \/ GivesUp)
    BY DEF Start, WriteWrites, Write, CommitInbound, CommitPublication, Return, Complete, BeginUndo,
       Undoes, Undo, CommitUndo, GivesUp, GiveUp
  <2>2. ~ CheckPasses
    <3>1. CheckPasses => stage' \in {"beforePublication", "checkFinal", "commit"}
      BY DEF CheckPasses, Check
    <3> QED
      BY <3>1
  <2> QED
    BY <2>1, <2>2, NextCases
<1> QED
  BY <1>1, <1>2, <1>3, <1>4, <1>5

LEMMA UndoingStep == ASSUME Typed, Queued, ToUndo, Undoing, [Next]_vars PROVE Undoing'
<1>1. CASE stage' # "undo"
  BY <1>1 DEF Undoing
<1>2. CASE BeginUndo
  <2>1. /\ changes \in Seq(Receipts) /\ queue' = Reverse(changes) /\ stage \in {"handler", "beforeUndo"}
        /\ UNCHANGED <<db, draft, changes, baseline, edits, touched, lost, sealed>> /\ draft = db
    BY <1>2 DEF BeginUndo, Typed, Open, data, history
  <2>2. Len(queue') = Len(changes)
    BY <2>1, ReverseType
  <2>3. ASSUME NEW c \in Cells, Clear(c, sealed)'
        PROVE  \E f : Trail(c, changes, f) /\ f[0] = baseline[c] /\ Alike(c, draft.cell[c], f[Len(changes)])
    <3>1. Clear(c, sealed)
      BY <2>1, <2>3 DEF Clear
    <3>2. Way(c, changes, baseline[c], draft.cell[c])
      BY <2>1, <3>1 DEF ToUndo
    <3> QED
      BY <3>2 DEF Way, From
  <2> QED
    BY <2>1, <2>2, <2>3 DEF Undoing
<1>3. CASE Undoes
  <2> DEFINE r == Head(queue)
             n == Len(queue)
  <2>1. /\ stage = "undo" /\ queue \in Seq(Receipts) /\ queue # <<>> /\ draft \in Bases
        /\ changes \in Seq(Receipts) /\ Reversible(r, draft) /\ draft' = Undone(r, draft)
        /\ queue' = Tail(queue)
        /\ UNCHANGED <<db, changes, baseline, edits, touched, lost, sealed>>
    BY <1>3 DEF Undoes, Undo, Typed
  <2>2. n \in 1 .. Len(changes) /\ r = changes[n] /\ r \in Receipts /\ Len(queue') = n - 1
    <3>1. r = queue[1] /\ Len(queue) \in Nat /\ Len(queue) >= 1 /\ r \in Receipts /\ Len(queue') = n - 1
      BY <2>1
    <3>2. Len(queue) <= Len(changes) /\ queue[1] = changes[Len(queue) + 1 - 1]
      BY <2>1, <3>1 DEF Queued
    <3> QED
      BY <2>1, <3>1, <3>2
  <2> HIDE DEF r, n
  <2>3. \A c \in Cells : draft'.cell[c] =
                 IF c \in DOMAIN r.now
                 THEN IF r.kind = "endpoint" /\ r.was[c] = Blank THEN Absent ELSE r.was[c]
                 ELSE draft.cell[c]
    BY <2>1, <2>2, UndoneType
  <2>4. \A c \in DOMAIN r.now : r.kind = "endpoint" => c[1] \in Columns
    BY <2>2 DEF Receipts
  <2>5. ASSUME NEW c \in Cells, Clear(c, sealed)'
        PROVE  \E f : Trail(c, changes, f) /\ f[0] = baseline[c] /\ Alike(c, draft'.cell[c], f[n - 1])
    <3>1. Clear(c, sealed)
      BY <2>1, <2>5 DEF Clear
    <3>2. PICK f : Trail(c, changes, f) /\ f[0] = baseline[c] /\ Alike(c, draft.cell[c], f[n])
      BY <2>1, <3>1 DEF Undoing, n
    <3>3. CASE c \in DOMAIN r.now
      <4>1. f[n - 1] = r.was[c]
        BY <2>2, <3>2, <3>3 DEF Trail
      <4>2. Alike(c, draft'.cell[c], r.was[c])
        BY <2>3, <2>4, <3>3 DEF Alike
      <4> QED
        BY <3>2, <4>1, <4>2
    <3>4. CASE c \notin DOMAIN r.now
      <4>1. f[n] = f[n - 1]
        BY <2>2, <3>2, <3>4 DEF Trail
      <4> QED
        BY <2>3, <3>2, <3>4, <4>1
    <3> QED
      BY <3>3, <3>4
  <2>6. ASSUME NEW c \in Cells, draft'.cell[c] # db.cell[c] PROVE c \in CellsOf(changes)
    <3>1. CASE c \in DOMAIN r.now
      BY <2>1, <2>2, <3>1 DEF CellsOf
    <3>2. CASE c \notin DOMAIN r.now
      BY <2>1, <2>3, <2>6, <3>2 DEF Undoing
    <3> QED
      BY <3>1, <3>2
  <2> QED
    BY <2>1, <2>2, <2>5, <2>6 DEF Undoing
<1>4. CASE stage = "undo" /\ stage' = stage /\ queue' = queue
           /\ UNCHANGED <<data, pending, changes, baseline, past, history>>
  BY <1>4 DEF Undoing, Clear, data, history
<1>5. stage' # "undo" \/ BeginUndo \/ Undoes
      \/ (stage = "undo" /\ stage' = stage /\ queue' = queue
          /\ UNCHANGED <<data, pending, changes, baseline, past, history>>)
  <2>1. Start \/ WriteWrites \/ CommitInbound \/ CommitPublication \/ Return \/ Complete \/ Rollback
        \/ CommitUndo \/ GivesUp \/ Panel => stage' # "undo"
    BY DEF Start, WriteWrites, Write, CommitInbound, CommitPublication, Return, Complete, Rollback,
       CommitUndo, GivesUp, GiveUp, Panel, PanelWrite, PanelResave, PanelDelete, PanelAdd, PanelPut,
       Open, Raise
  <2>2. CheckPasses => stage' \in {"beforePublication", "checkFinal", "commit"}
    BY DEF CheckPasses, Check
  <2>3. Abandons => stage' # "undo"
    BY DEF Abandons, Raise
  <2> QED
    BY <2>1, <2>2, <2>3, NextCases
<1> QED
  BY <1>1, <1>2, <1>3, <1>4, <1>5


LEMMA TrailStill ==
    ASSUME NEW c, NEW s \in Seq(Receipts), NEW f, Trail(c, s, f), c \notin CellsOf(s),
           NEW k \in 0 .. Len(s)
    PROVE  f[k] = f[0]
<1> DEFINE S == {n \in Nat : n <= Len(s) => f[n] = f[0]}
<1>1. 0 \in S
  OBVIOUS
<1>2. ASSUME NEW n \in Nat, n \in S PROVE n + 1 \in S
  <2> SUFFICES ASSUME n + 1 <= Len(s) PROVE f[n + 1] = f[0]
    OBVIOUS
  <2>1. n + 1 \in 1 .. Len(s) /\ (n + 1) - 1 = n /\ n <= Len(s)
    OBVIOUS
  <2>2. c \notin DOMAIN s[n + 1].now
    BY <2>1 DEF CellsOf
  <2>3. f[n + 1] = f[(n + 1) - 1]
    BY <2>1, <2>2 DEF Trail
  <2> QED
    BY <1>2, <2>1, <2>3
<1> HIDE DEF S
<1>3. k \in S
  BY <1>1, <1>2, NatInd
<1> QED
  BY <1>3 DEF S

\* What the run changed is as before it when the queue is empty, and the rest was never written.
LEMMA UndoneAlike ==
    ASSUME Typed, Queued, Undoing, stage = "undo", NEW c \in Cells, Clear(c, sealed),
           queue = <<>> \/ c \notin CellsOf(changes)
    PROVE  Alike(c, draft.cell[c], baseline[c])
<1>1. PICK f : Trail(c, changes, f) /\ f[0] = baseline[c] /\ Alike(c, draft.cell[c], f[Len(queue)])
  BY DEF Undoing
<1>2. queue \in Seq(Receipts) /\ changes \in Seq(Receipts) /\ Len(queue) \in 0 .. Len(changes)
  BY DEF Typed, Queued
<1>3. CASE queue = <<>>
  <2>1. Len(queue) = 0
    BY <1>3
  <2> QED
    BY <1>1, <2>1
<1>4. CASE c \notin CellsOf(changes)
  BY <1>1, <1>2, <1>4, TrailStill
<1> QED
  BY <1>3, <1>4

-------------------------------------------------------------------------------
(* The stack *)

\* What a step that leaves the stack alone does to Top.
LEMMA TopKept ==
    ASSUME Typed, Queued, Applying, ToUndo, Undoing, [Next]_vars, stack' = stack, ~ Panel,
           NEW c \in Cells, NEW at \in Nat, at <= sealed, c \notin lost', edits' = at \/ c \notin touched'
    PROVE  Clear(c, at) /\ Alike(c, Top'[c], Top[c])
<1>0. at <= sealed /\ sealed <= edits /\ sealed \in Nat /\ edits \in Nat
  BY ConstantsAssumption DEF Typed
<1>8. ~ Rollback
  <2> SUFFICES ASSUME Rollback PROVE FALSE
    OBVIOUS
  <2>1. Len(stack') = Len(stack) - 1 /\ Len(stack) \in Nat
    BY StackTop DEF Rollback
  <2> QED
    BY <2>1
<1>9. ~ Complete
  <2> SUFFICES ASSUME Complete PROVE FALSE
    OBVIOUS
  <2>1. stack \in Seq(Entries)
    BY DEF Typed
  <2>2. Len(stack') = Len(stack) + 1 /\ Len(stack) \in Nat
    BY <2>1 DEF Complete
  <2> QED
    BY <2>2
<1>1. edits' = edits /\ touched' = touched /\ lost \subseteq lost' /\ sealed' \in {sealed, edits}
  BY <1>8 DEF Next, Apply, Start, BeginInbound, BeginPublication, Write, CommitInbound,
     CommitPublication, Verify, Return, Check, Complete, Fail, Restore, BeginUndo, Undo, CommitUndo, UndoFails,
     Panel, Rest, Raise, GiveUp, data, run, past, history, vars
<1>2. Clear(c, at) /\ Clear(c, sealed) /\ (Clear(c, sealed)' \/ sealed' # sealed)
  BY <1>0, <1>1 DEF Clear
<1>3. CASE Top' = Top
  BY <1>2, <1>3, AlikeFacts
<1>4. CASE Abandons
  <2>1. UNCHANGED <<changes, baseline, db>> /\ stage # "idle" /\ sealed' = sealed
        /\ (stage' = "idle" => changes = <<>>)
    BY <1>4 DEF Abandons, Raise, RunStages
  <2>2. From(c, changes, baseline[c], db.cell[c])
    BY <1>2, <1>4, <2>1, AbandonsMeans
  <2>3. CASE stage' # "idle"
    BY <1>2, <2>1, <2>3, AlikeFacts DEF Top
  <2>4. CASE stage' = "idle"
    <3>1. db.cell[c] = baseline[c]
      BY <2>1, <2>2, <2>4, CellTypes, FromEmpty
    <3> QED
      BY <1>2, <2>1, <2>4, <3>1, AlikeFacts DEF Top
  <2> QED
    BY <2>3, <2>4
<1>5. CASE GivesUp
  <2>1. /\ UNCHANGED <<changes, baseline, db>> /\ stage # "idle" /\ stage' = "idle"
        /\ lost' = lost \cup CellsOf(changes)
    BY <1>5 DEF GivesUp, GiveUp
  <2>2. c \notin CellsOf(changes)
    BY <2>1 DEF Clear
  <2>3. Alike(c, db.cell[c], baseline[c])
    <3>1. CASE stage = "undo"
      <4>1. draft.cell[c] = db.cell[c]
        BY <2>2, <3>1 DEF Undoing
      <4>2. Alike(c, draft.cell[c], baseline[c])
        BY <1>2, <2>2, <3>1, UndoneAlike
      <4> QED
        BY <4>1, <4>2
    <3>2. CASE stage # "undo"
      <4>1. Way(c, changes, baseline[c], db.cell[c])
        BY <1>2, <1>5, <3>2 DEF ToUndo, GivesUp
      <4>2. changes \in Seq(Receipts)
        BY DEF Typed
      <4> QED
        BY <2>2, <4>1, <4>2, CellTypes, WayUncovered
    <3> QED
      BY <3>1, <3>2
  <2> QED
    BY <1>2, <2>1, <2>3 DEF Top
<1>6. CASE CommitUndo
  <2>1. /\ stage = "undo" /\ queue = <<>> /\ db' = draft /\ stage' = "idle"
    BY <1>6 DEF CommitUndo
  <2>2. Alike(c, draft.cell[c], baseline[c])
    BY <1>2, <2>1, UndoneAlike
  <2> QED
    BY <1>2, <2>1, <2>2 DEF Top
<1>7. CASE Start
  <2>1. Top' = Top
    BY <1>7 DEF Start, Top
  <2> QED
    BY <1>3, <2>1
<1>10. \/ Abandons \/ GivesUp \/ CommitUndo \/ Start \/ Top' = Top
  <2>1. WriteWrites \/ CommitInbound \/ CommitPublication \/ Return \/ BeginUndo \/ Undoes
        => stage # "idle" /\ stage' # "idle" /\ baseline' = baseline
    BY DEF WriteWrites, Write, CommitInbound, CommitPublication, Return, BeginUndo, Undoes, Undo, Raise
  <2>2. CheckPasses => stage # "idle" /\ stage' # "idle" /\ baseline' = baseline
    <3>1. CheckPasses => stage' \in {"beforePublication", "checkFinal", "commit"}
      BY DEF CheckPasses, Check
    <3> QED
      BY <3>1 DEF CheckPasses, Check
  <2>3. UNCHANGED <<data, pending, changes, baseline, past, history>>
        /\ (\/ stage' = stage
            \/ stage = "beforeInbound" /\ stage' = "inbound"
            \/ stage = "beforePublication" /\ stage' = "publication") => Top' = Top
    BY DEF Top, data
  <2> QED
    BY <1>8, <1>9, <2>1, <2>2, <2>3, NextCases DEF Top
<1> QED
  BY <1>3, <1>4, <1>5, <1>6, <1>7, <1>10

LEMMA StackTypes ==
    ASSUME Typed, SealsGrow, NEW k \in 1 .. Len(stack)
    PROVE  /\ stack[k] \in Entries /\ stack[k].changes \in Seq(Receipts) /\ stack[k].before \in Contents
           /\ stack[k].sealed \in Nat /\ stack[k].sealed <= sealed /\ sealed <= edits
           /\ sealed \in Nat /\ edits \in Nat
           /\ \A c \in Cells : stack[k].before[c] \in Whole
<1>1. stack \in Seq(Entries)
  BY DEF Typed
<1>2. \A e \in Entries : e.changes \in Seq(Receipts) /\ e.before \in Contents /\ e.sealed \in Nat
  BY DEF Entries
<1>3. stack[k] \in Entries
  BY <1>1
<1>4. \A c \in Cells : stack[k].before[c] \in Whole
  BY <1>2, <1>3 DEF Contents, Whole
<1>5. sealed <= edits /\ sealed \in Nat /\ edits \in Nat
  BY ConstantsAssumption DEF Typed
<1> QED
  BY <1>2, <1>3, <1>4, <1>5 DEF SealsGrow

LEMMA StackedStep ==
    ASSUME Typed, SealsGrow, Queued, Applying, ToUndo, Undoing, Stacked, [Next]_vars
    PROVE  Stacked'
<1> SUFFICES ASSUME NEW k \in 1 .. Len(stack'), NEW c \in Cells,
                    c \notin lost', edits' = stack'[k].sealed \/ c \notin touched'
             PROVE  Way(c, stack'[k].changes, stack'[k].before[c],
                        IF k = Len(stack') THEN Top'[c] ELSE stack'[k + 1].before[c])
  BY DEF Stacked, Clear
<1>1. CASE stack' = stack /\ ~ Panel
  <2>1. stack[k].sealed \in Nat /\ stack[k].sealed <= sealed
    BY <1>1, StackTypes
  <2>2. Clear(c, stack[k].sealed) /\ Alike(c, Top'[c], Top[c])
    <3> DEFINE at == stack[k].sealed
    <3>1. at \in Nat /\ at <= sealed
      BY <2>1
    <3>2. c \notin lost' /\ (edits' = at \/ c \notin touched')
      BY <1>1
    <3> HIDE DEF at
    <3>3. Clear(c, at) /\ Alike(c, Top'[c], Top[c])
      BY <1>1, <3>1, <3>2, TopKept DEF Clear
    <3> QED
      BY <3>3 DEF at
  <2>3. Way(c, stack[k].changes, stack[k].before[c],
            IF k = Len(stack) THEN Top[c] ELSE stack[k + 1].before[c])
    BY <1>1, <2>2 DEF Stacked
  <2> QED
    BY <1>1, <2>2, <2>3, WayAlike
<1>2. CASE Panel
  <2>1. PICK cell \in Contents, form \in [Docs -> Forms], cells \in SUBSET Cells :
           PanelPut(cell, form, cells) /\ \A d \in Cells \ cells : cell[d] = db.cell[d]
    BY <1>2, PanelPuts
  <2>2. /\ stage' = stage /\ db'.cell = cell /\ stack' = stack /\ baseline' = baseline
        /\ edits' = edits + 1 /\ touched' = touched \cup cells /\ lost' = lost
    BY <2>1 DEF PanelPut, run, past
  <2>3. stack[k].sealed <= edits /\ stack[k].sealed \in Nat /\ edits \in Nat
    <3>1. /\ stack[k].sealed <= sealed /\ sealed <= edits /\ stack[k].sealed \in Nat /\ sealed \in Nat
          /\ edits \in Nat
      BY <2>2, StackTypes
    <3> QED
      BY <3>1
  <2>4. Clear(c, stack[k].sealed) /\ c \notin cells
    BY <2>2, <2>3 DEF Clear
  <2>5. Top'[c] = Top[c]
    BY <2>1, <2>2, <2>4 DEF Top
  <2> QED
    BY <2>2, <2>4, <2>5 DEF Stacked
<1>3. CASE Complete
  <2> DEFINE e == [changes |-> changes, before |-> baseline, sealed |-> sealed]
  <2>1. /\ stack' = Append(stack, e) /\ stage = "commit" /\ stage' = "idle"
        /\ UNCHANGED <<db, edits, touched, lost, sealed>>
    BY <1>3 DEF Complete, data, history
  <2>2. e.changes = changes /\ e.before = baseline /\ e.sealed = sealed
    OBVIOUS
  <2> HIDE DEF e
  <2>3. /\ Len(stack') = Len(stack) + 1 /\ stack'[Len(stack) + 1] = e /\ Len(stack) \in Nat
        /\ \A j \in 1 .. Len(stack) : stack'[j] = stack[j]
    BY <2>1 DEF Typed
  <2>4. CASE k = Len(stack) + 1
    <3>1. Clear(c, sealed)
      BY <2>1, <2>2, <2>3, <2>4 DEF Clear
    <3>2. From(c, changes, baseline[c], db.cell[c])
      BY <2>1, <3>1 DEF Applying, RunStages
    <3> QED
      BY <2>1, <2>2, <2>3, <2>4, <3>2, FromWay DEF Top
  <2>5. CASE k # Len(stack) + 1
    <3>1. k \in 1 .. Len(stack) /\ k # Len(stack') /\ stack'[k] = stack[k]
      BY <2>3, <2>5
    <3>2. Clear(c, stack[k].sealed)
      BY <2>1, <3>1 DEF Clear
    <3>3. Way(c, stack[k].changes, stack[k].before[c],
              IF k = Len(stack) THEN Top[c] ELSE stack[k + 1].before[c])
      BY <3>1, <3>2 DEF Stacked
    <3>4. stack'[k + 1].before[c] = IF k = Len(stack) THEN Top[c] ELSE stack[k + 1].before[c]
      <4>1. CASE k = Len(stack)
        BY <2>1, <2>2, <2>3, <4>1 DEF Top
      <4>2. CASE k # Len(stack)
        <5>1. k + 1 \in 1 .. Len(stack)
          BY <2>3, <3>1, <4>2
        <5> QED
          BY <2>3, <4>2, <5>1
      <4> QED
        BY <4>1, <4>2
    <3> QED
      BY <3>1, <3>3, <3>4
  <2> QED
    BY <2>4, <2>5
<1>4. CASE Rollback
  <2>1. /\ stage = "idle" /\ stack # <<>> /\ changes' = Last(stack).changes /\ baseline' = Last(stack).before
        /\ stack' = Front(stack) /\ UNCHANGED <<db, edits, touched, lost>>
        /\ \/ Last(stack).changes = <<>> /\ stage' = "idle"
           \/ stage' = "beforeUndo"
    BY <1>4 DEF Rollback, data
  <2> DEFINE n == Len(stack)
  <2>2. /\ Last(stack) = stack[n] /\ n \in Nat \ {0} /\ Len(stack') = n - 1
        /\ \A j \in 1 .. n - 1 : stack'[j] = stack[j]
    BY <2>1, StackTop
  <2> HIDE DEF n
  <2>3. k \in 1 .. n - 1 /\ k \in 1 .. n /\ k + 1 \in 1 .. n /\ n \in 1 .. n /\ k # n /\ k < n /\ stack'[k] = stack[k]
        /\ (k # Len(stack') => k + 1 \in 1 .. n - 1) /\ (k = Len(stack') => k + 1 = n)
    BY <2>2
  <2>4. Clear(c, stack[k].sealed) /\ Clear(c, stack[n].sealed)
    <3>1. Clear(c, stack[k].sealed)
      BY <2>1, <2>3 DEF Clear
    <3>2. /\ stack[k].sealed <= stack[n].sealed /\ stack[n].sealed <= edits
          /\ stack[k].sealed \in Nat /\ stack[n].sealed \in Nat /\ edits \in Nat
      <4>1. stack[k].sealed <= stack[n].sealed
        BY <2>3 DEF SealsGrow, n
      <4>2. stack[k].sealed \in Nat
        BY <2>3, StackTypes DEF n
      <4>3. stack[n].sealed \in Nat /\ stack[n].sealed <= sealed /\ sealed <= edits /\ sealed \in Nat /\ edits \in Nat
        BY <2>3, StackTypes DEF n
      <4> QED
        BY <4>1, <4>2, <4>3
    <3> QED
      BY <3>1, <3>2 DEF Clear
  <2>5. Way(c, stack[k].changes, stack[k].before[c], stack[k + 1].before[c])
    BY <2>3, <2>4 DEF Stacked, n
  <2>6. CASE k # Len(stack')
    <3>1. stack'[k + 1] = stack[k + 1]
      BY <2>2, <2>3, <2>6
    <3> QED
      BY <2>3, <2>5, <2>6, <3>1
  <2>7. CASE k = Len(stack') /\ stage' = "beforeUndo"
    <3>1. Top'[c] = stack[k + 1].before[c]
      BY <2>1, <2>2, <2>3, <2>7 DEF Top
    <3> QED
      BY <2>3, <2>5, <2>7, <3>1
  <2>8. CASE k = Len(stack') /\ Last(stack).changes = <<>> /\ stage' = "idle"
    <3>1. Top'[c] = db.cell[c] /\ k + 1 = n
      BY <2>1, <2>3, <2>8 DEF Top
    <3>2. Way(c, <<>>, stack[n].before[c], db.cell[c])
      BY <2>1, <2>2, <2>3, <2>4, <2>8 DEF Stacked, Top, n
    <3>3. stack[n].before[c] \in Whole
      BY <2>3, StackTypes DEF n
    <3>4. Alike(c, db.cell[c], stack[n].before[c])
      <4>1. <<>> \in Seq(Receipts)
        OBVIOUS
      <4> QED
        BY <3>2, <3>3, <4>1, WayUncovered
    <3> QED
      BY <2>3, <2>5, <2>8, <3>1, <3>4, WayAlike
  <2> QED
    BY <2>1, <2>6, <2>7, <2>8
<1>5. stack' = stack \/ Complete \/ Rollback
  BY DEF Next, Apply, Start, BeginInbound, BeginPublication, Write, CommitInbound, CommitPublication,
     Verify, Return, Check, Fail, Restore, BeginUndo, Undo, CommitUndo, UndoFails, Panel, PanelWrite,
     PanelResave, PanelDelete, PanelAdd, PanelPut, Rest, Raise, GiveUp, data, run, past, history, vars
<1> QED
  BY <1>1, <1>2, <1>3, <1>4, <1>5

LEMMA OutcomesStep ==
    ASSUME Typed, SealsGrow, Queued, Undoing, Stacked, Outcomes, [Next]_vars
    PROVE  Outcomes'
<1>1. stage' # "idle" => outcome' \in {"running", "failing", "restoring"}
  BY DEF Outcomes, Next, Apply, Start, BeginInbound, BeginPublication, Write, CommitInbound,
     CommitPublication, Verify, Return, Check, Complete, Fail, Restore, Rollback, BeginUndo, Undo,
     CommitUndo, UndoFails, Panel, PanelWrite, PanelResave, PanelDelete, PanelAdd, PanelPut, Rest,
     Raise, GiveUp, data, run, past, history, vars
<1>2. ASSUME outcome' \in {"undone", "rolledback"}, NEW c \in Cells, c \notin touched', c \notin lost'
      PROVE  Alike(c, db'.cell[c], baseline'[c])
  <2>1. CASE CommitUndo
    <3>1. /\ stage = "undo" /\ queue = <<>> /\ db' = draft /\ baseline' = baseline
          /\ touched' = touched /\ lost' = lost
      BY <2>1 DEF CommitUndo, run, history
    <3>2. Clear(c, sealed)
      BY <1>2, <3>1 DEF Clear
    <3> QED
      BY <3>1, <3>2, UndoneAlike
  <2>2. CASE Rollback
    <3>1. /\ stage = "idle" /\ stack # <<>> /\ Last(stack).changes = <<>> /\ baseline' = Last(stack).before
          /\ db' = db /\ touched' = touched /\ lost' = lost
      BY <1>2, <2>2 DEF Rollback, data
    <3>2. Last(stack) = stack[Len(stack)] /\ Len(stack) \in 1 .. Len(stack)
      BY <3>1, StackTop
    <3>3. Clear(c, stack[Len(stack)].sealed)
      BY <1>2, <3>1 DEF Clear
    <3>4. Way(c, <<>>, baseline'[c], db.cell[c])
      BY <3>1, <3>2, <3>3 DEF Stacked, Top
    <3>5. baseline'[c] \in Whole
      BY <3>1, <3>2, StackTypes
    <3>6. <<>> \in Seq(Receipts)
      OBVIOUS
    <3> QED
      BY <3>1, <3>4, <3>5, <3>6, WayUncovered
  <2>3. CASE Panel
    <3>1. PICK cell \in Contents, form \in [Docs -> Forms], cells \in SUBSET Cells :
             PanelPut(cell, form, cells) /\ \A d \in Cells \ cells : cell[d] = db.cell[d]
      BY <2>3, PanelPuts
    <3>2. /\ db'.cell = cell /\ baseline' = baseline /\ outcome' = outcome
          /\ touched' = touched \cup cells /\ lost' = lost
      BY <3>1 DEF PanelPut, run, past
    <3> QED
      BY <1>2, <3>1, <3>2 DEF Outcomes, RestoredExactly
  <2>4. CASE ~ (CommitUndo \/ Rollback \/ Panel)
    <3>1. outcome' = outcome /\ stage = "idle" /\ UNCHANGED <<db, baseline, touched, lost>>
      BY <1>2, <2>4 DEF Outcomes, Next, Apply, Start, BeginInbound, BeginPublication, Write,
         CommitInbound, CommitPublication, Verify, Return, Check, Complete, Fail, Restore, BeginUndo,
         Undo, UndoFails, Rest, Raise, GiveUp, data, run, past, history, vars
    <3> QED
      BY <1>2, <3>1 DEF Outcomes, RestoredExactly
  <2> QED
    BY <2>1, <2>2, <2>3, <2>4
<1> QED
  BY <1>1, <1>2 DEF Outcomes, RestoredExactly

\* A receipt of a new row is lost with its whole row.
RowsLost == \A h \in Hosts : Host(h, "inbound_id") \in lost => RowOf(h) \subseteq lost

LEMMA RowsLostStep == ASSUME Typed, RowsLost, [Next]_vars PROVE RowsLost'
<1>1. ASSUME NEW s \in Seq(Receipts), NEW h \in Hosts, Host(h, "inbound_id") \in CellsOf(s)
      PROVE  RowOf(h) \subseteq CellsOf(s)
  <2>1. PICK k \in DOMAIN s : Host(h, "inbound_id") \in DOMAIN s[k].now
    BY <1>1 DEF CellsOf
  <2>2. s[k] \in Receipts
    BY <2>1
  <2>3. RowOf(h) \subseteq DOMAIN s[k].now
    BY <2>1, <2>2 DEF Receipts
  <2> QED
    BY <2>1, <2>3 DEF CellsOf
<1>2. changes \in Seq(Receipts) /\ pending \in Seq(Receipts)
  BY DEF Typed
<1>3. lost' \in {lost, lost \cup CellsOf(changes), lost \cup CellsOf(pending)}
  BY DEF Next, Apply, Start, BeginInbound, BeginPublication, Write, CommitInbound, CommitPublication,
     Verify, Return, Check, Complete, Fail, Restore, Rollback, BeginUndo, Undo, CommitUndo, UndoFails,
     Panel, PanelWrite, PanelResave, PanelDelete, PanelAdd, PanelPut, Rest, Raise, GiveUp, data, run,
     past, history, vars
<1>4. CASE lost' = lost
  BY <1>4 DEF RowsLost
<1>5. CASE lost' = lost \cup CellsOf(changes)
  BY <1>1, <1>2, <1>5 DEF RowsLost
<1>6. CASE lost' = lost \cup CellsOf(pending)
  BY <1>1, <1>2, <1>6 DEF RowsLost
<1> QED
  BY <1>3, <1>4, <1>5, <1>6

\* While nobody has edited anything since the check, the next receipt can be taken back, unless it
\* is one of a transport, which compares the text of its column: then the content is still there.
LEMMA UndoGoesOn ==
    ASSUME Typed, Queued, Undoing, RowsLost, stage = "undo", queue # <<>>, edits = sealed,
           lost \cap CellsOf(changes) = {}
    PROVE  Reversible(Head(queue), draft) \/ LaidOut(Head(queue))
<1> DEFINE r == Head(queue)
           n == Len(queue)
<1>1. n \in 1 .. Len(changes) /\ r = changes[n] /\ r \in Receipts /\ changes \in Seq(Receipts)
  <2>1. queue \in Seq(Receipts) /\ changes \in Seq(Receipts)
    BY DEF Typed
  <2>2. r = queue[1] /\ Len(queue) \in Nat /\ Len(queue) >= 1 /\ r \in Receipts
    BY <2>1
  <2>3. Len(queue) <= Len(changes) /\ queue[1] = changes[Len(queue) + 1 - 1]
    BY <2>2 DEF Queued
  <2> QED
    BY <2>1, <2>2, <2>3
<1> HIDE DEF r, n
<1>2. DOMAIN r.now \subseteq Cells /\ \A c \in DOMAIN r.now : c \notin lost
  BY <1>1 DEF Receipts, Parts, CellsOf
<1>3. ASSUME NEW c \in Cells, c \notin lost
      PROVE  \E f : Trail(c, changes, f) /\ Alike(c, draft.cell[c], f[n])
  BY <1>3 DEF Undoing, Clear, n
<1>6. ASSUME NEW c \in DOMAIN r.now PROVE Alike(c, draft.cell[c], r.now[c])
  <2>1. PICK f : Trail(c, changes, f) /\ Alike(c, draft.cell[c], f[n])
    BY <1>2, <1>3
  <2>2. f[n] = r.now[c]
    BY <1>1, <2>1 DEF Trail
  <2> QED
    BY <2>1, <2>2
<1>7. CASE r.kind = "transport"
  BY <1>6, <1>7 DEF LaidOut, r
<1>8. SUFFICES ASSUME r.kind # "transport" PROVE Reversible(Head(queue), draft)
  BY <1>7
<1>4. ASSUME NEW c \in DOMAIN r.now PROVE draft.cell[c] = r.now[c]
  <2>3. c[1] \in Columns => r.now[c] \notin {Absent, Blank}
    <3>1. c[1] \in Columns => r.kind \in {"endpoint", "transport"}
      BY <1>1 DEF Receipts
    <3>2. r.kind = "endpoint" => r.now[c] \notin {Absent, Blank}
      BY <1>1 DEF Receipts
    <3> QED
      BY <1>8, <3>1, <3>2
  <2> QED
    BY <1>6, <2>3 DEF Alike
<1>5. ASSUME NEW c \in DOMAIN r.now, c[1] = "host"
      PROVE  draft.cell[Host(c[2], "inbound_id")] = r.inbound
  <2> DEFINE d == Host(c[2], "inbound_id")
  <2>1. c[2] \in Hosts /\ c \in RowOf(c[2]) /\ d \in Cells /\ d[1] \notin Columns
    <3>1. c[2] \in Hosts /\ c \in RowOf(c[2])
      BY <1>2, <1>5, CellFacts
    <3>2. d \in RowOf(c[2])
      BY <3>1, CellFacts DEF HostColumns
    <3>3. d[1] = "host" /\ d \in Cells
      BY <3>1, <3>2, CellFacts
    <3> QED
      BY <3>1, <3>3 DEF Columns
  <2>2. d \notin lost
    BY <1>2, <2>1 DEF RowsLost
  <2>3. OwnerOf(r, d)
    BY <1>5 DEF OwnerOf
  <2> HIDE DEF d
  <2>4. PICK f : Trail(d, changes, f) /\ Alike(d, draft.cell[d], f[n])
    BY <1>3, <2>1, <2>2
  <2>5. f[n] = r.inbound
    BY <1>1, <2>3, <2>4 DEF Trail
  <2>6. draft.cell[d] = r.inbound
    BY <2>1, <2>4, <2>5 DEF Alike
  <2> QED
    BY <2>6 DEF d
<1> QED
  BY <1>4, <1>5, <1>8 DEF Reversible, Holds, SameInbound, r

-------------------------------------------------------------------------------
(* What a run publishes *)

\* Several enabled hosts are left alone, so the first of them must be where it is asked to be.
Possible(q, cell) ==
    q.kind = "host" =>
        LET E == EnabledHosts(q.inbound, cell) IN
        Cardinality(E) > 1 => /\ cell[Host(Primary(E), "address")] = q.value
                              /\ cell[Host(Primary(E), "port")] = q.port

\* The host rendered first is the first enabled one.
LEMMA ServesHost ==
    ASSUME NEW q \in Requests, q.kind = "host", NEW cell
    PROVE  LET E == EnabledHosts(q.inbound, cell) IN
           Serves(q, cell) <=> /\ E # {}
                               /\ cell[Host(Primary(E), "address")] = q.value
                               /\ cell[Host(Primary(E), "port")] = q.port
<1> DEFINE E == EnabledHosts(q.inbound, cell)
<1>1. /\ E \subseteq Hosts /\ Hosts \subseteq Nat
      /\ \A h \in Hosts : h \in E <=> /\ cell[Host(h, "inbound_id")] = q.inbound
                                      /\ cell[Host(h, "is_disabled")] = "no"
  BY ConstantsAssumption DEF EnabledHosts
<1>2. Serves(q, cell) <=> \E h \in E : /\ \A g \in E : h <= g
                                       /\ cell[Host(h, "address")] = q.value
                                       /\ cell[Host(h, "port")] = q.port
  BY <1>1 DEF Serves
<1> HIDE DEF E
<1>3. E # {} => Primary(E) \in E /\ \A g \in E : Primary(E) <= g
  BY <1>1, PrimaryIsOne
<1>4. ASSUME NEW h \in E, \A g \in E : h <= g PROVE h = Primary(E)
  <2> DEFINE g == Primary(E)
  <2>1. g \in E /\ g <= h
    BY <1>3, <1>4
  <2>2. h <= g /\ h \in Nat /\ g \in Nat
    BY <1>1, <1>4, <2>1
  <2> HIDE DEF g
  <2>3. h = g
    BY <2>1, <2>2
  <2> QED
    BY <2>3 DEF g
<1> QED
  BY <1>2, <1>3, <1>4 DEF E

LEMMA ServesPossible ==
    ASSUME NEW q \in Requests, NEW cell, Serves(q, cell)
    PROVE  Possible(q, cell)
  BY ServesHost DEF Possible

\* The cells a request may change.
Within(q, cell) ==
    CASE q.kind = "setting" -> {Setting(q.key)}
      [] q.kind = "share" -> {Share(q.inbound)}
      [] q.kind = "transport" -> {Field(<<q.inbound, "stream_settings">>, "path")}
      [] q.kind = "endpoint" ->
           {c \in Cells : \E col \in Columns, f \in Names \cup Certs : c = Field(<<q.inbound, col>>, f)}
      [] q.kind = "host" ->
           UNION {RowOf(h) : h \in {h \in Hosts : cell[Host(h, "inbound_id")] \in {Absent, q.inbound}}}

\* A request serves its purpose, and leaves the rest alone.
LEMMA WriteServes ==
    ASSUME NEW q \in Requests, NEW cell \in Contents, NEW share \in [Inbounds -> Values],
           NEW form, ~ NoRowLeft(q, [cell |-> cell, form |-> form]), Possible(q, cell)
    PROVE  LET after == Overlay(Wanted(q, cell, share), cell) IN
           /\ Serves(q, after)
           /\ \A c \in Cells \ Within(q, cell) : after[c] = cell[c]
           /\ \A h \in Hosts : after[Host(h, "inbound_id")] \in {cell[Host(h, "inbound_id")], q.inbound}
<1> DEFINE now == Wanted(q, cell, share)
           after == Overlay(now, cell)
           Good == /\ Serves(q, after)
                   /\ \A c \in Cells \ Within(q, cell) : after[c] = cell[c]
                   /\ \A h \in Hosts : after[Host(h, "inbound_id")]
                                          \in {cell[Host(h, "inbound_id")], q.inbound}
<1> SUFFICES Good
  OBVIOUS
<1>1. now \in Parts
  BY WantedFits
<1>2. \A c \in Cells : after[c] = IF c \in DOMAIN now THEN now[c] ELSE cell[c]
  <2> HIDE DEF now
  <2> QED
    BY <1>1, OverlayType
<1> HIDE DEF after
<1>3. \A h \in Hosts : \A a \in HostColumns : Host(h, a) \in Cells /\ Host(h, a) \in RowOf(h)
  BY CellFacts
<1>h. HostColumns = {"inbound_id", "address", "port", "is_disabled", "rest"}
  BY DEF HostColumns
<1>4. \A h \in Hosts : Host(h, "inbound_id") \notin DOMAIN now =>
          after[Host(h, "inbound_id")] = cell[Host(h, "inbound_id")]
  BY <1>2, <1>3, <1>h
<1>5. CASE q.kind = "setting"
  <2>1. q.key \in Keys /\ q.value \in Values /\ Setting(q.key) \in Cells
    BY <1>5, CellFacts DEF Requests
  <2>2. now = [c \in {Setting(q.key)} \cap {c \in Cells : Text(cell[c]) # q.value} |-> q.value]
    BY <1>5 DEF Wanted
  <2>3. Text(q.value) = q.value
    BY <2>1, ConstantsAssumption DEF Text
  <2>4. Text(after[Setting(q.key)]) = q.value
    BY <1>2, <2>1, <2>2, <2>3
  <2>5. \A c \in DOMAIN now : c = Setting(q.key)
    BY <2>2
  <2>6. \A h \in Hosts : Host(h, "inbound_id") \notin DOMAIN now
    BY <2>5 DEF Host, Setting
  <2>7. Serves(q, after)
    BY <1>5, <2>4 DEF Serves
  <2>8. \A c \in Cells \ Within(q, cell) : c \notin DOMAIN now
    BY <1>5, <2>5 DEF Within
  <2> HIDE DEF now
  <2> QED
    BY <1>2, <1>4, <2>6, <2>7, <2>8
<1>6. CASE q.kind = "share"
  <2>1. q.inbound \in Inbounds /\ q.value \in Values /\ Share(q.inbound) \in Cells
    BY <1>6, CellFacts DEF Requests
  <2>2. now = [c \in {Share(q.inbound)} \cap {c \in Cells : cell[c] # q.value} |-> q.value]
    BY <1>6 DEF Wanted
  <2>3. after[Share(q.inbound)] = q.value
    BY <1>2, <2>1, <2>2
  <2>4. \A c \in DOMAIN now : c = Share(q.inbound)
    BY <2>2
  <2>5. \A h \in Hosts : Host(h, "inbound_id") \notin DOMAIN now
    BY <2>4 DEF Host, Share
  <2>6. Serves(q, after)
    BY <1>6, <2>3 DEF Serves
  <2>7. \A c \in Cells \ Within(q, cell) : c \notin DOMAIN now
    BY <1>6, <2>4 DEF Within
  <2> HIDE DEF now
  <2> QED
    BY <1>2, <1>4, <2>5, <2>6, <2>7
<1>7. CASE q.kind = "transport"
  <2> DEFINE doc == <<q.inbound, "stream_settings">>
             p == Field(doc, "path")
  <2>1. q.inbound \in Inbounds /\ doc \in Docs
    BY <1>7 DEF Requests, Docs, Columns
  <2>2. FieldsOf(doc) \subseteq Cells /\ \A c \in FieldsOf(doc) : c[1] \in Columns
    BY <2>1, CellFacts
  <2>3. p \in FieldsOf(doc)
    BY DEF FieldsOf, Fields
  <2>4. now = [c \in FieldsOf(doc) |-> IF c = p THEN q.value ELSE cell[c]]
    BY <1>7 DEF Wanted
  <2>5. Within(q, cell) = {p} /\ (Serves(q, after) <=> after[p] = q.value)
    BY <1>7 DEF Within, Serves
  <2> HIDE DEF p, doc
  <2>6. after[p] = q.value /\ \A c \in Cells \ {p} : after[c] = cell[c]
    BY <1>2, <2>2, <2>3, <2>4
  <2>7. \A h \in Hosts : Host(h, "inbound_id") \notin DOMAIN now
    BY <2>2, <2>4 DEF Host, Columns
  <2> HIDE DEF now
  <2> QED
    BY <1>4, <2>5, <2>6, <2>7
<1>8. CASE q.kind = "endpoint"
  <2> DEFINE S == EndpointFields(q, cell, share[q.inbound])
  <2>1. q.inbound \in Inbounds
    BY <1>8 DEF Requests
  <2>2. now = [c \in S |-> IF \E doc \in Docs, f \in Names : c = Field(doc, f) THEN q.value ELSE q.cert]
    BY <1>8 DEF Wanted
  <2>3. Within(q, cell) = {c \in Cells : \E col \in Columns, f \in Names \cup Certs :
                                              c = Field(<<q.inbound, col>>, f)}
    BY <1>8 DEF Within
  <2>4. S \subseteq Within(q, cell)
    <3>1. S \subseteq Cells
      BY <1>1, <2>2 DEF Parts
    <3>2. \A c \in S : \E col \in Columns, f \in Names \cup Certs : c = Field(<<q.inbound, col>>, f)
      BY DEF EndpointFields
    <3> HIDE DEF S
    <3> QED
      BY <2>3, <3>1, <3>2
  <2>5. \A h \in Hosts : Host(h, "inbound_id") \notin S
    BY <2>3, <2>4 DEF Host, Field, Columns
  <2>6. ASSUME NEW doc \in {q.inbound} \X Columns,
               doc[2] = "settings" \/ after[Field(doc, "security")] # "reality",
               NEW n \in Certs, after[Field(doc, n)] \in Paths
        PROVE  after[Field(doc, n)] = q.cert
    <3>1. doc \in Docs /\ Field(doc, n) \in Cells /\ Field(doc, "security") \in Cells
      <4>1. doc \in Docs
        BY <2>1 DEF Docs
      <4>2. Field(doc, n) \in FieldsOf(doc) /\ Field(doc, "security") \in FieldsOf(doc)
        BY DEF FieldsOf, Fields
      <4> QED
        BY <4>1, <4>2, CellFacts
    <3>2. Field(doc, "security") \notin S
      <4>1. "security" \notin Names \cup Certs
        BY ConstantsAssumption
      <4> QED
        BY <2>3, <2>4, <4>1 DEF Field
    <3>3. after[Field(doc, "security")] = cell[Field(doc, "security")]
      BY <1>2, <2>2, <3>1, <3>2
    <3>4. CASE Field(doc, n) \in S
      <4>1. \A d \in Docs, f \in Names : Field(doc, n) # Field(d, f)
        BY ConstantsAssumption DEF Field
      <4>2. now[Field(doc, n)] = q.cert
        BY <2>2, <3>4, <4>1
      <4> QED
        BY <1>2, <2>2, <3>1, <3>4, <4>2
    <3>5. CASE Field(doc, n) \notin S
      <4>1. after[Field(doc, n)] = cell[Field(doc, n)]
        BY <1>2, <2>2, <3>1, <3>5
      <4>2. cell[Field(doc, n)] \notin Paths \ {q.cert}
        BY <2>6, <3>3, <3>5 DEF EndpointFields
      <4> QED
        BY <2>6, <4>1, <4>2
    <3> QED
      BY <3>4, <3>5
  <2>7. Serves(q, after)
    BY <1>8, <2>6 DEF Serves
  <2>8. DOMAIN now = S
    BY <2>2
  <2> HIDE DEF now, S
  <2> QED
    BY <1>2, <1>4, <2>4, <2>5, <2>7, <2>8
<1>9. CASE q.kind = "host"
  <2> DEFINE E == EnabledHosts(q.inbound, cell)
             F == EnabledHosts(q.inbound, after)
             W == {h \in Hosts : cell[Host(h, "inbound_id")] \in {Absent, q.inbound}}
  <2>1. q.inbound \in Inbounds /\ q.value \in Values /\ q.port \in Values
    BY <1>9 DEF Requests
  <2>2. E \subseteq Hosts /\ IsFiniteSet(E)
    BY ConstantsAssumption, FS_Subset DEF EnabledHosts
  <2>3. \A h \in Hosts : /\ h \in E <=> /\ cell[Host(h, "inbound_id")] = q.inbound
                                        /\ cell[Host(h, "is_disabled")] = "no"
                         /\ h \in F <=> /\ after[Host(h, "inbound_id")] = q.inbound
                                        /\ after[Host(h, "is_disabled")] = "no"
    BY DEF EnabledHosts
  <2>4. F \subseteq Hosts
    BY DEF EnabledHosts
  <2>5. Within(q, cell) = UNION {RowOf(h) : h \in W}
    BY <1>9 DEF Within
  <2>6. Serves(q, after) <=> /\ F # {}
                             /\ after[Host(Primary(F), "address")] = q.value
                             /\ after[Host(Primary(F), "port")] = q.port
    BY <1>9, ServesHost
  <2>7. CASE E = {}
    <3> DEFINE h == NewId(cell)
    <3>1. now = [c \in RowOf(h) |-> NewRow(q.inbound, q)[c[3]]]
      BY <1>9, <2>7, FS_EmptySet DEF Wanted
    <3>2. h \in FreshHosts(cell)
      <4>1. FreshHosts(cell) # {}
        BY <1>9, <2>7 DEF NoRowLeft
      <4> QED
        BY <4>1 DEF NewId
    <3> HIDE DEF h
    <3>3. h \in Hosts /\ h \in Nat /\ cell[Host(h, "inbound_id")] = Absent
      <4>1. h \in Hosts /\ h \in Nat
        BY <3>2, ConstantsAssumption DEF FreshHosts
      <4>2. cell[Host(h, "inbound_id")] # Absent => h < h
        BY <3>2, <4>1 DEF FreshHosts
      <4> QED
        BY <4>1, <4>2
    <3>4. \A a \in HostColumns : after[Host(h, a)] = NewRow(q.inbound, q)[a]
      <4>1. \A a \in HostColumns : Host(h, a)[3] = a
        BY DEF Host
      <4> QED
        BY <1>2, <1>3, <3>1, <3>3, <4>1
    <3>5. /\ after[Host(h, "inbound_id")] = q.inbound /\ after[Host(h, "is_disabled")] = "no"
          /\ after[Host(h, "address")] = q.value /\ after[Host(h, "port")] = q.port
      BY <1>h, <3>4 DEF NewRow
    <3>6. \A g \in Hosts \ {h} : \A a \in HostColumns : after[Host(g, a)] = cell[Host(g, a)]
      <4>1. \A g \in Hosts \ {h} : \A a \in HostColumns : Host(g, a) \notin RowOf(h)
        BY DEF Host, RowOf
      <4> QED
        BY <1>2, <1>3, <3>1, <4>1
    <3>7. F = {h}
      BY <1>h, <2>3, <2>4, <2>7, <3>3, <3>5, <3>6
    <3>8. Serves(q, after)
      <4>1. Primary(F) = h
        <5>1. F \subseteq Hosts /\ F # {}
          BY <3>3, <3>7
        <5>2. Primary(F) \in F
          BY <5>1, PrimaryIsOne
        <5> QED
          BY <3>7, <5>2
      <4> QED
        BY <2>6, <3>5, <3>7, <4>1
    <3>9. \A c \in Cells \ Within(q, cell) : after[c] = cell[c]
      <4>1. RowOf(h) \subseteq Within(q, cell)
        BY <2>5, <3>3
      <4>2. DOMAIN now = RowOf(h)
        BY <3>1
      <4> QED
        BY <1>2, <4>1, <4>2
    <3> QED
      BY <1>h, <3>5, <3>6, <3>8, <3>9
  <2>8. CASE E # {} /\ Cardinality(E) = 1
    <3> DEFINE h == Primary(E)
               S == {Host(h, "address"), Host(h, "port")}
    <3>1. now = [c \in S |-> IF c[3] = "address" THEN q.value ELSE q.port]
      BY <1>9, <2>8 DEF Wanted
    <3>2. h \in E /\ h \in Hosts
      BY <2>2, <2>8, PrimaryIsOne
    <3>3. \A g \in Hosts : Host(g, "inbound_id") \notin S /\ Host(g, "is_disabled") \notin S
      BY DEF Host
    <3>4. \A g \in Hosts : /\ after[Host(g, "inbound_id")] = cell[Host(g, "inbound_id")]
                           /\ after[Host(g, "is_disabled")] = cell[Host(g, "is_disabled")]
      BY <1>2, <1>3, <1>h, <3>1, <3>3
    <3>5. F = E
      BY <2>2, <2>3, <2>4, <3>4
    <3>6. after[Host(h, "address")] = q.value /\ after[Host(h, "port")] = q.port
      <4>1. Host(h, "address")[3] = "address" /\ Host(h, "port")[3] # "address"
        BY DEF Host
      <4>2. Host(h, "address") \in Cells /\ Host(h, "port") \in Cells
        BY <1>3, <1>h, <3>2
      <4> QED
        BY <1>2, <3>1, <4>1, <4>2
    <3>7. \A c \in Cells \ Within(q, cell) : after[c] = cell[c]
      <4>1. h \in W
        BY <2>3, <3>2
      <4>2. S \subseteq RowOf(h)
        BY <1>3, <1>h, <3>2
      <4>3. RowOf(h) \subseteq Within(q, cell)
        BY <2>5, <4>1
      <4>4. DOMAIN now = S
        BY <3>1
      <4> QED
        BY <1>2, <4>2, <4>3, <4>4
    <3> QED
      BY <2>6, <2>8, <3>4, <3>5, <3>6, <3>7
  <2>9. CASE E # {} /\ Cardinality(E) # 1
    <3>1. now = [c \in {} |-> Absent]
      BY <1>9, <2>9 DEF Wanted
    <3>2. \A c \in Cells : after[c] = cell[c]
      BY <1>2, <3>1
    <3>3. Cardinality(E) > 1
      <4>1. Cardinality(E) \in Nat /\ (Cardinality(E) = 0 <=> E = {})
        BY <2>2, FS_CardinalityType, FS_EmptySet
      <4> QED
        BY <2>9, <4>1
    <3>4. F = E /\ Primary(E) \in Hosts
      <4>1. Primary(E) \in E
        BY <2>2, <2>9, PrimaryIsOne
      <4> QED
        BY <1>3, <1>h, <2>2, <2>3, <2>4, <3>2, <4>1
    <3>5. /\ cell[Host(Primary(E), "address")] = q.value
          /\ cell[Host(Primary(E), "port")] = q.port
      BY <1>9, <3>3 DEF Possible
    <3> QED
      BY <1>3, <1>h, <2>6, <2>9, <3>2, <3>4, <3>5
  <2> QED
    BY <2>7, <2>8, <2>9
<1>10. q.kind \in {"setting", "share", "transport", "endpoint", "host"}
  BY DEF Requests
<1> QED
  BY <1>5, <1>6, <1>7, <1>8, <1>9, <1>10

\* Requests about different things do not get in each other's way.
LEMMA WriteKeeps ==
    ASSUME NEW p \in Requests, NEW q \in Requests, ~ SameThing(p, q), NEW cell, NEW after,
           \A c \in Cells \ Within(q, cell) : after[c] = cell[c],
           \A h \in Hosts : after[Host(h, "inbound_id")] \in {cell[Host(h, "inbound_id")], q.inbound}
    PROVE  /\ Serves(p, cell) => Serves(p, after)
           /\ Possible(p, cell) => Possible(p, after)
<1>1. /\ q.kind \in {"setting", "share", "transport", "endpoint", "host"}
      /\ p.kind \in {"setting", "share", "transport", "endpoint", "host"}
  BY DEF Requests
<1>2. ASSUME NEW c \in Cells, c \in Within(q, cell)
      PROVE  \/ q.kind = "setting" /\ c = Setting(q.key)
             \/ q.kind = "share" /\ c = Share(q.inbound)
             \/ q.kind = "transport" /\ c = Field(<<q.inbound, "stream_settings">>, "path")
             \/ q.kind = "endpoint" /\ \E col \in Columns, f \in Names \cup Certs :
                                          c = Field(<<q.inbound, col>>, f)
             \/ q.kind = "host" /\ \E h \in Hosts : /\ c \in RowOf(h)
                                                    /\ cell[Host(h, "inbound_id")] \in {Absent, q.inbound}
  <2>1. CASE q.kind \in {"setting", "share", "transport"}
    BY <1>2, <2>1 DEF Within
  <2>2. CASE q.kind = "endpoint"
    BY <1>2, <2>2 DEF Within
  <2>3. CASE q.kind = "host"
    <3>1. Within(q, cell) = UNION {RowOf(h) : h \in {h \in Hosts :
                                      cell[Host(h, "inbound_id")] \in {Absent, q.inbound}}}
      BY <2>3 DEF Within
    <3> QED
      BY <1>2, <2>3, <3>1
  <2> QED
    BY <1>1, <2>1, <2>2, <2>3
<1>3. CASE p.kind = "setting"
  <2>1. Setting(p.key) \in Cells
    BY <1>3, CellFacts DEF Requests
  <2>2. Setting(p.key) \notin Within(q, cell)
    <3> SUFFICES ASSUME Setting(p.key) \in Within(q, cell) PROVE FALSE
      OBVIOUS
    <3>1. \A h \in Hosts : Setting(p.key) \notin RowOf(h)
      BY DEF RowOf, Host, Setting
    <3> QED
      BY <1>2, <1>3, <2>1, <3>1 DEF Setting, Share, Field, Columns, SameThing
  <2> QED
    BY <1>3, <2>1, <2>2 DEF Serves, Possible
<1>4. CASE p.kind = "share"
  <2>1. Share(p.inbound) \in Cells
    BY <1>4, CellFacts DEF Requests
  <2>2. Share(p.inbound) \notin Within(q, cell)
    <3> SUFFICES ASSUME Share(p.inbound) \in Within(q, cell) PROVE FALSE
      OBVIOUS
    <3>1. \A h \in Hosts : Share(p.inbound) \notin RowOf(h)
      BY DEF RowOf, Host, Share
    <3> QED
      BY <1>2, <1>4, <2>1, <3>1 DEF Setting, Share, Field, Columns, SameThing
  <2> QED
    BY <1>4, <2>1, <2>2 DEF Serves, Possible
<1>5. ASSUME NEW col \in Columns, NEW f \in Fields, p.inbound \in Inbounds,
             \/ p.kind = "transport" /\ f = "path"
             \/ p.kind = "endpoint" /\ f \in Certs \cup {"security"}
      PROVE  after[Field(<<p.inbound, col>>, f)] = cell[Field(<<p.inbound, col>>, f)]
  <2> DEFINE c == Field(<<p.inbound, col>>, f)
  <2>1. c \in Cells /\ c = <<col, p.inbound, f>>
    <3>1. c \in FieldsOf(<<p.inbound, col>>) /\ <<p.inbound, col>> \in Docs
      BY <1>5 DEF FieldsOf, Docs
    <3> QED
      BY <3>1, CellFacts DEF Field
  <2>2. c \notin Within(q, cell)
    <3> SUFFICES ASSUME c \in Within(q, cell) PROVE FALSE
      OBVIOUS
    <3>1. col \notin {"setting", "share_addr", "host"}
      BY DEF Columns
    <3>2. \A h \in Hosts : c \notin RowOf(h)
      BY <2>1, <3>1 DEF RowOf, Host
    <3>3. "path" \notin Names \cup Certs \cup {"security"} /\ "security" \notin Names \cup Certs
      BY ConstantsAssumption
    <3>4. c # Setting(q.key) /\ c # Share(q.inbound)
      BY <2>1, <3>1 DEF Setting, Share
    <3> HIDE DEF c
    <3>5. \/ q.kind = "transport" /\ q.inbound = p.inbound /\ f = "path"
          \/ q.kind = "endpoint" /\ q.inbound = p.inbound /\ f \in Names \cup Certs
      BY <1>2, <2>1, <3>2, <3>4 DEF Field
    <3> QED
      BY <1>5, <3>3, <3>5 DEF SameThing
  <2> QED
    BY <2>1, <2>2
<1>6. CASE p.kind = "transport"
  <2>1. p.inbound \in Inbounds /\ "path" \in Fields /\ "stream_settings" \in Columns
    BY <1>6 DEF Requests, Fields, Columns
  <2> QED
    BY <1>5, <1>6, <2>1 DEF Serves, Possible
<1>7. CASE p.kind = "endpoint"
  <2>1. p.inbound \in Inbounds /\ "security" \in Fields /\ Certs \subseteq Fields
    BY <1>7 DEF Requests, Fields
  <2>2. ASSUME NEW doc \in {p.inbound} \X Columns
        PROVE  /\ after[Field(doc, "security")] = cell[Field(doc, "security")]
               /\ \A n \in Certs : after[Field(doc, n)] = cell[Field(doc, n)]
    <3>1. doc = <<p.inbound, doc[2]>> /\ doc[2] \in Columns
      OBVIOUS
    <3> QED
      BY <1>5, <1>7, <2>1, <3>1
  <2>3. Serves(p, cell) => Serves(p, after)
    BY <1>7, <2>2 DEF Serves
  <2> QED
    BY <1>7, <2>3 DEF Possible
<1>8. CASE p.kind = "host"
  <2> DEFINE E == EnabledHosts(p.inbound, cell)
             F == EnabledHosts(p.inbound, after)
  <2>1. p.inbound \in Inbounds /\ p.inbound # Absent /\ (q.kind = "host" => q.inbound # p.inbound)
    BY <1>8, ConstantsAssumption DEF Requests, SameThing
  <2>2. HostColumns = {"inbound_id", "address", "port", "is_disabled", "rest"}
    BY DEF HostColumns
  <2>3. ASSUME NEW h \in Hosts, NEW a \in HostColumns
        PROVE  \/ after[Host(h, a)] = cell[Host(h, a)]
               \/ q.kind = "host" /\ cell[Host(h, "inbound_id")] \in {Absent, q.inbound}
    <3>1. Host(h, a) \in Cells
      BY CellFacts
    <3>2. CASE Host(h, a) \in Within(q, cell)
      <4>1. \A g \in Hosts : Host(h, a) \in RowOf(g) => g = h
        BY DEF RowOf, Host
      <4> QED
        BY <1>2, <3>1, <3>2, <4>1 DEF Setting, Share, Field, Host, Columns
    <3> QED
      BY <3>1, <3>2
  <2>4. ASSUME NEW h \in Hosts, q.kind = "host", cell[Host(h, "inbound_id")] \in {Absent, q.inbound}
        PROVE  after[Host(h, "inbound_id")] # p.inbound /\ cell[Host(h, "inbound_id")] # p.inbound
    BY <2>1, <2>4
  <2>5. F = E /\ E \subseteq Hosts
    BY <2>2, <2>3, <2>4 DEF EnabledHosts
  <2>6. \A h \in E : /\ after[Host(h, "address")] = cell[Host(h, "address")]
                     /\ after[Host(h, "port")] = cell[Host(h, "port")]
    BY <2>2, <2>3, <2>4 DEF EnabledHosts
  <2>7. E # {} => Primary(E) \in E
    BY <2>5, PrimaryIsOne
  <2>8. Serves(p, cell) => Serves(p, after)
    BY <1>8, <2>5, <2>6, <2>7, ServesHost
  <2>9. Possible(p, cell) => Possible(p, after)
    <3>1. Cardinality({}) = 0
      BY FS_EmptySet
    <3>2. Cardinality(E) > 1 => E # {}
      BY <3>1
    <3> QED
      BY <1>8, <2>5, <2>6, <2>7, <3>2 DEF Possible
  <2> QED
    BY <2>8, <2>9
<1> QED
  BY <1>1, <1>3, <1>4, <1>6, <1>7, <1>8

\* Receipts lead from a value to one other at most.
LEMMA FromOne ==
    ASSUME NEW c, NEW s \in Seq(Receipts), NEW b, NEW v, NEW w, From(c, s, b, v), From(c, s, b, w)
    PROVE  v = w
<1>1. PICK f : Trail(c, s, f) /\ f[0] = b /\ f[Len(s)] = v
  BY DEF From
<1>2. PICK g : Trail(c, s, g) /\ g[0] = b /\ g[Len(s)] = w
  BY DEF From
<1> DEFINE S == {k \in Nat : k <= Len(s) => f[k] = g[k]}
<1>3. 0 \in S
  BY <1>1, <1>2
<1>4. ASSUME NEW n \in Nat, n \in S PROVE n + 1 \in S
  <2> SUFFICES ASSUME n + 1 <= Len(s) PROVE f[n + 1] = g[n + 1]
    OBVIOUS
  <2>1. Len(s) \in Nat /\ n + 1 \in 1 .. Len(s) /\ (n + 1) - 1 = n /\ n <= Len(s)
    OBVIOUS
  <2>2. f[n] = g[n]
    BY <1>4, <2>1
  <2> HIDE DEF S
  <2> QED
    BY <1>1, <1>2, <2>1, <2>2 DEF Trail
<1>5. Len(s) \in Nat
  OBVIOUS
<1> HIDE DEF S
<1>6. Len(s) \in S
  BY <1>3, <1>4, <1>5, NatInd
<1> QED
  BY <1>1, <1>2, <1>5, <1>6 DEF S

LEMMA AskedTypes ==
    ASSUME NEW n \in DOMAIN Plans
    PROVE  AskedIn(n) \subseteq Requests /\ AskedIn(n) \subseteq Asked
<1>1. n \in 1 .. Len(Plans)
  BY ConstantsAssumption
<1>2. Plans[n].inbound \in Seq(Asked) /\ Plans[n].publication \in Seq(Asked)
  BY <1>1, PlanAsks
<1>3. \A s \in Seq(Asked) : Range(s) \subseteq Asked
  BY DEF Range
<1> QED
  BY <1>2, <1>3 DEF AskedIn, Asked

\* Nor do they lead to a value from two others.
LEMMA FromBack ==
    ASSUME NEW c, NEW s \in Seq(Receipts), NEW r \in Receipts, NEW b, NEW w, NEW v \in Whole,
           From(c, Append(s, r), b, w), IF c \in DOMAIN r.now THEN v = r.was[c] ELSE v = w
    PROVE  From(c, s, b, v)
<1> DEFINE n == Len(s)
           t == Append(s, r)
<1>1. n \in Nat /\ Len(t) = n + 1 /\ t[n + 1] = r /\ \A k \in 1 .. n : t[k] = s[k]
  OBVIOUS
<1> HIDE DEF t, n
<1>2. PICK f : Trail(c, t, f) /\ f[0] = b /\ f[n + 1] = w
  BY <1>1 DEF From, t
<1> DEFINE g == [k \in 0 .. n |-> f[k]]
<1>3. f \in [0 .. n + 1 -> Whole]
  BY <1>1, <1>2 DEF Trail
<1>4. g \in [0 .. n -> Whole] /\ \A k \in 0 .. n : g[k] = f[k]
  BY <1>1, <1>3
<1> HIDE DEF g
<1>5. ASSUME NEW k \in 1 .. n
      PROVE  /\ IF c \in DOMAIN s[k].now THEN g[k - 1] = s[k].was[c] /\ g[k] = s[k].now[c]
                                         ELSE g[k] = g[k - 1]
             /\ OwnerOf(s[k], c) => g[k] = s[k].inbound
  <2>1. k \in 1 .. n + 1 /\ k \in 0 .. n /\ k - 1 \in 0 .. n /\ t[k] = s[k]
    BY <1>1
  <2>2. g[k] = f[k] /\ g[k - 1] = f[k - 1]
    BY <1>4, <2>1
  <2> QED
    BY <1>1, <1>2, <2>1, <2>2 DEF Trail
<1>6. Trail(c, s, g)
  BY <1>4, <1>5 DEF Trail, n
<1>7. g[0] = b /\ g[n] = v
  <2>1. n + 1 \in 1 .. n + 1 /\ (n + 1) - 1 = n /\ 0 \in 0 .. n /\ n \in 0 .. n
    BY <1>1
  <2>2. IF c \in DOMAIN r.now THEN f[n] = r.was[c] ELSE w = f[n]
    BY <1>1, <1>2, <2>1 DEF Trail
  <2> QED
    BY <1>2, <1>4, <2>1, <2>2
<1> QED
  BY <1>6, <1>7 DEF From, n

\* The requests that have been dealt with.
Answered ==
    LET early == {"beforeInbound", "inbound", "checkInbound", "beforePublication"} IN
    ((IF stage = "beforeInbound" THEN {} ELSE Range(Plan.inbound))
        \cup (IF stage \in early THEN {} ELSE Range(Plan.publication)))
    \ (IF stage \in {"inbound", "publication"} THEN Range(queue) ELSE {})

Between == {"beforeInbound", "beforePublication"}
Writing == {"inbound", "publication"}
Checking == {"checkInbound", "verify", "checkPublication", "checkFinal"}

\* The receipts of the run lead from the baseline to this content.
Accounted(X) == \A c \in Cells : From(c, changes \o pending, baseline[c], X[c])

(***************************************************************************)
(* A content X that serves what has been dealt with, if the receipts lead  *)
(* to it.  Before a transaction it is the one that was checked last; from  *)
(* then on the one that was written.  The receipts lead to it in every     *)
(* cell that the panel has not written ahead of the transaction.  The      *)
(* cells that it has written, the database holds as X does until the       *)
(* check, which thus finds out.                                            *)
(***************************************************************************)
Leading(X) ==
    /\ \A c \in Cells : c \notin ahead \/ stage \in Between =>
          From(c, changes \o pending, baseline[c], X[c])
    /\ stage \in Writing => X = draft.cell
    /\ stage \in Between => \A c \in Cells \ ahead : X[c] = draft.cell[c]
    /\ stage \in Checking => \A c \in ahead : X[c] = db.cell[c]
    /\ stage = "commit" /\ edits = sealed => X = db.cell
    /\ Accounted(X) => \A q \in Answered : Serves(q, X)
    /\ stage = "publication" => \A q \in Range(queue) : Possible(q, X)

Leads ==
    /\ stage \in RunStages /\ twice = {} => \E X \in Contents : Leading(X)
    /\ stage \in {"checkFinal", "commit"} => ahead = {}
    /\ stage \in {"inbound", "publication"} => Range(queue) \subseteq AskedIn(runs)
    /\ stage \in RunStages => runs \in DOMAIN Plans

LEMMA LeadsSetStep ==
    ASSUME Typed, Leads, [Next]_vars
    PROVE  /\ stage' \in {"inbound", "publication"} => Range(queue)' \subseteq AskedIn(runs')
           /\ stage' \in RunStages => runs' \in DOMAIN Plans
<1>1. CASE Start
  <2>1. runs' \in 1 .. Len(Plans) /\ stage' \notin {"inbound", "publication"}
    BY <1>1, ConstantsAssumption DEF Start, Typed
  <2>2. DOMAIN Plans = 1 .. Len(Plans)
    BY ConstantsAssumption
  <2> QED
    BY <2>1, <2>2
<1>2. CASE BeginInbound \/ BeginPublication
  <2>1. /\ stage \in RunStages /\ runs' = runs
        /\ stage' \in {"inbound", "publication"} => queue' \in {Plan.inbound, Plan.publication}
    BY <1>2 DEF BeginInbound, BeginPublication, Raise, RunStages, past
  <2>2. Range(Plan.inbound) \subseteq AskedIn(runs) /\ Range(Plan.publication) \subseteq AskedIn(runs)
    BY DEF AskedIn, Plan
  <2> QED
    BY <2>1, <2>2 DEF Leads
<1>3. CASE Write
  <2>1. /\ stage \in {"inbound", "publication"} /\ runs' = runs /\ queue \in Seq(Asked) /\ queue # <<>>
        /\ stage' \in RunStages => queue' = Tail(queue) /\ stage' = stage
    BY <1>3 DEF Write, Raise, Typed, RunStages, past
  <2>2. Range(Tail(queue)) \subseteq Range(queue)
    BY <2>1 DEF Range
  <2> QED
    BY <2>1, <2>2 DEF Leads, RunStages
<1>4. CASE ~ (Start \/ BeginInbound \/ BeginPublication \/ Write)
  <2>1. /\ stage' \in RunStages => stage \in RunStages /\ runs' = runs
        /\ stage' \in {"inbound", "publication"} => stage' = stage /\ queue' = queue
    BY <1>4 DEF Next, Apply, CommitInbound, CommitPublication, Verify, Return, Check, Complete, Fail,
       Restore, Rollback, BeginUndo, Undo, CommitUndo, UndoFails, Panel, PanelWrite, PanelResave,
       PanelDelete, PanelAdd, PanelPut, Rest, Raise, GiveUp, data, run, past, history, vars, RunStages,
       Open
  <2> QED
    BY <2>1 DEF Leads, RunStages
<1> QED
  BY <1>1, <1>2, <1>3, <1>4

\* What a write leaves is accounted for only if what it found was.
LEMMA WriteBack ==
    ASSUME Typed, WriteWrites, NEW c \in Cells, From(c, changes' \o pending', baseline'[c], draft'.cell[c])
    PROVE  From(c, changes \o pending, baseline[c], draft.cell[c])
<1>0. /\ changes \in Seq(Receipts) /\ pending \in Seq(Receipts) /\ changes \o pending \in Seq(Receipts)
      /\ queue # <<>> /\ queue \in Seq(Asked) /\ changes' = changes /\ baseline' = baseline
  BY DEF WriteWrites, Write, Typed
<1> DEFINE q == Head(queue)
           now == Wanted(q, draft.cell, audited)
           r == Receipt(q, now, draft)
<1>1. CASE UNCHANGED <<draft, pending>>
  BY <1>0, <1>1
<1>2. CASE ~ UNCHANGED <<draft, pending>>
  <2>1. ~ NoRowLeft(q, draft) /\ draft' = After(q, now, draft) /\ pending' = Append(pending, r)
    BY <1>2 DEF WriteWrites, Write
  <2>2. q \in Asked /\ draft \in Bases /\ audited \in [Inbounds -> Values]
    BY <1>0 DEF Typed
  <2>3. /\ r \in Receipts /\ r.now = now /\ \A d \in DOMAIN now : r.was[d] = draft.cell[d]
        /\ After(q, now, draft).cell = Overlay(now, draft.cell)
    BY <2>1, <2>2, WriteType
  <2>4. now \in Parts /\ draft.cell \in Contents
    BY <2>2, <2>3 DEF Receipts, Bases
  <2> HIDE DEF r, now, q
  <2>5. c \notin DOMAIN now => draft'.cell[c] = draft.cell[c]
    BY <2>1, <2>3, <2>4, OverlayType
  <2>6. Append(changes \o pending, r) = changes \o Append(pending, r)
    <3>1. /\ changes \in Seq(Receipts) /\ pending \in Seq(Receipts) /\ r \in Receipts
          /\ changes \o pending \in Seq(Receipts) /\ <<r>> \in Seq(Receipts)
      BY <1>0, <2>3
    <3>2. (changes \o pending) \o <<r>> = changes \o (pending \o <<r>>)
      BY <3>1, ConcatAssociative
    <3>3. Append(changes \o pending, r) = (changes \o pending) \o <<r>>
      BY <3>1, AppendIsConcat
    <3>4. Append(pending, r) = pending \o <<r>>
      BY <3>1, AppendIsConcat
    <3> QED
      BY <3>2, <3>3, <3>4
  <2>7. From(c, Append(changes \o pending, r), baseline[c], draft'.cell[c])
    BY <1>0, <2>1, <2>6
  <2>8. draft.cell[c] \in Whole
    BY CellTypes
  <2> QED
    BY <1>0, <2>3, <2>5, <2>7, <2>8, FromBack
<1> QED
  BY <1>1, <1>2

LEMMA LeadsWrite ==
    ASSUME Typed, Leads, Consistent, WriteWrites, twice = {}
    PROVE  (\E X \in Contents : Leading(X))'
<1> DEFINE q == Head(queue)
           now == Wanted(q, draft.cell, audited)
           X == Overlay(now, draft.cell)
<1>1. /\ stage \in {"inbound", "publication"} /\ stage' = stage /\ queue # <<>> /\ queue \in Seq(Asked)
      /\ queue' = Tail(queue) /\ runs' = runs /\ ahead' = ahead /\ stage \in RunStages
      /\ ~ NoRowLeft(q, draft) /\ ~ (stage = "inbound" /\ Refused(q, draft))
      /\ IF Same(q, now, draft) THEN draft' = draft ELSE draft' = After(q, now, draft)
  BY DEF WriteWrites, Write, Typed, RunStages, past, history
<1>2. /\ draft \in Bases /\ audited \in [Inbounds -> Values] /\ draft.cell \in Contents
      /\ draft = [cell |-> draft.cell, form |-> draft.form]
  BY DEF Typed, Bases
<1>3. Leading(draft.cell)
  BY <1>1 DEF Leads, Leading, Writing
<1>4. /\ q \in Range(queue) /\ q \in Asked /\ q \in Requests /\ Range(Tail(queue)) \subseteq Range(queue)
      /\ Range(queue) \subseteq {q} \cup Range(Tail(queue))
  <2>1. q = queue[1] /\ 1 \in DOMAIN queue /\ DOMAIN queue = 1 .. Len(queue) /\ Len(queue) \in Nat
    BY <1>1
  <2>2. /\ DOMAIN Tail(queue) = 1 .. Len(queue) - 1
        /\ \A k \in 1 .. Len(queue) - 1 : Tail(queue)[k] = queue[k + 1]
    BY <1>1
  <2>3. \A k \in DOMAIN queue : k = 1 \/ (k - 1 \in DOMAIN Tail(queue) /\ queue[k] = Tail(queue)[k - 1])
    BY <2>1, <2>2
  <2>4. q \in Asked /\ q \in Requests
    BY <1>1, <2>1 DEF Asked
  <2>5. q \in Range(queue) /\ Range(Tail(queue)) \subseteq Range(queue)
    BY <1>1, <2>1 DEF Range
  <2>6. Range(queue) \subseteq {q} \cup Range(Tail(queue))
    <3> SUFFICES ASSUME NEW k \in DOMAIN queue PROVE queue[k] \in {q} \cup Range(Tail(queue))
      BY DEF Range
    <3> QED
      BY <2>1, <2>3 DEF Range
  <2> QED
    BY <2>4, <2>5, <2>6
<1>5. Range(queue) \subseteq AskedIn(runs) /\ AskedIn(runs) \subseteq Requests /\ runs \in DOMAIN Plans
  BY <1>1, AskedTypes DEF Leads
<1> HIDE DEF q
<1>6. Possible(q, draft.cell)
  BY <1>1, <1>3, <1>4 DEF Leading, Refused, Possible
<1>7. now \in Parts
  BY <1>1, <1>2, <1>4, WantedFits
<1>8. /\ Serves(q, X)
      /\ \A c \in Cells \ Within(q, draft.cell) : X[c] = draft.cell[c]
      /\ \A h \in Hosts : X[Host(h, "inbound_id")] \in {draft.cell[Host(h, "inbound_id")], q.inbound}
  BY <1>1, <1>2, <1>4, <1>6, WriteServes
<1> HIDE DEF now
<1>9. X \in Contents /\ \A c \in Cells : X[c] = IF c \in DOMAIN now THEN now[c] ELSE draft.cell[c]
  BY <1>2, <1>7, OverlayType
<1>10. draft'.cell = X
  <2>1. CASE Same(q, now, draft)
    <3>1. \A c \in Cells : X[c] = draft.cell[c]
      BY <1>9, <2>1 DEF Same
    <3> HIDE DEF X
    <3>2. X = draft.cell
      BY <1>2, <1>9, <3>1 DEF Contents
    <3> QED
      BY <1>1, <2>1, <3>2
  <2>2. CASE ~ Same(q, now, draft)
    BY <1>1, <2>2 DEF After
  <2> QED
    BY <2>1, <2>2
<1> HIDE DEF X
<1>11. ASSUME NEW p \in AskedIn(runs)
       PROVE  /\ Serves(p, draft.cell) => Serves(p, X)
              /\ Possible(p, draft.cell) => Possible(p, X)
  <2>1. CASE p = q
    BY <1>4, <1>8, <2>1, ServesPossible
  <2>2. CASE p # q
    <3>1. ~ SameThing(p, q) /\ p \in Requests
      BY <1>4, <1>5, <2>2 DEF Consistent
    <3> QED
      BY <1>4, <1>8, <3>1, WriteKeeps
  <2> QED
    BY <2>1, <2>2
<1>12. ASSUME Accounted(draft.cell)', NEW p \in Answered' PROVE Serves(p, draft'.cell)
  <2>1. p \in AskedIn(runs) /\ (p \in Answered \/ p = q)
    BY <1>1, <1>4, <1>12 DEF Answered, AskedIn, Plan
  <2>2. Accounted(draft.cell)
    BY <1>12, WriteBack DEF Accounted
  <2>3. p \in Answered => Serves(p, draft.cell)
    BY <1>3, <2>2 DEF Leading
  <2> QED
    BY <1>8, <1>10, <1>11, <2>1, <2>3
<1>13. ASSUME stage = "publication", NEW p \in Range(Tail(queue)) PROVE Possible(p, draft'.cell)
  <2>1. Possible(p, draft.cell) /\ p \in AskedIn(runs)
    BY <1>3, <1>4, <1>5, <1>13 DEF Leading
  <2> QED
    BY <1>10, <1>11, <2>1
<1>14. ASSUME NEW c \in Cells, c \notin ahead
       PROVE  From(c, changes' \o pending', baseline'[c], draft'.cell[c])
  BY <1>3, <1>14, WriteLeads DEF Leading
<1>15. stage' \notin Between \cup Checking \cup {"commit"}
  BY <1>1 DEF Between, Checking
<1>16. Leading(draft.cell)'
  BY <1>1, <1>12, <1>13, <1>14, <1>15 DEF Leading
<1> QED
  BY <1>9, <1>10, <1>16

LEMMA LeadsStep == ASSUME Typed, Leads, Consistent, [Next]_vars PROVE Leads'
<1>0. /\ changes \in Seq(Receipts) /\ pending \in Seq(Receipts) /\ changes \o pending \in Seq(Receipts)
      /\ changes \o <<>> = changes /\ (changes \o pending) \o <<>> = changes \o pending
      /\ db.cell \in Contents /\ draft.cell \in Contents
  BY DEF Typed, Bases
<1>s. (stage \in {"checkFinal", "commit"} => ahead = {})'
  BY DEF Leads, Next, Apply, Start, BeginInbound, BeginPublication, Write, CommitInbound,
     CommitPublication, Verify, Return, Check, Complete, Fail, Restore, Rollback, BeginUndo, Undo,
     CommitUndo, UndoFails, Panel, PanelWrite, PanelResave, PanelDelete, PanelAdd, PanelPut, Rest, Raise,
     GiveUp, data, run, past, history, vars
<1> SUFFICES ASSUME stage' \in RunStages, twice' = {} PROVE (\E X \in Contents : Leading(X))'
  BY <1>s, LeadsSetStep DEF Leads
<1> USE DEF Between, Writing, Checking
<1>1. CASE Start
  <2>1. /\ changes' = <<>> /\ pending = <<>> /\ pending' = <<>> /\ baseline' = db.cell /\ draft' = draft
        /\ db' = db /\ draft = db /\ stage' \in {"beforeInbound", "beforePublication"}
        /\ stage' = "beforePublication" => Plan'.inbound = <<>>
    BY <1>1 DEF Start, Typed, Open, data, Plan, RunStages
  <2>2. <<>> \o <<>> = <<>> /\ Range(<<>>) = {}
    BY DEF Range
  <2>3. Answered' = {}
    BY <2>1, <2>2 DEF Answered
  <2>4. \A c \in Cells : From(c, <<>>, db.cell[c], db.cell[c])
    BY CellTypes, FromEmpty
  <2>5. Accounted(db.cell)'
    BY <2>1, <2>2, <2>4 DEF Accounted
  <2>6. \A c \in Cells : From(c, changes' \o pending', baseline'[c], db'.cell[c])
    BY <2>1, <2>2, <2>4
  <2>7. stage' \notin Writing \cup Checking \cup {"commit", "publication"}
    BY <2>1
  <2>8. Leading(db.cell)'
    BY <2>1, <2>3, <2>6, <2>7 DEF Leading
  <2> QED
    BY <1>0, <2>1, <2>8
<1>2. CASE WriteWrites
  <2>1. twice = {}
    BY <1>2 DEF WriteWrites, history
  <2> QED
    BY <1>2, <2>1, LeadsWrite
<1>3. ASSUME NEW X, NEW Y, X \in Contents, Y \in Contents, Accounted(X), Accounted(Y)
      PROVE  X = Y
  <2>1. \A c \in Cells : X[c] = Y[c]
    BY <1>0, <1>3, FromOne DEF Accounted
  <2> QED
    BY <1>3, <2>1 DEF Contents
<1>4. ASSUME ~ Start, ~ WriteWrites, stage \in RunStages, twice = {}, NEW X \in Contents, Leading(X)
      PROVE  (\E Y \in Contents : Leading(Y))'
  <2>1. CASE BeginInbound \/ BeginPublication
    <3>1. /\ \/ /\ stage = "beforeInbound" /\ stage' = "inbound" /\ queue' = Plan.inbound
             \/ /\ stage = "beforePublication" /\ stage' = "publication" /\ queue' = Plan.publication
                /\ \A k \in DOMAIN Plan.publication : ~ Refused(Plan.publication[k], db)
          /\ Plan' = Plan /\ UNCHANGED <<draft, pending, changes, baseline, ahead>> /\ draft = db
      BY <2>1 DEF BeginInbound, BeginPublication, Raise, RunStages, data, past, history, Plan, Typed, Open
    <3>2. Answered' \subseteq Answered
      BY <3>1 DEF Answered
    <3>3. stage' = "publication" => \A q \in Range(queue') : Possible(q, draft.cell)
      BY <3>1 DEF Range, Refused, Possible
    <3>4. Accounted(X) /\ \A c \in Cells \ ahead : X[c] = draft.cell[c]
      BY <1>4, <3>1 DEF Leading, Accounted
    <3>5. /\ Accounted(draft.cell)' <=> Accounted(draft.cell)
          /\ \A c \in Cells \ ahead' : From(c, changes' \o pending', baseline'[c], draft'.cell[c])
      BY <3>1, <3>4 DEF Accounted
    <3>6. Accounted(draft.cell) => X = draft.cell
      BY <1>0, <1>3, <3>4
    <3>7. Accounted(draft.cell) => \A q \in Answered : Serves(q, draft.cell)
      BY <1>4, <3>6 DEF Leading
    <3>8. Leading(draft.cell)'
      BY <3>1, <3>2, <3>3, <3>4, <3>5, <3>7 DEF Leading
    <3> QED
      BY <1>0, <3>1, <3>8
  <2>2. CASE CommitInbound \/ CommitPublication \/ Return \/ Verify
    <3>1. /\ stage \in {"inbound", "publication"} => queue = <<>> /\ db' = draft
          /\ stage = "verify" => db' = db
          /\ \/ stage = "inbound" /\ stage' = "checkInbound"
             \/ stage = "publication" /\ stage' = "verify"
             \/ stage = "verify" /\ stage' \in {"verify", "checkPublication"}
          /\ Plan' = Plan /\ baseline' = baseline /\ ahead' = ahead
          /\ changes' \o pending' = changes \o pending
      BY <1>0, <2>2 DEF CommitInbound, CommitPublication, Return, Verify, Raise, RunStages, data, past,
         history, Plan
    <3>2. Answered' = Answered
      <4>1. Range(<<>>) = {}
        BY DEF Range
      <4> QED
        BY <3>1, <4>1 DEF Answered
    <3>3. Accounted(X)' <=> Accounted(X)
      BY <3>1 DEF Accounted
    <3>4. Leading(X)'
      BY <1>4, <3>1, <3>2, <3>3 DEF Leading
    <3> QED
      BY <3>4
  <2>3. CASE Check
    <3>1. /\ stage \in {"checkInbound", "checkPublication", "checkFinal"} /\ Accepted(db.cell, changes)
          /\ stage' = CASE stage = "checkInbound" -> "beforePublication"
                        [] stage = "checkPublication" -> "checkFinal"
                        [] stage = "checkFinal" -> "commit"
          /\ UNCHANGED <<db, draft, pending, changes, baseline>> /\ pending = <<>> /\ draft = db
          /\ Plan' = Plan /\ ahead' = {}
      BY <1>4, <2>3 DEF Check, Raise, RunStages, data, past, Plan, Typed, Open
    <3>2. Accounted(db.cell)
      BY <1>0, <3>1, AcceptedLeads DEF Accounted
    <3>3. X = db.cell
      <4>1. ASSUME NEW c \in Cells, c \notin ahead PROVE X[c] = db.cell[c]
        BY <1>0, <1>4, <3>2, <4>1, FromOne DEF Leading, Accounted
      <4>2. ASSUME NEW c \in ahead PROVE X[c] = db.cell[c]
        BY <1>4, <3>1, <4>2 DEF Leading
      <4> QED
        BY <1>0, <4>1, <4>2 DEF Contents
    <3>4. Answered' = Answered /\ (Accounted(X)' <=> Accounted(X))
      BY <3>1 DEF Answered, Accounted
    <3>5. stage' # "publication"
      BY <3>1
    <3>6. \A c \in Cells : From(c, changes' \o pending', baseline'[c], X[c])
      BY <3>1, <3>2, <3>3 DEF Accounted
    <3>7. stage' \in {"beforePublication", "checkFinal", "commit"}
      BY <3>1
    <3>8. Accounted(X)' => \A q \in Answered' : Serves(q, X)
      BY <1>4, <3>4 DEF Leading
    <3>9. Leading(X)'
      BY <3>1, <3>3, <3>6, <3>7, <3>8 DEF Leading
    <3> QED
      BY <3>9
  <2>4. CASE Panel
    <3>1. PICK cell \in Contents : \E form \in [Docs -> Forms] : \E cells \in SUBSET Cells :
             PanelPut(cell, form, cells) /\ \A c \in Cells \ cells : cell[c] = db.cell[c]
      BY <2>4, PanelPuts
    <3>2. PICK form \in [Docs -> Forms], cells \in SUBSET Cells :
             PanelPut(cell, form, cells) /\ \A c \in Cells \ cells : cell[c] = db.cell[c]
      BY <3>1
    <3>3. /\ stage \notin Open /\ stage' = stage /\ edits' = edits + 1 /\ sealed' = sealed
          /\ Plan' = Plan /\ UNCHANGED <<changes, pending, baseline>>
          /\ draft = db /\ draft' = db' /\ \A c \in Cells \ cells : db'.cell[c] = db.cell[c]
          /\ stage \in Between => ahead' = ahead \cup cells
          /\ stage \notin Between => ahead' = ahead /\ ahead \cap cells \subseteq twice'
      BY <3>2 DEF PanelPut, run, past, Plan, Typed
    <3>4. edits' # sealed'
      BY <3>3, ConstantsAssumption DEF Typed
    <3>5. Answered' = Answered /\ (Accounted(X)' <=> Accounted(X))
      BY <3>3 DEF Answered, Open, Accounted
    <3>6. stage \in Checking => \A c \in ahead' : X[c] = db'.cell[c]
      BY <1>4, <3>3 DEF Leading, Typed
    <3>7. stage \in Between => \A c \in Cells \ ahead' : X[c] = draft'.cell[c]
      BY <1>4, <3>3 DEF Leading
    <3>8. \A c \in Cells : c \notin ahead' \/ stage' \in Between =>
             From(c, changes' \o pending', baseline'[c], X[c])
      BY <1>4, <3>3 DEF Leading
    <3>9. Leading(X)'
      BY <1>4, <3>3, <3>4, <3>5, <3>6, <3>7, <3>8 DEF Leading, Open
    <3> QED
      BY <3>9
  <2>5. CASE UNCHANGED vars \/ Rest
    <3>1. UNCHANGED vars
      BY <2>5 DEF Rest
    <3>2. Answered' = Answered /\ (Accounted(X)' <=> Accounted(X))
      BY <3>1 DEF Answered, Accounted, vars, run, past, Plan
    <3>3. Leading(X)'
      BY <1>4, <3>1, <3>2 DEF Leading, vars, data, run, history
    <3> QED
      BY <3>3
  <2>6. ~ (Write \/ Complete \/ Fail \/ Restore)
    <3>1. ~ Raise
      BY DEF Raise, RunStages
    <3>2. ~ Write
      BY <1>4, <3>1 DEF Write, WriteWrites
    <3> QED
      BY <1>4, <3>1, <3>2 DEF Complete, Fail, Restore, Rollback, BeginUndo, Undo, CommitUndo, UndoFails,
         GiveUp, RunStages
  <2> QED
    BY <1>4, <2>1, <2>2, <2>3, <2>4, <2>5, <2>6 DEF Next, Apply
<1>5. ~ Start => stage \in RunStages /\ twice = {}
  BY DEF Next, Apply, BeginInbound, BeginPublication, Write, CommitInbound, CommitPublication,
     Verify, Return, Check, Complete, Fail, Restore, Rollback, BeginUndo, Undo, CommitUndo, UndoFails,
     Panel, PanelWrite, PanelResave, PanelDelete, PanelAdd, PanelPut, Rest, Raise, GiveUp, data, run,
     past, history, vars, RunStages
<1> QED
  BY <1>1, <1>2, <1>4, <1>5 DEF Leads

LEMMA PublishedStep ==
    ASSUME Typed, Outcomes, Leads, Published, [Next]_vars
    PROVE  Published'
<1>1. ASSUME Panel PROVE edits' # sealed'
  <2>1. edits' = edits + 1 /\ sealed' = sealed
    BY <1>1, PanelPuts DEF PanelPut
  <2>2. sealed <= edits /\ sealed \in Nat /\ edits \in Nat
    BY ConstantsAssumption DEF Typed
  <2> QED
    BY <2>1, <2>2
<1>2. ASSUME Complete, edits' = sealed', twice' = {}, NEW q \in AskedIn(runs')
      PROVE  Serves(q, db'.cell)
  <2>1. stage = "commit" /\ db' = db /\ edits = sealed /\ ahead = {} /\ twice = {} /\ runs' = runs
    BY <1>2 DEF Complete, data, history, Leads, Typed
  <2>2. PICK X \in Contents : Leading(X)
    BY <2>1 DEF Leads, RunStages
  <2>3. q \in Answered /\ X = db.cell /\ Accounted(X)
    BY <1>2, <2>1, <2>2 DEF Leading, Accounted, Answered, AskedIn, Plan
  <2> QED
    BY <2>1, <2>2, <2>3 DEF Leading
<1>3. ASSUME ~ (Complete \/ Panel), outcome' = "applied"
      PROVE  outcome = "applied" /\ UNCHANGED <<db, edits, sealed, twice, runs>>
  BY <1>3 DEF Outcomes, Next, Apply, Start, BeginInbound, BeginPublication, Write, CommitInbound,
     CommitPublication, Verify, Return, Check, Fail, Restore, Rollback, BeginUndo, Undo, CommitUndo,
     UndoFails, Rest, Raise, GiveUp, data, run, past, history, vars
<1> QED
  BY <1>1, <1>2, <1>3 DEF Published

-------------------------------------------------------------------------------
(* The theorems *)

IInv ==
    /\ Typed /\ SealsGrow /\ Recorded /\ Queued /\ UndoOwn
    /\ Applying /\ ToUndo /\ Undoing /\ Stacked /\ Outcomes /\ RowsLost

LEMMA InitIInv == Init => IInv
<1> SUFFICES ASSUME Init PROVE IInv
  OBVIOUS
<1>1. Typed /\ SealsGrow
  BY InitTyped, InitSealsGrow
<1>2. Recorded /\ Queued /\ UndoOwn /\ Applying /\ ToUndo /\ Undoing /\ Stacked /\ Outcomes /\ RowsLost
  <2>1. stage = "idle" /\ changes = <<>> /\ stack = <<>> /\ outcome = "none" /\ Len(stack) = 0 /\ lost = {}
    BY DEF Init
  <2> QED
    BY <2>1 DEF Recorded, WroteAll, Queued, UndoOwn, Applying, ToUndo, Undoing, Stacked, Outcomes,
       RestoredExactly, RunStages, RowsLost
<1> QED
  BY <1>1, <1>2 DEF IInv

LEMMA IInvStep == IInv /\ [Next]_vars => IInv'
  BY TypedStep, SealsGrowStep, RecordedStep, QueuedStep, UndoOwnStep, ApplyingStep, ToUndoStep,
     UndoingStep, StackedStep, OutcomesStep, RowsLostStep DEF IInv

LEMMA Invariant == Spec => []IInv
  BY InitIInv, IInvStep, PTL DEF Spec

(***************************************************************************)
(* The types of Publication, whatever the panel writes, the operator plans *)
(* and fails: a run holds its receipts in memory only until the commit of  *)
(* state.json, and a transaction is open in three stages.                  *)
(***************************************************************************)
THEOREM PublicationTypes == Spec => []TypeOK
<1>1. IInv => TypeOK
  BY TypedImplies DEF IInv
<1> QED
  BY Invariant, <1>1, PTL

(***************************************************************************)
(* rollback_lucx_publication, called by the handler of a failed run or by  *)
(* hand, changes a cell only while it holds a value that a receipt we      *)
(* committed says we put there.                                            *)
(***************************************************************************)
THEOREM UndoKeepsThePanel == Spec => UndoKeepsPanelWrites
<1>1. IInv /\ [Next]_vars =>
        [stage = "undo" => \A c \in Cells : db'.cell[c] # db.cell[c] => db.cell[c] \in wrote[c]]_vars
  BY UndoKeepsStep DEF IInv
<1> QED
  BY Invariant, <1>1, PTL DEF Spec, UndoKeepsPanelWrites

(***************************************************************************)
(* An undo that goes through, of a failed run or of any run on the stack,  *)
(* leaves every cell that the panel did not write and that no lost receipt *)
(* covers as it was when that run started.                                 *)
(***************************************************************************)
THEOREM UndoRestores == Spec => []RestoredExactly
<1>1. IInv => RestoredExactly
  BY DEF IInv, Outcomes
<1> QED
  BY Invariant, <1>1, PTL

LEMMA RefusedStep ==
    ASSUME IInv, [Next]_vars, stage = "undo", outcome' = "refused"
    PROVE  edits > sealed \/ lost \cap CellsOf(changes) # {} \/ LaidOut(Head(queue))
<1>1. outcome # "refused"
  BY DEF IInv, Outcomes
<1>2. Undo /\ ~ Reversible(Head(queue), draft)
  BY <1>1 DEF Next, Apply, Start, BeginInbound, BeginPublication, Write, CommitInbound,
     CommitPublication, Verify, Return, Check, Complete, Fail, Restore, Rollback, BeginUndo, Undo,
     CommitUndo, UndoFails, Panel, PanelWrite, PanelResave, PanelDelete, PanelAdd, PanelPut, Rest,
     Raise, GiveUp, data, run, past, history, vars
<1>3. queue # <<>>
  BY <1>2 DEF Undo
<1>4. edits > sealed \/ edits = sealed
  BY ConstantsAssumption DEF IInv, Typed
<1> QED
  BY <1>2, <1>3, <1>4, UndoGoesOn DEF IInv

(***************************************************************************)
(* Why rollback_lucx_publication refuses a receipt, for every plan, paths  *)
(* and endpoints of one inbound included: somebody has edited something    *)
(* since the receipts were last checked; an earlier undo left changes      *)
(* behind in the same cells; or the receipt is one of a transport path     *)
(* whose column still says what it said, in another layout.                *)
(***************************************************************************)
THEOREM RefusesOnlyAfterEdits == Spec => RefusedOnlyAfterEdits
<1>1. IInv /\ [Next]_vars =>
        [stage = "undo" /\ outcome' = "refused" =>
            edits > sealed \/ lost \cap CellsOf(changes) # {} \/ LaidOut(Head(queue))]_vars
  BY RefusedStep
<1> QED
  BY Invariant, <1>1, PTL DEF Spec, RefusedOnlyAfterEdits

(***************************************************************************)
(* A run that is said to be applied has published its plan: what the       *)
(* database holds at the last check, and as long as the panel does not     *)
(* write, serves every request of both transactions, for any content it    *)
(* found and whatever the panel wrote, before a transaction or between it  *)
(* and its check, unless it wrote one cell at both times.  The requests of *)
(* a plan are about different things (Consistent).                         *)
(***************************************************************************)
THEOREM PublishesThePlan == ASSUME Consistent PROVE Spec => []Inv
<1>1. Init => Leads /\ Published
  BY DEF Init, Leads, Published, RunStages
<1>2. IInv /\ Leads /\ Published /\ [Next]_vars => (Leads /\ Published)'
  BY LeadsStep, PublishedStep DEF IInv
<1>3. Spec => [](Leads /\ Published)
  BY Invariant, <1>1, <1>2, PTL DEF Spec
<1> QED
  BY PublicationTypes, <1>3, PTL DEF Inv
=============================================================================
