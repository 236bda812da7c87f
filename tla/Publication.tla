------------------------------ MODULE Publication ------------------------------
(***************************************************************************)
(* The changes an apply makes in the panel's SQLite database, the receipts *)
(* it keeps of them, and their undoing (transaction.py, routing_rebase.py; *)
(* the order of the calls is Engine._apply_with_probes).                   *)
(*                                                                         *)
(* The panel keeps writing to the same database.  BEGIN IMMEDIATE keeps it *)
(* out during a transaction, and nothing does between transactions.        *)
(*                                                                         *)
(* The database is a function from cells to values: a settings row, the    *)
(* share_addr of an inbound, a field of one of its two JSON columns, a     *)
(* column of a hosts row.  A JSON column also has a form: how its text was *)
(* laid out by the program that wrote it last.                             *)
(***************************************************************************)
EXTENDS Naturals, Sequences, FiniteSets, SequencesExt

CONSTANTS
    Keys,          \* the keys of the settings table
    Inbounds,
    Hosts,         \* a set of numbers: ids of hosts rows
    Names,         \* the hostname-like fields of a JSON column
    Certs,         \* its certificate and key fields
    Paths,         \* the values that are absolute file names
    Values,        \* what a cell can hold, Blank included
    Blank,         \* the empty string
    Absent,        \* no row, no field
    Plans,         \* what the operator applies, one after the other: the requests of the
                   \* inbound transaction and those of the publication transaction
    Starts,        \* the contents the database may start with
    PanelWrites,   \* [cells -> SUBSET values]: what the panel may write there
    Resaves,       \* the JSON columns the panel may write again unchanged
    MaxEdits       \* bound on the writes of the panel

Columns == {"settings", "stream_settings"}

Docs == Inbounds \X Columns

Fields == Names \cup Certs \cup {"path", "security", "rest"}

HostColumns == {"inbound_id", "address", "port", "is_disabled", "rest"}

Setting(k) == <<"setting", k>>
Share(i) == <<"share_addr", i>>
Field(doc, f) == <<doc[2], doc[1], f>>
Host(h, a) == <<"host", h, a>>

FieldsOf(doc) == {Field(doc, f) : f \in Fields}
RowOf(h) == {Host(h, a) : a \in HostColumns}

Cells == {Setting(k) : k \in Keys} \cup {Share(i) : i \in Inbounds}
         \cup (UNION {FieldsOf(doc) : doc \in Docs}) \cup (UNION {RowOf(h) : h \in Hosts})

Contents == [Cells -> Values \cup {Absent}]

\* As the panel lays a column out, as json.dumps does with compact separators, and without.
Forms == {"panel", "compact", "spaced"}

Requests ==
    [kind : {"setting"}, key : Keys, value : Values]
    \cup [kind : {"share", "transport"}, inbound : Inbounds, value : Values]
    \cup [kind : {"endpoint"}, inbound : Inbounds, value : Values \ {Blank}, cert : Values \ {Blank}]
    \cup [kind : {"host"}, inbound : Inbounds, value : Values, port : Values]

ASSUME ConstantsAssumption ==
    /\ Hosts \subseteq Nat /\ IsFiniteSet(Hosts)
    /\ Names \cap Certs = {} /\ (Names \cup Certs) \cap {"path", "security", "rest"} = {}
    /\ Blank \in Values /\ Absent \notin Values /\ Paths \subseteq Values \ {Blank}
    /\ Inbounds \cup {"no", "inherited"} \subseteq Values
    /\ Plans \in Seq([inbound : Seq(Requests), publication : Seq(Requests)])
    /\ Starts \subseteq Contents
    /\ PanelWrites \in [Cells -> SUBSET (Values \cup {Absent})]
    /\ Resaves \subseteq Docs
    /\ MaxEdits \in Nat

VARIABLES
    db,         \* [cell |-> contents, form |-> layouts], as committed
    draft,      \* the same inside the open transaction
    stage,
    queue,      \* requests, receipts to verify or receipts to undo
    pending,    \* receipts the running function has not returned yet
    changes,    \* database_changes of the run
    baseline,   \* RebaseBaseline: the content the run started from
    audited,    \* share_addr of the inbounds in the last audit
    outcome,    \* how the last apply or rollback ended
    runs,       \* applies started
    stack,      \* the receipts each state.json holds, the installed one last
    edits,
    sealed,     \* history: edits there were at the last check of the receipts
    wrote,      \* history: what our committed receipts say we put in a cell
    touched,    \* history: cells the panel wrote
    lost,       \* history: cells we changed and hold no receipt of any more
    ahead,      \* history: cells the panel has written since the last check and before
                \* our next transaction
    twice       \* history: of these, the ones it has written again before the next check

data == <<db, draft>>
run == <<queue, pending, changes, baseline, audited>>
past == <<outcome, runs, stack>>
history == <<edits, sealed, wrote, touched, lost, ahead, twice>>
vars == <<data, stage, run, past, history>>

-------------------------------------------------------------------------------
(* What a request changes *)

Text(v) == IF v = Absent THEN Blank ELSE v

\* Faulty variant: a disabled host counts as published.
EnabledHostsAny(i, cell) == {h \in Hosts : cell[Host(h, "inbound_id")] = i}

\* The rows synchronize_lucx_publication selects for an inbound.
EnabledHosts(i, cell) ==
    {h \in Hosts : cell[Host(h, "inbound_id")] = i /\ cell[Host(h, "is_disabled")] = "no"}

AllHosts(i, cell) == {h \in Hosts : cell[Host(h, "inbound_id")] = i}

\* ORDER BY sort_order, id
Primary(S) == CHOOSE h \in S : \A g \in S : h <= g

\* The ids an INSERT may get.
FreshHosts(cell) ==
    LET used == {h \in Hosts : cell[Host(h, "inbound_id")] # Absent} IN
    {h \in Hosts : /\ \A g \in used : g < h
                   /\ \A g \in Hosts \ used : (\A u \in used : u < g) => h <= g}

\* lastrowid of an INSERT
NewId(cell) == CHOOSE h \in FreshHosts(cell) : TRUE

\* _new_publication_host: everything but the endpoint is inherited from the inbound.
NewRow(i, q) ==
    [a \in HostColumns |-> CASE a = "inbound_id" -> i [] a = "address" -> q.value
                             [] a = "port" -> q.port [] a = "is_disabled" -> "no"
                             [] a = "rest" -> "inherited"]

\* _endpoint_field_plan: names that hold the previous domain, and configured file names.
EndpointFields(q, cell, old) ==
    UNION {LET open == doc[2] = "settings" \/ cell[Field(doc, "security")] # "reality" IN
           {Field(doc, f) : f \in {n \in Names : open /\ cell[Field(doc, n)] = old
                                                      /\ old # q.value}
                                  \cup {n \in Certs : open /\ cell[Field(doc, n)] \in Paths \ {q.cert}}}
             : doc \in {q.inbound} \X Columns}

\* The cells a request writes and their new values.
Wanted(q, cell, share) ==
    CASE q.kind = "setting" ->
           [c \in {Setting(q.key)} \cap {c \in Cells : Text(cell[c]) # q.value} |-> q.value]
      [] q.kind = "share" ->
           [c \in {Share(q.inbound)} \cap {c \in Cells : cell[c] # q.value} |-> q.value]
      [] q.kind = "transport" ->
           LET doc == <<q.inbound, "stream_settings">> IN
           [c \in FieldsOf(doc) |-> IF c = Field(doc, "path") THEN q.value ELSE cell[c]]
      [] q.kind = "endpoint" ->
           [c \in EndpointFields(q, cell, share[q.inbound]) |->
               IF \E doc \in Docs, f \in Names : c = Field(doc, f) THEN q.value ELSE q.cert]
      [] q.kind = "host" ->
           LET E == EnabledHosts(q.inbound, cell) IN
           CASE E = {} -> [c \in RowOf(NewId(cell)) |-> NewRow(q.inbound, q)[c[3]]]
             [] Cardinality(E) = 1 ->
                          LET h == Primary(E) IN
                          [c \in {Host(h, "address"), Host(h, "port")} |->
                              IF c[3] = "address" THEN q.value ELSE q.port]
             [] OTHER -> [c \in {} |-> Absent]

\* The raw text of a column would not change.
Same(q, now, old) ==
    /\ \A c \in DOMAIN now : now[c] = old.cell[c]
    /\ q.kind = "transport" => old.form[<<q.inbound, "stream_settings">>] = "compact"

Overlay(now, cell) == [c \in Cells |-> IF c \in DOMAIN now THEN now[c] ELSE cell[c]]

Docked(now) == {doc \in Docs : FieldsOf(doc) \cap DOMAIN now # {}}

Relaid(form, docs, f) == [doc \in Docs |-> IF doc \in docs THEN f ELSE form[doc]]

\* The record appended to changes; a transport change keeps the raw text of the column.
Receipt(q, now, old) ==
    LET kind == IF q.kind # "host" THEN q.kind
                ELSE IF EnabledHosts(q.inbound, old.cell) = {} THEN "created" ELSE "host" IN
    [kind |-> kind, inbound |-> IF q.kind = "setting" THEN Absent ELSE q.inbound,
     was |-> [c \in DOMAIN now |-> old.cell[c]], now |-> now,
     form |-> [doc \in Docked(now) |-> old.form[doc]]]

After(q, now, old) ==
    [cell |-> Overlay(now, old.cell),
     form |-> Relaid(old.form, Docked(now), IF q.kind = "transport" THEN "compact" ELSE "spaced")]

\* Hosts is finite here, so that an INSERT may find no id left.
NoRowLeft(q, old) ==
    /\ q.kind = "host" /\ EnabledHosts(q.inbound, old.cell) = {}
    /\ FreshHosts(old.cell) = {}

\* The preflight of the hosts rows and the refusals of a single request.
Refused(q, old) ==
    CASE q.kind = "transport" -> old.cell[Field(<<q.inbound, "stream_settings">>, "path")] = Absent
      [] q.kind = "host" ->
           LET E == EnabledHosts(q.inbound, old.cell) IN
           \/ E = {} /\ AllHosts(q.inbound, old.cell) # {}
           \/ NoRowLeft(q, old)
           \/ /\ Cardinality(E) > 1
              /\ \/ old.cell[Host(Primary(E), "address")] # q.value
                 \/ old.cell[Host(Primary(E), "port")] # q.port
      [] OTHER -> FALSE

-------------------------------------------------------------------------------
(* Undoing a receipt, in the database and, for the check, in memory *)

\* The row a hosts receipt speaks of still belongs to the inbound.
SameInbound(r, cell) ==
    \A c \in DOMAIN r.now : c[1] = "host" => cell[Host(c[2], "inbound_id")] = r.inbound

Holds(r, cell) == \A c \in DOMAIN r.now : cell[c] = r.now[c]

\* Faulty variant: a created host is recognised by its endpoint, not by its whole row.
ReversibleByEndpoint(r, d) ==
    /\ \A c \in DOMAIN r.now :
           (r.kind = "created" => c[3] \in {"address", "port"}) => d.cell[c] = r.now[c]
    /\ SameInbound(r, d.cell)
    /\ r.kind = "transport" => \A doc \in DOMAIN r.form : d.form[doc] = "compact"

\* rollback_lucx_publication compares the text of a column for a transport change.
Reversible(r, d) ==
    /\ Holds(r, d.cell) /\ SameInbound(r, d.cell)
    /\ r.kind = "transport" => \A doc \in DOMAIN r.form : d.form[doc] = "compact"

\* Faulty variant: a settings row that did not exist stays, emptied.
UndoneEmptied(r, d) ==
    [cell |-> Overlay([c \in DOMAIN r.was |->
                          IF r.kind = "setting" THEN Text(r.was[c]) ELSE r.was[c]], d.cell),
     form |-> d.form]

\* An endpoint field that was empty is removed, and both columns are written again.
Undone(r, d) ==
    [cell |-> Overlay([c \in DOMAIN r.was |->
                          IF r.kind = "endpoint" /\ r.was[c] = Blank THEN Absent ELSE r.was[c]],
                      d.cell),
     form |-> CASE r.kind = "transport" -> [doc \in Docs |-> IF doc \in DOMAIN r.form
                                                            THEN r.form[doc] ELSE d.form[doc]]
                [] r.kind = "endpoint" -> Relaid(d.form, {r.inbound} \X Columns, "spaced")
                [] OTHER -> d.form]

\* Faulty variant: a receipt is taken back without comparing what is there.
StepBackBlind(at, r) == [ok |-> at.ok, cell |-> Overlay(r.was, at.cell)]

\* _reverse_receipt: the same on a snapshot, blind to the layout of a column.
StepBack(at, r) ==
    [ok |-> /\ at.ok /\ Holds(r, at.cell) /\ SameInbound(r, at.cell)
            /\ \A c \in DOMAIN r.now :
                   c[1] = "host" => at.cell[Host(c[2], "is_disabled")] = "no",
     cell |-> Overlay(r.was, at.cell)]

\* verify_authorized_rebase: without our changes the database is the one of the baseline.
Accepted(cell, receipts) ==
    LET back[n \in 0 .. Len(receipts)] ==
            IF n = 0 THEN [ok |-> TRUE, cell |-> cell]
            ELSE StepBack(back[n - 1], receipts[Len(receipts) - n + 1]) IN
    back[Len(receipts)] = [ok |-> TRUE, cell |-> baseline]

-------------------------------------------------------------------------------
(* Control *)

Shares(cell) == [i \in Inbounds |-> Text(cell[Share(i)])]

Open == {"inbound", "publication", "undo"}   \* a transaction is open

CellsOf(receipts) == UNION {DOMAIN receipts[k].now : k \in DOMAIN receipts}

Plan == Plans[runs]

Init ==
    /\ \E start \in Starts : db = [cell |-> start, form |-> [doc \in Docs |-> "panel"]]
    /\ draft = db
    /\ stage = "idle" /\ queue = <<>> /\ pending = <<>> /\ changes = <<>>
    /\ baseline = db.cell /\ audited = Shares(db.cell)
    /\ outcome = "none" /\ runs = 0 /\ stack = <<>>
    /\ edits = 0 /\ sealed = 0 /\ touched = {} /\ lost = {} /\ ahead = {} /\ twice = {}
    /\ wrote = [c \in Cells |-> {}]

\* An exception: the connection rolls back, and the handler undoes what has a receipt.
Raise ==
    /\ draft' = db /\ queue' = <<>> /\ pending' = <<>>
    /\ IF changes = <<>> THEN stage' = "idle" /\ outcome' = "failed"
                         ELSE stage' = "handler" /\ outcome' = "failing"
    /\ UNCHANGED <<db, changes, baseline, audited, runs, stack>>

\* Audit and capture_rebase_baseline, before anything is changed.
Start ==
    /\ stage = "idle" /\ runs < Len(Plans)
    /\ runs' = runs + 1
    /\ baseline' = db.cell /\ audited' = Shares(db.cell) /\ sealed' = edits
    /\ ahead' = {} /\ twice' = {}
    /\ changes' = <<>> /\ outcome' = "running"
    /\ stage' = IF Plans[runs'].inbound # <<>> THEN "beforeInbound" ELSE "beforePublication"
    /\ UNCHANGED <<data, queue, pending, stack, edits, wrote, touched, lost>>

BeginInbound ==
    /\ stage = "beforeInbound" /\ stage' = "inbound"
    /\ queue' = Plan.inbound
    /\ UNCHANGED <<data, pending, changes, baseline, audited, past, history>>

\* All hosts rows are read and the unanswerable requests refused before the first write.
BeginPublication ==
    /\ stage = "beforePublication"
    /\ IF \E k \in DOMAIN Plan.publication : Refused(Plan.publication[k], db)
       THEN Raise
       ELSE /\ stage' = "publication" /\ queue' = Plan.publication
            /\ UNCHANGED <<data, pending, changes, baseline, audited, past>>
    /\ UNCHANGED history

Write ==
    /\ stage \in {"inbound", "publication"} /\ queue # <<>>
    /\ LET q == Head(queue)
           now == Wanted(q, draft.cell, audited) IN
       IF NoRowLeft(q, draft) \/ (stage = "inbound" /\ Refused(q, draft))
       THEN Raise
       ELSE /\ queue' = Tail(queue)
            /\ IF Same(q, now, draft) THEN UNCHANGED <<draft, pending>>
               ELSE /\ draft' = After(q, now, draft)
                    /\ pending' = Append(pending, Receipt(q, now, draft))
            /\ UNCHANGED <<db, stage, changes, baseline, audited, past>>
    /\ UNCHANGED history

\* The cells a receipt changes; a transport receipt also speaks of the rest of its column.
Written(r) == {c \in DOMAIN r.now : r.kind = "endpoint" \/ r.now[c] # r.was[c]}

Remember(receipts) ==
    wrote' = [c \in Cells |-> wrote[c] \cup {receipts[k].now[c] : k \in {k \in DOMAIN receipts :
                                                                      c \in Written(receipts[k])}}]

\* synchronize_lucx_inbound_changes returns its receipts with the commit.
CommitInbound ==
    /\ stage = "inbound" /\ queue = <<>>
    /\ db' = draft /\ Remember(pending)
    /\ changes' = changes \o pending /\ pending' = <<>>
    /\ stage' = "checkInbound"
    /\ UNCHANGED <<draft, queue, baseline, audited, past, edits, sealed, touched, lost, ahead,
                   twice>>

\* synchronize_lucx_publication verifies what it committed before it returns them.
CommitPublication ==
    /\ stage = "publication" /\ queue = <<>>
    /\ db' = draft /\ Remember(pending)
    /\ stage' = "verify" /\ queue' = pending
    /\ UNCHANGED <<draft, pending, changes, baseline, audited, past, edits, sealed, touched, lost,
                   ahead, twice>>

\* Of an endpoint only the fields of the settings column are read again.
Verified(r) ==
    /\ SameInbound(r, db.cell)
    /\ \A c \in DOMAIN r.now :
           (r.kind # "endpoint" \/ c[1] # "stream_settings") => db.cell[c] = r.now[c]

Verify ==
    /\ stage = "verify" /\ queue # <<>>
    /\ IF Verified(Head(queue))
       THEN queue' = Tail(queue)
            /\ UNCHANGED <<data, stage, pending, changes, baseline, audited, past, lost>>
       ELSE Raise /\ lost' = lost \cup CellsOf(pending)
    /\ UNCHANGED <<edits, sealed, wrote, touched, ahead, twice>>

Return ==
    /\ stage = "verify" /\ queue = <<>>
    /\ changes' = changes \o pending /\ pending' = <<>>
    /\ stage' = "checkPublication"
    /\ UNCHANGED <<data, queue, baseline, audited, past, history>>

\* The panel was restarted: _refresh_authorized_routing accepts the database it finds,
\* after the inbound changes, after the publication and before the last rendering.
Check ==
    /\ stage \in {"checkInbound", "checkPublication", "checkFinal"}
    /\ IF Accepted(db.cell, changes)
       THEN /\ stage' = CASE stage = "checkInbound" -> "beforePublication"
                          [] stage = "checkPublication" -> "checkFinal"
                          [] stage = "checkFinal" -> "commit"
            /\ audited' = Shares(db.cell) /\ sealed' = edits
            /\ ahead' = {}
            /\ UNCHANGED <<data, queue, pending, changes, baseline, past>>
       ELSE Raise /\ UNCHANGED <<sealed, ahead>>
    /\ UNCHANGED <<edits, wrote, touched, lost, twice>>

\* The files follow, then state.json with the receipts.
Complete ==
    /\ stage = "commit"
    /\ stack' = Append(stack, [changes |-> changes, before |-> baseline, sealed |-> sealed])
    /\ stage' = "idle" /\ outcome' = "applied"
    /\ UNCHANGED <<data, run, runs, history>>

\* Any other exception of the run.
Fail ==
    /\ stage \notin {"idle", "handler", "beforeUndo", "undo"}
    /\ Raise
    /\ lost' = IF stage = "verify" THEN lost \cup CellsOf(pending) ELSE lost
    /\ UNCHANGED <<edits, sealed, wrote, touched, ahead, twice>>

Rollback ==
    /\ stage = "idle" /\ stack # <<>>
    /\ LET installed == Last(stack) IN
       /\ changes' = installed.changes /\ baseline' = installed.before
       /\ sealed' = installed.sealed
       /\ stack' = Front(stack)
       /\ IF installed.changes = <<>> THEN stage' = "idle" /\ outcome' = "undone"
                                      ELSE stage' = "beforeUndo" /\ outcome' = "restoring"
    /\ UNCHANGED <<data, queue, pending, audited, runs, edits, wrote, touched, lost, ahead, twice>>

BeginUndo ==
    /\ stage \in {"handler", "beforeUndo"} /\ stage' = "undo"
    /\ queue' = Reverse(changes)
    /\ UNCHANGED <<data, pending, changes, baseline, audited, past, history>>

GiveUp(how) ==
    /\ stage' = "idle" /\ outcome' = how /\ queue' = <<>> /\ draft' = db
    /\ lost' = lost \cup CellsOf(changes)
    /\ UNCHANGED db

Undo ==
    /\ stage = "undo" /\ queue # <<>>
    /\ IF Reversible(Head(queue), draft)
       THEN /\ draft' = Undone(Head(queue), draft) /\ queue' = Tail(queue)
            /\ UNCHANGED <<db, stage, outcome, lost>>
       ELSE GiveUp("refused")
    /\ UNCHANGED <<pending, changes, baseline, audited, runs, stack, edits, sealed, wrote, touched,
                   ahead, twice>>

CommitUndo ==
    /\ stage = "undo" /\ queue = <<>>
    /\ db' = draft /\ stage' = "idle"
    /\ outcome' = IF outcome = "failing" THEN "rolledback" ELSE "undone"
    /\ UNCHANGED <<draft, run, runs, stack, history>>

\* The undo does not get the lock, or the file rollback before it has failed.
UndoFails ==
    /\ stage \in {"handler", "beforeUndo", "undo"} /\ GiveUp("aborted")
    /\ UNCHANGED <<pending, changes, baseline, audited, runs, stack, edits, sealed, wrote, touched,
                   ahead, twice>>

-------------------------------------------------------------------------------
(* The panel *)

PanelPut(cell, form, cells) ==
    /\ stage \notin Open /\ edits < MaxEdits
    /\ db' = [cell |-> cell, form |-> form] /\ draft' = db'
    /\ edits' = edits + 1 /\ touched' = touched \cup cells
    /\ IF stage \in {"beforeInbound", "beforePublication"}
       THEN ahead' = ahead \cup cells /\ twice' = twice
       ELSE ahead' = ahead /\ twice' = twice \cup (ahead \cap cells)
    /\ UNCHANGED <<stage, run, past, sealed, wrote, lost>>

PanelWrite(c, v) ==
    /\ v \in PanelWrites[c] /\ v # db.cell[c] /\ db.cell[c] # Absent
    /\ PanelPut([db.cell EXCEPT ![c] = v],
                Relaid(db.form, {doc \in Docs : c \in FieldsOf(doc)}, "panel"), {c})

\* The same content, laid out by the panel.
PanelResave(doc) ==
    /\ db.form[doc] # "panel"
    /\ PanelPut(db.cell, Relaid(db.form, {doc}, "panel"), {})

\* An operator deletes a host, or adds an alias.
PanelDelete(h) ==
    /\ db.cell[Host(h, "inbound_id")] # Absent
    /\ PanelPut([c \in Cells |-> IF c \in RowOf(h) THEN Absent ELSE db.cell[c]], db.form, RowOf(h))

PanelAdd(h, i, address, port) ==
    /\ h \in FreshHosts(db.cell)
    /\ PanelPut(Overlay([c \in RowOf(h) |->
                           NewRow(i, [value |-> address, port |-> port])[c[3]]], db.cell),
                db.form, RowOf(h))

Panel ==
    \/ \E c \in Cells : \E v \in PanelWrites[c] : PanelWrite(c, v)
    \/ \E doc \in Resaves : PanelResave(doc)
    \/ \E h \in Hosts : PanelDelete(h)
    \/ \E h \in Hosts, i \in Inbounds : \E address \in PanelWrites[Host(h, "address")],
           port \in PanelWrites[Host(h, "port")] : PanelAdd(h, i, address, port)

-------------------------------------------------------------------------------
Apply ==
    \/ Start \/ BeginInbound \/ BeginPublication \/ Write \/ CommitInbound \/ CommitPublication
    \/ Verify \/ Return \/ Check \/ Complete \/ Fail

Restore == Rollback \/ BeginUndo \/ Undo \/ CommitUndo \/ UndoFails

Rest == stage = "idle" /\ runs = Len(Plans) /\ stack = <<>> /\ UNCHANGED vars

Next == Apply \/ Restore \/ Panel \/ Rest

Spec == Init /\ [][Next]_vars

-------------------------------------------------------------------------------
IsReceipt(r) ==
    /\ DOMAIN r = {"kind", "inbound", "was", "now", "form"}
    /\ DOMAIN r.was = DOMAIN r.now /\ DOMAIN r.now \subseteq Cells
    /\ DOMAIN r.form \subseteq Docs

TypeOK ==
    /\ \A d \in {db, draft} : d.cell \in Contents /\ d.form \in [Docs -> Forms]
    /\ stage \notin Open => draft = db
    /\ \A k \in DOMAIN pending : IsReceipt(pending[k])
    /\ \A k \in DOMAIN changes : IsReceipt(changes[k])
    /\ baseline \in Contents /\ audited \in [Inbounds -> Values]
    /\ runs \in 0 .. Len(Plans) /\ Len(stack) <= runs
    /\ edits \in 0 .. MaxEdits /\ sealed \in 0 .. edits
    /\ ahead \subseteq Cells /\ twice \subseteq Cells
    /\ touched \subseteq Cells /\ lost \subseteq Cells

(***************************************************************************)
(* An undo, automatic or by hand, changes a cell only while it holds       *)
(* something a committed receipt says we put there: what the panel wrote   *)
(* since, it keeps, in every field of a JSON column and column of a host.  *)
(***************************************************************************)
UndoKeepsPanelWrites ==
    [][stage = "undo" =>
          \A c \in Cells : db'.cell[c] # db.cell[c] => db.cell[c] \in wrote[c]]_vars

\* An endpoint field that was the empty string comes back as no field at all.
Alike(c, v, w) ==
    v = w \/ (c[1] \in Columns /\ {v, w} = {Absent, Blank})

(***************************************************************************)
(* After an undo that went through, whatever the panel did not write and   *)
(* no lost receipt covers is as it was before the run: settings rows that  *)
(* did not exist are gone, created hosts too.                              *)
(***************************************************************************)
RestoredExactly ==
    outcome \in {"undone", "rolledback"} =>
        \A c \in Cells \ (touched \cup lost) : Alike(c, db.cell[c], baseline[c])

\* Where a request is served: an endpoint by its certificate, an inbound by the host that is
\* rendered first.
Serves(q, cell) ==
    CASE q.kind = "setting" -> Text(cell[Setting(q.key)]) = q.value
      [] q.kind = "share" -> cell[Share(q.inbound)] = q.value
      [] q.kind = "transport" -> cell[Field(<<q.inbound, "stream_settings">>, "path")] = q.value
      [] q.kind = "host" ->
           LET Rendered(h) == cell[Host(h, "inbound_id")] = q.inbound
                              /\ cell[Host(h, "is_disabled")] = "no" IN
           \E h \in Hosts : /\ Rendered(h) /\ \A g \in Hosts : Rendered(g) => h <= g
                            /\ cell[Host(h, "address")] = q.value
                            /\ cell[Host(h, "port")] = q.port
      [] q.kind = "endpoint" ->
           \A doc \in {q.inbound} \X Columns :
               (doc[2] = "settings" \/ cell[Field(doc, "security")] # "reality") =>
                   \A n \in Certs : cell[Field(doc, n)] \in Paths => cell[Field(doc, n)] = q.cert

AskedIn(n) == Range(Plans[n].inbound) \cup Range(Plans[n].publication)

SameThing(p, q) ==
    p.kind = q.kind /\ IF p.kind = "setting" THEN p.key = q.key ELSE p.inbound = q.inbound

\* Of one setting or inbound a plan asks one thing: models.py refuses a second entry for an
\* inbound.  It does not refuse a second change of a path, which a dialog appends when the panel
\* has set the path back to the root; the last one then holds.
Consistent ==
    \A n \in DOMAIN Plans : \A p, q \in AskedIn(n) : SameThing(p, q) => p = q

(***************************************************************************)
(* A completed run has published what its plan asks for, as long as the    *)
(* panel has not written since the last check: the host rendered first for *)
(* an inbound, share_addr, the settings, the endpoint fields.  The check   *)
(* sees what the panel writes before our writes or after them.  Only when  *)
(* it has written the same cell before and after them can it have taken    *)
(* back what the plan asks for unnoticed: the run made no receipt, for     *)
(* there was nothing to change, and the old value is what the check        *)
(* expects.                                                                *)
(***************************************************************************)
Published ==
    outcome = "applied" /\ edits = sealed /\ twice = {} =>
        \A q \in AskedIn(runs) : Serves(q, db.cell)

\* The column of a path says what the receipt has, so that only its text can be another.
LaidOut(r) == r.kind = "transport" /\ \A c \in DOMAIN r.now : Alike(c, draft.cell[c], r.now[c])

(***************************************************************************)
(* The docstring of rollback_lucx_publication: changes are undone without  *)
(* overwriting later edits.  So when it refuses, something was edited      *)
(* after the receipts were last checked, or a later run left changes       *)
(* behind in the same cells.  A transport path is the exception: its       *)
(* receipt compares the text of the column, and an endpoint of the same    *)
(* inbound, changed or taken back, or a save of the panel, writes the same *)
(* content in another layout.  Then, and only then, it refuses although    *)
(* nobody has edited anything.                                             *)
(***************************************************************************)
RefusedOnlyAfterEdits ==
    [][stage = "undo" /\ outcome' = "refused" =>
          edits > sealed \/ lost \cap CellsOf(changes) # {} \/ LaidOut(Head(queue))]_vars

(***************************************************************************)
(* Types, and what a successful publication leaves in the database.        *)
(***************************************************************************)
Inv == TypeOK /\ Published

=============================================================================
