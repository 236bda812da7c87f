------------------------------- MODULE Sidecar -------------------------------
(***************************************************************************)
(* The subscription sidecar (assets/lucx_sub_sidecar.py): one loop that    *)
(* accepts connections, a thread for each, at most as many as there are    *)
(* slots, and between the client and the panel a rewriting that must never *)
(* cost the client its subscription.                                       *)
(*                                                                         *)
(* The panel answers from its database, and the thread reads the database  *)
(* again: the inbounds in one statement and the host row of each inbound   *)
(* in one more, without a transaction, so that each sees another version   *)
(* when the panel commits in between.                                      *)
(***************************************************************************)
EXTENDS Subscription, FiniteSets

CONSTANTS
    Requests,      \* connections of clients
    Slots,         \* MAX_CONCURRENT_REQUESTS
    Databases,     \* the versions of the panel's database: <<[inbounds, rows], ...>>
    Questions,     \* [allowed, get, throne, format, nested, items]: what a client may ask,
                   \* nested: for JSON deeper than the recursion limit
    Configurations,\* what the panel may answer when asked for an AWG configuration
    MaxFaults      \* bound on failures

NoConf == [host |-> NoHost, port |-> 0]

NoRow == [host |-> NoHost, port |-> 0]

NoRows == <<>>

ASSUME ConstantsAssumption ==
    /\ IsFiniteSet(Requests) /\ Slots \in Nat \ {0} /\ MaxFaults \in Nat
    /\ Len(Databases) \in Nat \ {0}
    /\ \A d \in 1 .. Len(Databases) :
         /\ DOMAIN Databases[d].inbounds = DOMAIN Databases[d].rows
         /\ IsFiniteSet(DOMAIN Databases[d].inbounds) /\ DOMAIN Databases[d].inbounds \subseteq Nat
         /\ \A i \in DOMAIN Databases[d].inbounds :
              /\ IsFiniteSet(Databases[d].inbounds[i].secrets)
              /\ Databases[d].inbounds[i].object \in BOOLEAN  \* its settings are a JSON object
    /\ \A q \in Questions : q.format \in Formats /\ q.nested \in BOOLEAN /\ IsText(q.items)

VARIABLES
    asks,       \* [Requests -> Questions]
    stage,      \* [Requests -> where a connection is]
    loop,       \* the connections the accepting loop has in hand: none or one
    slots,      \* _slots: what is left
    version,    \* of the database
    text,       \* [Requests -> lines of the panel's answer]
    read,       \* [Requests -> the inbounds read]
    hosts,      \* [Requests -> the host rows read, a function of the inbounds they are of]
    sent,       \* [Requests -> what was sent to the client]: [status, lines]
    began,      \* history: [Requests -> version when the thread began]
    answered,   \* history: requests that the panel has answered
    open,       \* history: requests whose rewriting has raised
    faults

client == <<asks, sent>>
server == <<loop, slots>>
work == <<text, read, hosts, began, answered, open>>
vars == <<client, stage, server, version, work, faults>>

Stages == {"new", "queued", "handshake", "accepted", "gate", "upstream", "inbounds", "hosts",
           "rewrite", "send", "finish", "done"}

Nothing == [status |-> "none", lines |-> <<>>]

Init ==
    /\ asks \in [Requests -> Questions]
    /\ stage = [r \in Requests |-> "new"]
    /\ loop = {} /\ slots = Slots /\ version = 1
    /\ text = [r \in Requests |-> <<>>] /\ read = [r \in Requests |-> <<>>]
    /\ hosts = [r \in Requests |-> NoRows]
    /\ sent = [r \in Requests |-> Nothing]
    /\ began = [r \in Requests |-> 0] /\ answered = {} /\ open = {}
    /\ faults = 0

Goto(r, from, to) == stage[r] = from /\ stage' = [stage EXCEPT ![r] = to]

Fault == faults < MaxFaults /\ faults' = faults + 1

-----------------------------------------------------------------------------
(* The accepting loop. *)

Connect(r) ==
    /\ Goto(r, "new", "queued")
    /\ UNCHANGED <<client, server, version, work, faults>>

\* The listening socket is a TLS socket: accept() also does the handshake, in the loop.
Accept(r) ==
    /\ loop = {}
    /\ Goto(r, "queued", "handshake")
    /\ loop' = {r}
    /\ UNCHANGED <<client, slots, version, work, faults>>

Handshake(r) ==
    /\ Goto(r, "handshake", "accepted")
    /\ UNCHANGED <<client, server, version, work, faults>>

\* Faulty variant: a handshake that fails ends the loop.
HandshakeFailsForAll(r) ==
    /\ Goto(r, "handshake", "done")
    /\ UNCHANGED <<client, server, version, work, faults>>

\* The client goes away, or its handshake fails.
HandshakeFails(r) ==
    /\ Goto(r, "handshake", "done")
    /\ loop' = {}
    /\ UNCHANGED <<client, slots, version, work, faults>>

\* process_request: without a slot the connection is closed, the loop never waits for one.
Dispatch(r) ==
    /\ IF slots > 0
         THEN Goto(r, "accepted", "gate") /\ slots' = slots - 1
         ELSE Goto(r, "accepted", "done") /\ slots' = slots
    /\ loop' = {}
    /\ began' = [began EXCEPT ![r] = version]
    /\ UNCHANGED <<client, version, text, read, hosts, answered, open, faults>>

\* The thread cannot be started: the slot is given back and the connection closed.
ThreadFails(r) ==
    /\ Fault /\ slots > 0
    /\ Goto(r, "accepted", "done")
    /\ loop' = {}
    /\ UNCHANGED <<client, slots, version, work>>

-----------------------------------------------------------------------------
(* Handler.proxy *)

Answer(r, status, lines) == sent' = [sent EXCEPT ![r] = [status |-> status, lines |-> lines]]

Gate(r) ==
    /\ IF asks[r].allowed
         THEN Goto(r, "gate", "upstream") /\ UNCHANGED sent
         ELSE Goto(r, "gate", "finish") /\ Answer(r, "not found", <<>>)
    /\ UNCHANGED <<asks, server, version, work, faults>>

\* The host row of an inbound in a version of the database, if it has one.
RowAt(v, i) == IF i \in DOMAIN Databases[v].rows THEN Databases[v].rows[i] ELSE NoRow

\* What the panel writes for an inbound: its public host and its internal port.
Published(item) ==
    IF item.kind # "anytls" THEN item
    ELSE LET i == item.name
             now == Databases[version]
         IN  [item EXCEPT !.host = PublicHost(now.inbounds[i], RowAt(version, i)),
                          !.port = now.inbounds[i].port]

\* The body is rewritten for a GET only.
Upstream(r) ==
    /\ text' = [text EXCEPT ![r] = [i \in DOMAIN asks[r].items |-> Published(asks[r].items[i])]]
    /\ Goto(r, "upstream", IF asks[r].get THEN "inbounds" ELSE "send")
    /\ answered' = answered \cup {r}
    /\ UNCHANGED <<client, server, version, read, hosts, began, open, faults>>

\* No answer in 15 s, a refused connection, a body that is too large.
UpstreamFails(r) ==
    /\ Fault
    /\ Goto(r, "upstream", "finish")
    /\ Answer(r, "unavailable", <<>>)
    /\ UNCHANGED <<asks, server, version, work>>

Unread(r) == Selected(read[r]) \ DOMAIN hosts[r]

ReadInbounds(r) ==
    LET now == Databases[version].inbounds
    IN  /\ Goto(r, "inbounds", IF Selected(now) = {} THEN "rewrite" ELSE "hosts")
        /\ read' = [read EXCEPT ![r] = now]
        /\ hosts' = [hosts EXCEPT ![r] = NoRows]
        /\ UNCHANGED <<client, server, version, text, began, answered, open, faults>>

\* The loop goes by id, and its settings are read when an endpoint of the inbound can be used.
NextUnread(r, i) == i \in Unread(r) /\ \A j \in Unread(r) : i <= j

Escapes(r, i) == Usable(read[r][i], RowAt(version, i)) /\ ~read[r][i].object

ReadHost(r) ==
    \E i \in Unread(r) :
        /\ NextUnread(r, i) /\ ~Escapes(r, i)
        /\ Goto(r, "hosts", IF Unread(r) = {i} THEN "rewrite" ELSE "hosts")
        /\ hosts' = [hosts EXCEPT ![r] =
                        [j \in DOMAIN hosts[r] \cup {i} |->
                            IF j = i THEN RowAt(version, i) ELSE hosts[r][j]]]
        /\ UNCHANGED <<client, server, version, text, read, began, answered, open, faults>>

\* Settings that are no object have no .get: the AttributeError is caught by nobody before the
\* thread ends, and the client gets no answer.
ReadEscapes(r) ==
    /\ \E i \in Unread(r) : NextUnread(r, i) /\ Escapes(r, i)
    /\ Goto(r, "hosts", "finish")
    /\ UNCHANGED <<client, server, version, work, faults>>

\* Faulty variant: the error of the database is not caught.
ReadFailsClosed(r) ==
    /\ Fault
    /\ stage[r] \in {"inbounds", "hosts"}
    /\ stage' = [stage EXCEPT ![r] = "finish"]
    /\ UNCHANGED <<client, server, version, work>>

\* A locked or missing database, at any statement: no endpoints, and the answer goes on.
ReadFails(r) ==
    /\ Fault
    /\ stage[r] \in {"inbounds", "hosts"}
    /\ stage' = [stage EXCEPT ![r] = "rewrite"]
    /\ hosts' = [hosts EXCEPT ![r] = NoRows]
    /\ UNCHANGED <<client, server, version, text, read, began, answered, open>>

\* load_public_endpoint_snapshot, what it returns
Snapshot(r) == Endpoints(read[r], hosts[r])

\* c: what fetch_awg_conf returns
Rewritten(r, c) ==
    CASE asks[r].format = "base64" -> Rewrite(text[r], asks[r].throne, Snapshot(r), c)
      [] asks[r].format = "yaml"   -> Injected(text[r], Snapshot(r))
      [] asks[r].format = "json"   -> Structured(text[r])
      [] asks[r].format = "plain"  -> text[r]

TooDeep(r) == asks[r].format = "json" /\ asks[r].nested

Transform(r) ==
    /\ Goto(r, "rewrite", "send") /\ ~TooDeep(r)
    /\ \E c \in IF HasAwg(text[r]) /\ asks[r].format = "base64" THEN Configurations ELSE {NoConf} :
          text' = [text EXCEPT ![r] = Rewritten(r, c)]
    /\ UNCHANGED <<client, server, version, read, hosts, began, answered, open, faults>>

\* Fail open: whatever the rewriting of a list or of YAML raises, and the errors of type or value
\* that the one of JSON raises, the body of the panel is sent.
TransformRaises(r) ==
    /\ Fault
    /\ Goto(r, "rewrite", "send") /\ ~TooDeep(r)
    /\ open' = open \cup {r}
    /\ UNCHANGED <<client, server, version, text, read, hosts, began, answered>>

\* A RecursionError is neither of type nor of value: nobody catches it before the thread ends.
TransformEscapes(r) ==
    /\ Goto(r, "rewrite", "finish") /\ TooDeep(r)
    /\ UNCHANGED <<client, server, version, work, faults>>

Send(r) ==
    /\ Goto(r, "send", "finish")
    /\ Answer(r, "ok", text[r])
    /\ UNCHANGED <<asks, server, version, work, faults>>

\* process_request_thread, finally
Finish(r) ==
    /\ Goto(r, "finish", "done")
    /\ slots' = slots + 1
    /\ UNCHANGED <<client, loop, version, work, faults>>

\* The panel commits.
Commit ==
    /\ version < Len(Databases)
    /\ version' = version + 1
    /\ UNCHANGED <<client, stage, server, work, faults>>

Thread(r) ==
    \/ Gate(r) \/ Upstream(r) \/ ReadInbounds(r) \/ ReadHost(r) \/ ReadEscapes(r)
    \/ Transform(r) \/ TransformEscapes(r) \/ Send(r) \/ Finish(r)

Next ==
    \/ \E r \in Requests :
         \/ Connect(r) \/ Accept(r) \/ Handshake(r) \/ HandshakeFails(r) \/ Dispatch(r)
         \/ ThreadFails(r) \/ Thread(r)
         \/ UpstreamFails(r) \/ ReadFails(r) \/ TransformRaises(r)
    \/ Commit

\* The loop and the threads run; a client that has connected goes on or goes away.
Fairness ==
    \A r \in Requests :
        /\ WF_vars(Accept(r)) /\ WF_vars(Dispatch(r)) /\ WF_vars(Thread(r))
        /\ WF_vars(Handshake(r) \/ HandshakeFails(r))

Spec == Init /\ [][Next]_vars /\ Fairness

-----------------------------------------------------------------------------
InThread == {"gate", "upstream", "inbounds", "hosts", "rewrite", "send", "finish"}

TypeOK ==
    /\ stage \in [Requests -> Stages]
    /\ loop \subseteq Requests /\ Cardinality(loop) <= 1
    /\ slots \in 0 .. Slots /\ version \in 1 .. Len(Databases)
    /\ \A r \in Requests : \A i \in DOMAIN text[r] : text[r][i].kind \in Kinds
    /\ answered \subseteq Requests /\ open \subseteq Requests /\ faults \in 0 .. MaxFaults

(***************************************************************************)
(* No slot is lost or given back twice, whatever fails: otherwise the      *)
(* sidecar would end up closing every connection, or start any number of   *)
(* threads.                                                                *)
(***************************************************************************)
SlotsBalanced == slots + Cardinality({r \in Requests : stage[r] \in InThread}) = Slots

\* The two errors that no handler of the sidecar catches.
Escaped(r) == TooDeep(r) \/ \E i \in Selected(read[r]) : ~read[r][i].object

(***************************************************************************)
(* Fail open: once the panel has answered, the client gets an answer,      *)
(* whatever fails in the database, in the rewriting or in between, unless  *)
(* the settings of an inbound are no JSON object or the answer is JSON     *)
(* nested too deep: these two leave the client with a closed connection.   *)
(* A refusal says why: who may not ask is not told whether the panel is up *)
(* and nobody is told that it is down once it has answered.                *)
(***************************************************************************)
FailsOpen ==
    \A r \in Requests :
        /\ r \in answered /\ stage[r] = "done" => sent[r].status = "ok" \/ Escaped(r)
        /\ sent[r].status = "not found" => ~asks[r].allowed
        /\ sent[r].status = "unavailable" => asks[r].allowed /\ r \notin answered

(***************************************************************************)
(* No answer that was rewritten has qWDTT, TrustTunnel over QUIC or an     *)
(* unreadable deep link, for any client, in the encoded format or in JSON. *)
(* (A list of links as plain text is passed on as it is.)                  *)
(***************************************************************************)
NeverPublished ==
    \A r \in Requests :
        asks[r].format \in {"base64", "json"} /\ asks[r].get /\ r \notin open =>
            \A i \in DOMAIN sent[r].lines : sent[r].lines[i].kind \notin Unpublished

(***************************************************************************)
(* Nothing else is lost: every line that may be published comes out under  *)
(* its own name (a deep link without address or user is of no use to       *)
(* Throne), what comes out is in the order of the panel, and no line comes *)
(* twice.                                                                  *)
(***************************************************************************)
NothingLost ==
    \A r \in Requests : sent[r].status = "ok" /\ asks[r].format = "base64" /\ asks[r].get /\ r \notin open =>
        LET items == asks[r].items
            out == sent[r].lines
        IN  /\ \A i, j \in DOMAIN out : out[i] = out[j] => i = j
            /\ \A i \in DOMAIN items : ~Dropped(items[i], asks[r].throne) =>
                  \E j \in DOMAIN out : out[j].name = items[i].name
            /\ \E from \in [DOMAIN out -> DOMAIN items] :
                  /\ \A i \in DOMAIN out : out[i].name = items[from[i]].name
                  /\ \A i, j \in DOMAIN out : i < j => from[i] < from[j]

EndpointAt(i, v, w) ==
    LET inbound == Databases[v].inbounds[i] row == RowAt(w, i)
    IN  <<PublicHost(inbound, row), PublicPort(inbound, row)>>

(***************************************************************************)
(* An AnyTLS link leads to the public endpoint that its own inbound had    *)
(* while the request was served, never to that of another one, although    *)
(* the panel may commit between its answer and each of the readings (and   *)
(* stays as the panel wrote it when the endpoints could not be read).      *)
(***************************************************************************)
OwnEndpoint ==
    \A r \in Requests : sent[r].status = "ok" /\ asks[r].format = "base64" /\ asks[r].get
                        /\ r \notin open /\ Snapshot(r) # {} =>
        \A k \in DOMAIN sent[r].lines :
            LET line == sent[r].lines[k] IN
            line.kind = "anytls" =>
                \E v, w \in began[r] .. version : <<line.host, line.port>> = EndpointAt(line.name, v, w)

InternalPort(i, v) == Databases[v].inbounds[i].port

(***************************************************************************)
(* When the score finds the inbound of a link: while a request is served   *)
(* the inbound stays published and keeps its internal port, no other       *)
(* AnyTLS inbound has that port, and a host it gives up goes to no other,  *)
(* from whatever versions the rows of the two are read.  Inbounds may      *)
(* share a host, and a public port may be the internal port of another     *)
(* one.                                                                    *)
(***************************************************************************)
Steady ==
    \A q \in Questions : \A n \in DOMAIN q.items : q.items[n].kind = "anytls" =>
        LET i == q.items[n].name IN
        \A v, w, x, y \in 1 .. Len(Databases) : v <= w /\ w <= x /\ w <= y =>
            LET found == Databases[w].inbounds IN
            /\ i \in Selected(found) /\ found[i].proto = "anytls" /\ Usable(found[i], RowAt(x, i))
            /\ InternalPort(i, v) # 0 /\ InternalPort(i, w) = InternalPort(i, v)
            /\ \A j \in Selected(found) \ {i} :
                  found[j].proto = "anytls" /\ Usable(found[j], RowAt(y, j)) =>
                    /\ InternalPort(j, w) # InternalPort(i, v)
                    /\ EndpointAt(j, w, y)[1] = EndpointAt(i, v, v)[1] =>
                          EndpointAt(i, w, x)[1] = EndpointAt(i, v, v)[1]

(***************************************************************************)
(* Every connection comes to its end: answered, or closed.                 *)
(***************************************************************************)
EveryoneServed == \A r \in Requests : stage[r] = "queued" ~> stage[r] = "done"

(***************************************************************************)
(* Types, slots and failures together: whatever the thread, the panel or   *)
(* the database does, the slots add up and whoever is not answered has one *)
(* of the causes there are.                                                *)
(***************************************************************************)
Inv == TypeOK /\ SlotsBalanced /\ FailsOpen

(***************************************************************************)
(* What may be published reaches the client, once and in order, and        *)
(* nothing else does.                                                      *)
(***************************************************************************)
Delivered == NeverPublished /\ NothingLost

=============================================================================
