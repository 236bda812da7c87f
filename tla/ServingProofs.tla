---------------------------- MODULE ServingProofs ----------------------------
(***************************************************************************)
(* Proofs about what serves the clients: the Subscription sidecar, which   *)
(* hands out the links, and Frontend, which answers to them.  The two have *)
(* no variable in common; the second part begins at "Frontend".            *)
(*                                                                         *)
(* Sidecar, for any number of connections, slots and failures, any answers *)
(* of the panel and any versions of its database.                          *)
(* The slots add up because a connection enters a thread in one step and   *)
(* leaves it in one step, each with a slot.  A refusal has its cause       *)
(* because the gate comes before the panel: whoever is past it was let in. *)
(* Who is not refused is answered because a thread that the panel has      *)
(* answered ends by sending or by one of the two errors that nobody        *)
(* catches (Heard).                                                        *)
(* What is delivered rests on the rewriting itself, one line at a time:    *)
(* the lines written for the first n lines of the panel carry the names    *)
(* of those that were not dropped, once and in their order, and the line   *)
(* n + 1 adds at most one.  The rewriting is a recursive function, and     *)
(* what holds of it is proved by induction from the well-foundedness of <  *)
(* (NatInd), after Recursion has shown that such a function exists.        *)
(* Where an AnyTLS link leads rests on the score (OwnScore): the version   *)
(* the panel answered from comes before that of the inbounds, and each     *)
(* host row is of a version of its own after that (Versioned, Dated); with *)
(* inbounds that are Steady the own endpoint has the best score.           *)
(*                                                                         *)
(* Frontend, for any inbounds, sources, settings and edits: what is put in *)
(* force was decided from the present panel and sources, and it keeps the  *)
(* panel sheltered, the listeners apart and the firewall in step with      *)
(* them.  The saved routes and names may be edited at will: the invariants *)
(* say only that the files of a run are those that are rendered from some  *)
(* plan for inbounds the panel had, with routes decided again from the     *)
(* facts.                                                                  *)
(* A client reaches its inbound because the decisions are one for an       *)
(* inbound (OneEach), what is not refused is kept (KeptHas), and an own    *)
(* entry is the only one for its name on its port (OwnDecides); what       *)
(* listens behind that entry knows the client (ClientBehind).  A browser   *)
(* gets its site because every inbound that can be entered for a covered   *)
(* domain is ready (CoveredSays) and hands a browser on (SiteBehind).      *)
(***************************************************************************)

EXTENDS Sidecar, Frontend, FiniteSetTheorems, WellFoundedInduction, TLAPS

InThreads == {r \in Requests : stage[r] \in InThread}

\* Past the gate, before an answer.
Past == {"upstream", "inbounds", "hosts", "rewrite", "send"}

LetIn == \A r \in Requests : stage[r] \in Past => asks[r].allowed

\* Before the panel is asked, or while it is.
Early == {"new", "queued", "handshake", "accepted", "gate", "upstream"}

Ended == {"finish", "done"}

\* What a client has been told, and what its thread may still tell it.
Heard(r) ==
    /\ stage[r] \in Early => r \notin answered
    /\ stage[r] \notin Ended => sent[r].status = "none"
    /\ stage[r] \in Ended /\ r \in answered => sent[r].status = "ok" \/ Escaped(r)
    /\ sent[r].status = "not found" => ~asks[r].allowed
    /\ sent[r].status = "unavailable" => asks[r].allowed /\ r \notin answered

Counted == slots \in Nat /\ SlotsBalanced

Placed == stage \in [Requests -> Stages] /\ DOMAIN sent = Requests /\ DOMAIN read = Requests

IInv == Placed /\ Counted /\ LetIn /\ \A r \in Requests : Heard(r)

-----------------------------------------------------------------------------
(* Slots *)

LEMMA ThreadsFinite == IsFiniteSet(InThreads) /\ Cardinality(InThreads) \in Nat
<1>1. IsFiniteSet(InThreads)
  BY ConstantsAssumption, FS_Subset DEF InThreads
<1> QED
  BY <1>1, FS_CardinalityType

LEMMA Enters ==
    ASSUME Counted, NEW r \in Requests, r \notin InThreads, InThreads' = InThreads \cup {r},
           slots > 0, slots' = slots - 1
    PROVE  Counted'
<1>1. Cardinality(InThreads') = Cardinality(InThreads) + 1
  BY ThreadsFinite, FS_AddElement
<1>2. Cardinality(InThreads') \in Nat
  BY <1>1, ThreadsFinite
<1>3. slots + Cardinality(InThreads) = Slots
  BY DEF Counted, SlotsBalanced, InThreads
<1>4. slots' + Cardinality(InThreads') = Slots
  BY <1>1, <1>3, ThreadsFinite DEF Counted
<1> QED
  BY <1>4 DEF Counted, SlotsBalanced, InThreads

LEMMA Leaves ==
    ASSUME Counted, NEW r \in Requests, r \in InThreads, InThreads' = InThreads \ {r},
           slots' = slots + 1
    PROVE  Counted'
<1>1. Cardinality(InThreads') = Cardinality(InThreads) - 1
  BY ThreadsFinite, FS_RemoveElement
<1>2. slots + Cardinality(InThreads) = Slots
  BY DEF Counted, SlotsBalanced, InThreads
<1>3. slots' + Cardinality(InThreads') = Slots
  BY <1>1, <1>2, ThreadsFinite DEF Counted
<1> QED
  BY <1>3 DEF Counted, SlotsBalanced, InThreads

LEMMA Remains == ASSUME Counted, InThreads' = InThreads, slots' = slots PROVE Counted'
  BY DEF Counted, SlotsBalanced, InThreads

-----------------------------------------------------------------------------
(* The steps of one connection *)

\* Before it has a thread, or while it has one, no slot changes hands.
LEMMA SameThreads ==
    ASSUME Placed, NEW r \in Requests, NEW from, NEW to, Goto(r, from, to),
           from \in InThread <=> to \in InThread
    PROVE  InThreads' = InThreads
  BY DEF Placed, Goto, InThreads

LEMMA StagesKept ==
    ASSUME Placed, NEW r \in Requests, NEW from, NEW to \in Stages, Goto(r, from, to)
    PROVE  /\ stage' \in [Requests -> Stages]
           /\ stage'[r] = to /\ \A q \in Requests \ {r} : stage'[q] = stage[q]
  BY DEF Placed, Goto

\* A connection the step is not about.
LEMMA HeardBeside ==
    ASSUME NEW q \in Requests, Heard(q),
           stage'[q] = stage[q] /\ sent'[q] = sent[q] /\ read'[q] = read[q],
           asks' = asks, q \in answered' <=> q \in answered
    PROVE  Heard(q)'
  BY DEF Heard, Escaped, TooDeep

LEMMA Waiting ==
    ASSUME IInv, NEW r \in Requests,
           Connect(r) \/ Accept(r) \/ Handshake(r) \/ HandshakeFails(r) \/ ThreadFails(r)
    PROVE  IInv'
<1>1. PICK from \in {"new", "queued", "handshake", "accepted"},
           to \in {"queued", "handshake", "accepted", "done"} : Goto(r, from, to)
  BY DEF Connect, Accept, Handshake, HandshakeFails, ThreadFails
<1>2. UNCHANGED <<asks, sent, slots, read, answered>>
  BY DEF Connect, Accept, Handshake, HandshakeFails, ThreadFails, client, server, work
<1>3. from \notin InThread /\ to \notin InThread /\ to \notin Past /\ to \in Stages
  BY DEF InThread, Past, Stages
<1>4. InThreads' = InThreads /\ Counted'
  BY <1>1, <1>2, <1>3, SameThreads, Remains DEF IInv
<1>5. /\ stage' \in [Requests -> Stages]
      /\ stage'[r] = to /\ \A q \in Requests \ {r} : stage'[q] = stage[q]
  BY <1>1, <1>3, StagesKept DEF IInv
<1>6. LetIn'
  BY <1>2, <1>3, <1>5 DEF IInv, LetIn
<1>7. stage[r] \in Early /\ stage[r] \notin Ended
  BY <1>1 DEF Goto, Early, Ended
<1>8. Heard(r)'
  BY <1>2, <1>7 DEF IInv, Heard
<1>9. \A q \in Requests : Heard(q)'
  BY <1>2, <1>5, <1>8, HeardBeside DEF IInv
<1> QED
  BY <1>2, <1>4, <1>5, <1>6, <1>9 DEF IInv, Placed

LEMMA DispatchStep == ASSUME IInv, NEW r \in Requests, Dispatch(r) PROVE IInv'
<1>1. UNCHANGED <<asks, sent, read, answered>>
  BY DEF Dispatch, client
<1>2. "accepted" \notin InThread /\ "done" \notin InThread /\ "gate" \in InThread
      /\ {"gate", "done"} \subseteq Stages /\ "gate" \notin Past /\ "done" \notin Past
  BY DEF InThread, Past, Stages
<1>3. PICK to \in {"gate", "done"} : Goto(r, "accepted", to)
  BY DEF Dispatch
<1>4. /\ stage' \in [Requests -> Stages]
      /\ stage'[r] = to /\ \A q \in Requests \ {r} : stage'[q] = stage[q]
  BY <1>2, <1>3, StagesKept DEF IInv
<1>5. Counted'
  <2>1. CASE slots > 0
    <3>1. Goto(r, "accepted", "gate") /\ slots' = slots - 1
      BY <2>1 DEF Dispatch
    <3>2. r \notin InThreads /\ InThreads' = InThreads \cup {r}
      BY <1>2, <3>1 DEF Goto, InThreads, IInv, Placed
    <3> QED
      BY <2>1, <3>1, <3>2, Enters DEF IInv
  <2>2. CASE ~(slots > 0)
    <3>1. Goto(r, "accepted", "done") /\ slots' = slots
      BY <2>2 DEF Dispatch
    <3> QED
      BY <1>2, <3>1, SameThreads, Remains DEF IInv
  <2> QED
    BY <2>1, <2>2
<1>6. LetIn'
  BY <1>1, <1>2, <1>3, <1>4 DEF IInv, LetIn
<1>7. stage[r] \in Early /\ stage[r] \notin Ended
  BY <1>3 DEF Goto, Early, Ended
<1>8. Heard(r)'
  BY <1>1, <1>7 DEF IInv, Heard
<1>9. \A q \in Requests : Heard(q)'
  BY <1>1, <1>4, <1>8, HeardBeside DEF IInv
<1> QED
  BY <1>1, <1>4, <1>5, <1>6, <1>9 DEF IInv, Placed

\* From the panel's answer to what is sent: nothing is answered yet, and who is let in stays so.
LEMMA Working ==
    ASSUME IInv, NEW r \in Requests,
           \/ Upstream(r) \/ ReadInbounds(r) \/ ReadHost(r) \/ ReadFails(r) \/ Transform(r)
           \/ TransformRaises(r)
    PROVE  IInv'
<1>1. PICK from \in Past, to \in Past \ {"upstream"} : Goto(r, from, to)
  BY DEF Upstream, ReadInbounds, ReadHost, ReadFails, Transform, TransformRaises, Past, Goto
<1>2. UNCHANGED <<asks, sent, slots>>
  BY DEF Upstream, ReadInbounds, ReadHost, ReadFails, Transform, TransformRaises, client, server
<1>3. from \in InThread /\ to \in InThread /\ to \in Stages
  BY <1>1 DEF InThread, Past, Stages
<1>4. Counted'
  BY <1>1, <1>2, <1>3, SameThreads, Remains DEF IInv
<1>5. /\ stage' \in [Requests -> Stages]
      /\ stage'[r] = to /\ \A q \in Requests \ {r} : stage'[q] = stage[q]
  BY <1>1, <1>3, StagesKept DEF IInv
<1>6. stage[r] \in Past
  BY <1>1 DEF Goto
<1>7. LetIn'
  BY <1>1, <1>2, <1>5, <1>6 DEF IInv, LetIn
<1>8. /\ DOMAIN read' = Requests /\ \A q \in Requests \ {r} : read'[q] = read[q]
      /\ \A q \in Requests \ {r} : q \in answered' <=> q \in answered
  BY DEF IInv, Placed, Upstream, ReadInbounds, ReadHost, ReadFails, Transform, TransformRaises, work
<1>9. Heard(r)'
  <2>1. stage[r] \notin Ended /\ stage'[r] \notin Ended /\ stage'[r] \notin Early
    BY <1>1, <1>5, <1>6 DEF Past, Ended, Early
  <2> QED
    BY <1>2, <2>1 DEF IInv, Heard
<1>10. \A q \in Requests : Heard(q)'
  BY <1>2, <1>5, <1>8, <1>9, HeardBeside DEF IInv
<1> QED
  BY <1>2, <1>4, <1>5, <1>7, <1>8, <1>10 DEF IInv, Placed

\* The errors that nobody catches end a thread as an answer does.
LEMMA Escaping ==
    ASSUME IInv, NEW r \in Requests, ReadEscapes(r) \/ TransformEscapes(r)
    PROVE  IInv'
<1>1. PICK from \in {"hosts", "rewrite"} : Goto(r, from, "finish")
  BY DEF ReadEscapes, TransformEscapes
<1>2. UNCHANGED <<asks, sent, slots, read, answered>>
  BY DEF ReadEscapes, TransformEscapes, client, server, work
<1>3. from \in InThread /\ "finish" \in InThread /\ "finish" \in Stages /\ "finish" \notin Past
  BY <1>1 DEF InThread, Past, Stages
<1>4. Counted'
  BY <1>1, <1>2, <1>3, SameThreads, Remains DEF IInv
<1>5. /\ stage' \in [Requests -> Stages]
      /\ stage'[r] = "finish" /\ \A q \in Requests \ {r} : stage'[q] = stage[q]
  BY <1>1, <1>3, StagesKept DEF IInv
<1>6. LetIn'
  BY <1>2, <1>3, <1>5 DEF IInv, LetIn
<1>7. Escaped(r)'
  <2>1. CASE ReadEscapes(r)
    BY <1>2, <2>1 DEF ReadEscapes, Escaped, Escapes, NextUnread, Unread, TooDeep
  <2>2. CASE TransformEscapes(r)
    BY <1>2, <2>2 DEF TransformEscapes, Escaped, TooDeep
  <2> QED
    BY <2>1, <2>2
<1>8. Heard(r)'
  <2>1. stage[r] \notin Ended /\ stage'[r] \notin Early
    BY <1>1, <1>5 DEF Goto, Ended, Early
  <2> QED
    BY <1>2, <1>7, <2>1 DEF IInv, Heard
<1>9. \A q \in Requests : Heard(q)'
  BY <1>2, <1>5, <1>8, HeardBeside DEF IInv
<1> QED
  BY <1>2, <1>4, <1>5, <1>6, <1>9 DEF IInv, Placed

LEMMA Answering ==
    ASSUME IInv, NEW r \in Requests, Gate(r) \/ UpstreamFails(r) \/ Send(r)
    PROVE  IInv'
<1>1. PICK from \in {"gate", "upstream", "send"}, to \in {"upstream", "finish"} : Goto(r, from, to)
  BY DEF Gate, UpstreamFails, Send
<1>2. UNCHANGED <<asks, slots, read, answered>>
  BY DEF Gate, UpstreamFails, Send, server, work
<1>3. from \in InThread /\ to \in InThread /\ to \in Stages /\ "finish" \notin Past
  BY <1>1 DEF InThread, Past, Stages
<1>4. Counted'
  BY <1>1, <1>2, <1>3, SameThreads, Remains DEF IInv
<1>5. /\ stage' \in [Requests -> Stages]
      /\ stage'[r] = to /\ \A q \in Requests \ {r} : stage'[q] = stage[q]
  BY <1>1, <1>3, StagesKept DEF IInv
<1>6. Heard(r) /\ DOMAIN sent = Requests
  BY DEF IInv, Placed
<1>7. /\ Heard(r)' /\ DOMAIN sent' = Requests /\ \A q \in Requests \ {r} : sent'[q] = sent[q]
      /\ stage'[r] \in Past => asks[r].allowed
  <2>1. CASE Gate(r)
    <3>1. stage[r] = "gate"
      BY <2>1, Zenon DEF Gate, Goto
    <3>2. r \notin answered /\ sent[r].status = "none"
      BY <1>6, <3>1 DEF Heard, Early, Ended
    <3>3. CASE asks[r].allowed
      <4>1. sent' = sent /\ Goto(r, "gate", "upstream")
        BY <2>1, <3>3, Zenon DEF Gate
      <4>2. stage'[r] = "upstream"
        BY <4>1, StagesKept DEF IInv, Stages
      <4>3. Heard(r)'
        BY <1>2, <3>2, <4>1, <4>2 DEF Heard, Early, Ended
      <4> QED
        BY <1>6, <3>3, <4>1, <4>3
    <3>4. CASE ~asks[r].allowed
      <4>1. Answer(r, "not found", <<>>) /\ Goto(r, "gate", "finish")
        BY <2>1, <3>4, Zenon DEF Gate
      <4>2. stage'[r] = "finish"
        BY <4>1, StagesKept DEF IInv, Stages
      <4>3. sent'[r].status = "not found" /\ DOMAIN sent' = Requests
            /\ \A q \in Requests \ {r} : sent'[q] = sent[q]
        BY <1>6, <4>1 DEF Answer
      <4>4. Heard(r)'
        BY <1>2, <3>2, <3>4, <4>2, <4>3 DEF Heard, Early, Ended
      <4> QED
        BY <1>3, <4>2, <4>3, <4>4
    <3> QED
      BY <3>3, <3>4
  <2>2. CASE UpstreamFails(r)
    <3>1. stage[r] = "upstream" /\ stage'[r] = "finish"
      BY <2>2, StagesKept DEF UpstreamFails, Goto, IInv, Stages
    <3>2. asks[r].allowed /\ r \notin answered
      BY <1>6, <3>1 DEF IInv, LetIn, Past, Heard, Early
    <3>3. sent'[r].status = "unavailable" /\ DOMAIN sent' = Requests
          /\ \A q \in Requests \ {r} : sent'[q] = sent[q]
      BY <1>6, <2>2 DEF UpstreamFails, Answer
    <3>4. Heard(r)'
      BY <1>2, <3>1, <3>2, <3>3 DEF Heard, Early, Ended
    <3> QED
      BY <3>2, <3>3, <3>4
  <2>3. CASE Send(r)
    <3>1. stage'[r] = "finish"
      BY <2>3, StagesKept DEF Send, IInv, Stages
    <3>2. sent'[r].status = "ok" /\ DOMAIN sent' = Requests
          /\ \A q \in Requests \ {r} : sent'[q] = sent[q]
      BY <1>6, <2>3 DEF Send, Answer
    <3>3. Heard(r)'
      BY <1>2, <3>1, <3>2 DEF Heard, Early, Ended
    <3> QED
      BY <1>3, <3>1, <3>2, <3>3
  <2> QED
    BY <2>1, <2>2, <2>3
<1>8. \A q \in Requests : Heard(q)'
  BY <1>2, <1>5, <1>7, HeardBeside DEF IInv
<1>9. LetIn'
  BY <1>2, <1>5, <1>7 DEF IInv, LetIn
<1> QED
  BY <1>2, <1>4, <1>5, <1>7, <1>8, <1>9 DEF IInv, Placed

LEMMA FinishStep == ASSUME IInv, NEW r \in Requests, Finish(r) PROVE IInv'
<1>1. Goto(r, "finish", "done") /\ slots' = slots + 1 /\ UNCHANGED <<asks, sent, read, answered>>
  BY DEF Finish, client, work
<1>2. "finish" \in InThread /\ "done" \notin InThread /\ "done" \notin Past /\ "done" \in Stages
  BY DEF InThread, Past, Stages
<1>3. /\ stage' \in [Requests -> Stages]
      /\ stage'[r] = "done" /\ \A q \in Requests \ {r} : stage'[q] = stage[q]
  BY <1>1, <1>2, StagesKept DEF IInv
<1>4. r \in InThreads /\ InThreads' = InThreads \ {r}
  BY <1>1, <1>2 DEF Goto, InThreads, IInv, Placed
<1>5. Counted'
  BY <1>1, <1>4, Leaves DEF IInv
<1>6. LetIn'
  BY <1>1, <1>2, <1>3 DEF IInv, LetIn
<1>7. Escaped(r)' <=> Escaped(r)
  BY <1>1 DEF Escaped, TooDeep
<1>8. Heard(r)'
  BY <1>1, <1>3, <1>7 DEF IInv, Heard, Goto, Early, Ended
<1>9. \A q \in Requests : Heard(q)'
  BY <1>1, <1>3, <1>8, HeardBeside DEF IInv
<1> QED
  BY <1>1, <1>3, <1>5, <1>6, <1>9 DEF IInv, Placed

LEMMA InitIInv == Init => IInv
<1> SUFFICES ASSUME Init PROVE IInv
  OBVIOUS
<1>1. /\ stage = [r \in Requests |-> "new"] /\ slots = Slots /\ sent = [r \in Requests |-> Nothing]
      /\ DOMAIN read = Requests /\ answered = {}
  BY DEF Init
<1>2. "new" \notin InThread /\ "new" \notin Past /\ "new" \in Stages
  BY DEF InThread, Past, Stages
<1>3. InThreads = {}
  BY <1>1, <1>2 DEF InThreads
<1>4. Counted
  <2>1. Cardinality(InThreads) = 0
    BY <1>3, FS_EmptySet
  <2>2. Slots \in Nat
    BY ConstantsAssumption
  <2>3. slots + Cardinality(InThreads) = Slots
    BY <1>1, <2>1, <2>2
  <2> QED
    BY <1>1, <2>2, <2>3 DEF Counted, SlotsBalanced, InThreads
<1> QED
  BY <1>1, <1>2, <1>4 DEF IInv, Placed, LetIn, Heard, Nothing, Ended

LEMMA Invariant == Spec => []IInv
<1>1. ASSUME IInv, [Next]_vars PROVE IInv'
  <2>1. CASE Commit \/ UNCHANGED vars
    <3>1. UNCHANGED <<asks, sent, stage, slots, read, answered>>
      BY <2>1 DEF Commit, vars, client, server, work
    <3>2. \A q \in Requests : Heard(q)'
      BY <1>1, <3>1, HeardBeside DEF IInv
    <3> QED
      BY <1>1, <3>1, <3>2 DEF IInv, Placed, Counted, SlotsBalanced, LetIn
  <2>2. ASSUME NEW r \in Requests,
               \/ Connect(r) \/ Accept(r) \/ Handshake(r) \/ HandshakeFails(r) \/ Dispatch(r)
               \/ ThreadFails(r) \/ Thread(r)
               \/ UpstreamFails(r) \/ ReadFails(r) \/ TransformRaises(r)
        PROVE  IInv'
    BY <1>1, <2>2, Waiting, DispatchStep, Working, Escaping, Answering,
       FinishStep DEF Thread
  <2> QED
    BY <1>1, <2>1, <2>2 DEF Next
<1> QED
  BY InitIInv, <1>1, PTL DEF Spec

(***************************************************************************)
(* However many clients come and whatever fails: no slot is lost and none  *)
(* is given back twice.                                                    *)
(***************************************************************************)
THEOREM SlotsAddUp == Spec => []SlotsBalanced
<1>1. IInv => SlotsBalanced
  BY DEF IInv, Counted
<1> QED
  BY Invariant, <1>1, PTL

(***************************************************************************)
(* Whatever the database and the rewriting do: once the panel has answered *)
(* the client gets an answer, except after the two errors that nobody      *)
(* catches, and a refusal has its own cause.                               *)
(***************************************************************************)
THEOREM OpenOnFailure == Spec => []FailsOpen
<1>1. IInv => FailsOpen
  BY DEF IInv, FailsOpen, Heard, Ended
<1> QED
  BY Invariant, <1>1, PTL

-----------------------------------------------------------------------------
(* The treatment of the lines *)

\* Induction, for a set instead of a predicate.
LEMMA NatInd ==
    ASSUME NEW S, 0 \in S, \A n \in Nat : n \in S => n + 1 \in S
    PROVE  \A n \in Nat : n \in S
<1> DEFINE R == OpToRel(<, Nat)
<1>1. SUFFICES ASSUME Nat \ S # {} PROVE FALSE
  OBVIOUS
<1>2. \E x \in Nat \ S : \A y \in Nat \ S : ~ (<<y, x>> \in R)
  <2>1. IsWellFoundedOn(R, Nat)
    BY NatLessThanWellFounded
  <2> HIDE DEF R
  <2> QED
    BY <1>1, <2>1, WFMin
<1>3. PICK x \in Nat \ S : \A y \in Nat \ S : ~ (y < x)
  BY <1>2 DEF OpToRel
<1>4. x # 0 /\ x - 1 \in Nat /\ x - 1 < x
  BY <1>3
<1>5. x - 1 \in S
  BY <1>3, <1>4
<1>6. (x - 1) + 1 \in S
  BY <1>4, <1>5
<1> QED
  BY <1>3, <1>6

\* A function defined by recursion from given steps exists.
Steps(N, T) == [1 .. N -> [T -> T]]

Follows(f, N, T, b, F) ==
    f \in [0 .. N -> T] /\ f[0] = b /\ \A n \in 1 .. N : f[n] = F[n][f[n - 1]]

LEMMA Recursion ==
    ASSUME NEW N \in Nat, NEW T, NEW b \in T, NEW F \in Steps(N, T)
    PROVE  \E f : Follows(f, N, T, b, F)
<1> USE DEF Steps
<1> DEFINE S == {m \in Nat : m <= N => \E f \in [0 .. m -> T] :
                    f[0] = b /\ \A n \in 1 .. m : f[n] = F[n][f[n - 1]]}
<1>1. 0 \in S
  <2> DEFINE f == [n \in 0 .. 0 |-> b]
  <2>1. f \in [0 .. 0 -> T] /\ f[0] = b /\ \A n \in 1 .. 0 : f[n] = F[n][f[n - 1]]
    OBVIOUS
  <2> QED
    BY <2>1
<1>2. ASSUME NEW m \in Nat, m \in S PROVE m + 1 \in S
  <2> SUFFICES ASSUME m + 1 <= N
               PROVE  \E f \in [0 .. m + 1 -> T] :
                        f[0] = b /\ \A n \in 1 .. m + 1 : f[n] = F[n][f[n - 1]]
    OBVIOUS
  <2>1. m <= N
    OBVIOUS
  <2>2. PICK g \in [0 .. m -> T] : g[0] = b /\ \A n \in 1 .. m : g[n] = F[n][g[n - 1]]
    BY <1>2, <2>1
  <2> DEFINE f == [n \in 0 .. m + 1 |-> IF n = m + 1 THEN F[m + 1][g[m]] ELSE g[n]]
  <2>3. F[m + 1][g[m]] \in T
    BY <2>2
  <2>4. f \in [0 .. m + 1 -> T] /\ f[0] = b
    BY <2>2, <2>3
  <2>5. ASSUME NEW n \in 1 .. m + 1 PROVE f[n] = F[n][f[n - 1]]
    <3>1. CASE n = m + 1
      <4>1. f[n - 1] = g[m] /\ f[n] = F[n][g[m]]
        BY <3>1
      <4> QED
        BY <4>1
    <3>2. CASE n # m + 1
      <4>1. n \in 1 .. m /\ f[n] = g[n] /\ f[n - 1] = g[n - 1]
        BY <3>2
      <4> QED
        BY <2>2, <4>1
    <3> QED
      BY <3>1, <3>2
  <2> HIDE DEF f
  <2> QED
    BY <2>4, <2>5
<1> HIDE DEF S
<1>3. N \in S
  BY <1>1, <1>2, NatInd
<1> QED
  BY <1>3 DEF S, Follows

Shape(l) == DOMAIN l = {"kind", "host", "port", "name"} /\ l.kind \in Kinds

LEMMA LineKeeps ==
    ASSUME NEW l, Shape(l), NEW throne, ~Dropped(l, throne), NEW es, NEW cf
    PROVE  LET m == Line(l, throne, es, cf)
           IN  m.name = l.name /\ m.kind \in Kinds \ Unpublished
<1>0. /\ l.kind \in Kinds \ Unpublished
      /\ {"tt", "vmess-uri", "wg", "mieru"} \subseteq Kinds \ Unpublished
  BY DEF Shape, Dropped, Kinds, Unpublished
<1>1. \A k \in Kinds \ Unpublished : \A h, p :
        /\ [l EXCEPT !.kind = k].name = l.name /\ [l EXCEPT !.kind = k].kind = k
        /\ [l EXCEPT !.host = h, !.port = p].name = l.name
        /\ [l EXCEPT !.host = h, !.port = p].kind = l.kind
        /\ [l EXCEPT !.port = p].name = l.name /\ [l EXCEPT !.port = p].kind = l.kind
        /\ DOMAIN [l EXCEPT !.port = p] = {"kind", "host", "port", "name"}
        /\ [l EXCEPT !.kind = k, !.host = h, !.port = p].name = l.name
        /\ [l EXCEPT !.kind = k, !.host = h, !.port = p].kind = k
  BY DEF Shape
<1> DEFINE Good(m) == m.name = l.name /\ m.kind \in Kinds \ Unpublished
<1>2. Good(ThroneLink(l)) /\ Good(VmessUri(l)) /\ Good(AwgUri(l, cf)) /\ Good(l)
  BY <1>0, <1>1 DEF ThroneLink, VmessUri, AwgUri
<1>3. Good(AnyTls(l, es))
  BY <1>0, <1>1 DEF AnyTls
<1>4. Good(MieruRange(l, es)) /\ DOMAIN MieruRange(l, es) = {"kind", "host", "port", "name"}
  BY <1>0, <1>1 DEF MieruRange, Shape
<1>5. Good(Unescaped(MieruRange(l, es)))
  <2> DEFINE m == MieruRange(l, es)
  <2>1. DOMAIN m = {"kind", "host", "port", "name"} /\ m.name = l.name
    BY <1>4
  <2> HIDE DEF m
  <2>2. [m EXCEPT !.kind = "mieru"].name = l.name /\ [m EXCEPT !.kind = "mieru"].kind = "mieru"
    BY <2>1
  <2> QED
    BY <1>0, <2>2 DEF Unescaped, m
<1> HIDE DEF Good
<1>6. Good(Line(l, throne, es, cf))
  BY <1>2, <1>3, <1>4, <1>5 DEF Line
<1> QED
  BY <1>6 DEF Good

\* The lines that come out for the first n lines that went in.
Fits(items, throne, n, out) ==
    /\ \A i \in DOMAIN out : out[i].kind \in Kinds \ Unpublished
    /\ \A i, j \in DOMAIN out : out[i] = out[j] => i = j
    /\ \A i \in 1 .. n : ~Dropped(items[i], throne) => \E j \in DOMAIN out : out[j].name = items[i].name
    /\ \E from \in [DOMAIN out -> 1 .. n] :
         /\ \A i \in DOMAIN out : out[i].name = items[from[i]].name
         /\ \A i, j \in DOMAIN out : i < j => from[i] < from[j]

LEMMA OnceFits ==
    ASSUME NEW items, NEW throne, NEW n \in Nat, NEW U, NEW out \in Seq(U), Fits(items, throne, n, out),
           NEW line \in U, line.name = items[n + 1].name, line.kind \in Kinds \ Unpublished
    PROVE  Fits(items, throne, n + 1, Once(out, line)) /\ Once(out, line) \in Seq(U)
<1>1. CASE \E i \in DOMAIN out : out[i] = line
  <2>1. Once(out, line) = out
    BY <1>1 DEF Once
  <2>2. \E j \in DOMAIN out : out[j].name = items[n + 1].name
    BY <1>1
  <2>3. \A i \in 1 .. n + 1 : i = n + 1 \/ i \in 1 .. n
    OBVIOUS
  <2>4. PICK from \in [DOMAIN out -> 1 .. n] :
          /\ \A i \in DOMAIN out : out[i].name = items[from[i]].name
          /\ \A i, j \in DOMAIN out : i < j => from[i] < from[j]
    BY DEF Fits
  <2>5. from \in [DOMAIN out -> 1 .. n + 1]
    BY <2>4
  <2>6. \A i \in 1 .. n + 1 : ~Dropped(items[i], throne) => \E j \in DOMAIN out : out[j].name = items[i].name
    BY <2>2, <2>3 DEF Fits
  <2>7. Fits(items, throne, n + 1, out)
    BY <2>4, <2>5, <2>6 DEF Fits
  <2> QED
    BY <2>1, <2>7
<1>2. CASE ~\E i \in DOMAIN out : out[i] = line
  <2> DEFINE new == Append(out, line)
             m == Len(out) + 1
  <2>1. Once(out, line) = new
    BY <1>2 DEF Once
  <2>2. /\ new \in Seq(U) /\ m \in Nat /\ DOMAIN new = 1 .. m /\ DOMAIN out = 1 .. Len(out) /\ Len(out) \in Nat
        /\ new[m] = line /\ \A i \in DOMAIN out : new[i] = out[i]
    OBVIOUS
  <2> HIDE DEF new, m
  <2>3. \A i \in DOMAIN new : i = m \/ i \in DOMAIN out
    BY <2>2 DEF m
  <2>4. m \in DOMAIN new /\ \A i \in DOMAIN out : i \in DOMAIN new /\ i < m
    BY <2>2 DEF m
  <2>5. \A i \in DOMAIN new : new[i].kind \in Kinds \ Unpublished
    BY <2>2, <2>3 DEF Fits
  <2>6. \A i, j \in DOMAIN new : new[i] = new[j] => i = j
    BY <1>2, <2>2, <2>3 DEF Fits
  <2>7. \A i \in 1 .. n + 1 : ~Dropped(items[i], throne) => \E j \in DOMAIN new : new[j].name = items[i].name
    <3> SUFFICES ASSUME NEW i \in 1 .. n + 1, ~Dropped(items[i], throne)
                 PROVE  \E j \in DOMAIN new : new[j].name = items[i].name
      OBVIOUS
    <3>1. CASE i = n + 1
      BY <2>2, <2>4, <3>1
    <3>2. CASE i \in 1 .. n
      <4>1. PICK j \in DOMAIN out : out[j].name = items[i].name
        BY <3>2 DEF Fits
      <4> QED
        BY <2>2, <2>4, <4>1
    <3> QED
      BY <3>1, <3>2
  <2>8. PICK from \in [DOMAIN out -> 1 .. n] :
          /\ \A i \in DOMAIN out : out[i].name = items[from[i]].name
          /\ \A i, j \in DOMAIN out : i < j => from[i] < from[j]
    BY DEF Fits
  <2> DEFINE to == [i \in DOMAIN new |-> IF i = m THEN n + 1 ELSE from[i]]
  <2>9. to \in [DOMAIN new -> 1 .. n + 1] /\ to[m] = n + 1
    BY <2>3, <2>4, <2>8
  <2>10. \A i \in DOMAIN out : to[i] = from[i] /\ from[i] < n + 1
    BY <2>4, <2>8
  <2> HIDE DEF to
  <2>11. \A i \in DOMAIN new : new[i].name = items[to[i]].name
    BY <2>2, <2>3, <2>8, <2>9, <2>10
  <2>12. \A i, j \in DOMAIN new : i < j => to[i] < to[j]
    <3> SUFFICES ASSUME NEW i \in DOMAIN new, NEW j \in DOMAIN new, i < j PROVE to[i] < to[j]
      OBVIOUS
    <3>1. i \in DOMAIN out
      BY <2>2, <2>3, <2>4
    <3>2. CASE j = m
      BY <2>9, <2>10, <3>1, <3>2
    <3>3. CASE j \in DOMAIN out
      BY <2>8, <2>10, <3>1, <3>3
    <3> QED
      BY <2>3, <3>2, <3>3
  <2> QED
    BY <2>1, <2>2, <2>5, <2>6, <2>7, <2>9, <2>11, <2>12 DEF Fits
<1> QED
  BY <1>1, <1>2

\* The answer of the panel to a question: its hosts and ports may be other ones.
Raw(items, lines) ==
    /\ lines \in Seq({lines[i] : i \in DOMAIN lines}) /\ Len(lines) = Len(items)
    /\ \A i \in DOMAIN lines : Shape(lines[i]) /\ lines[i].kind = items[i].kind /\ lines[i].name = items[i].name

LEMMA RewriteFits ==
    ASSUME NEW items, IsText(items), NEW lines, Raw(items, lines), NEW throne, NEW es, NEW cf
    PROVE  LET out == Rewrite(lines, throne, es, cf)
           IN  /\ Fits(items, throne, Len(items), out)
               /\ out \in Seq({Line(lines[n], throne, es, cf) : n \in 1 .. Len(lines)})
<1> DEFINE N == Len(lines)
           L(n) == Line(lines[n], throne, es, cf)
           U == {L(n) : n \in 1 .. N}
           T == Seq(U)
           Step(x, n) == IF Dropped(lines[n], throne) THEN x ELSE Once(x, L(n))
           F == [n \in 1 .. N |-> [x \in T |-> Step(x, n)]]
           out == CHOOSE f : f = [n \in 0 .. N |-> IF n = 0 THEN <<>>
                                    ELSE IF Dropped(lines[n], throne) THEN f[n - 1]
                                    ELSE Once(f[n - 1], L(n))]
<1>1. N \in Nat /\ DOMAIN lines = 1 .. N /\ N = Len(items)
  BY DEF Raw
<1>2. Rewrite(lines, throne, es, cf) = out[N]
  BY DEF Rewrite
<1>3. \A n \in 1 .. N : L(n) \in U
  OBVIOUS
<1>4. \A n \in 1 .. N : \A x \in T : Step(x, n) \in T
  BY <1>3 DEF Once
<1>5. <<>> \in T /\ F \in [1 .. N -> [T -> T]]
  BY <1>4
<1>6. PICK f \in [0 .. N -> T] : f[0] = <<>> /\ \A n \in 1 .. N : f[n] = F[n][f[n - 1]]
  <2>1. N \in Nat
    BY <1>1
  <2> HIDE DEF F, T, N
  <2>2. F \in Steps(N, T)
    BY <1>5 DEF Steps
  <2>3. \E f : Follows(f, N, T, <<>>, F)
    BY <1>5, <2>1, <2>2, Recursion
  <2> QED
    BY <2>3 DEF Follows
<1>7. f = [n \in 0 .. N |-> IF n = 0 THEN <<>>
                            ELSE IF Dropped(lines[n], throne) THEN f[n - 1]
                            ELSE Once(f[n - 1], L(n))]
  <2>1. \A n \in 1 .. N : f[n - 1] \in T
    <3> HIDE DEF F, T, N
    <3>1. \A n \in 1 .. N : n - 1 \in 0 .. N
      BY <1>1
    <3> QED
      BY <1>6, <3>1
  <2>2. \A n \in 1 .. N : F[n][f[n - 1]] = Step(f[n - 1], n)
    BY <2>1
  <2>3. \A n \in 0 .. N : n = 0 \/ n \in 1 .. N
    BY <1>1
  <2>4. f = [n \in 0 .. N |-> f[n]]
    <3> HIDE DEF T, N
    <3> QED
      BY <1>6
  <2> HIDE DEF F, T, N, L
  <2> QED
    BY <1>6, <2>2, <2>3, <2>4
<1>8. out = [n \in 0 .. N |-> IF n = 0 THEN <<>>
                              ELSE IF Dropped(lines[n], throne) THEN out[n - 1]
                              ELSE Once(out[n - 1], L(n))]
  <2> HIDE DEF N, L
  <2> QED
    BY <1>7
<1> HIDE DEF out, F
<1> DEFINE S == {n \in Nat : n <= N => out[n] \in T /\ Fits(items, throne, n, out[n])}
<1>9. 0 \in S
  <2>1. out[0] = <<>>
    BY <1>1, <1>8
  <2>2. Fits(items, throne, 0, <<>>)
    <3>1. <<>> \in [DOMAIN <<>> -> 1 .. 0]
      OBVIOUS
    <3> QED
      BY <3>1 DEF Fits
  <2> QED
    BY <1>5, <2>1, <2>2
<1>10. ASSUME NEW n \in Nat, n \in S PROVE n + 1 \in S
  <2> SUFFICES ASSUME n + 1 <= N PROVE out[n + 1] \in T /\ Fits(items, throne, n + 1, out[n + 1])
    OBVIOUS
  <2>1. n \in 0 .. N /\ n + 1 \in 1 .. N /\ (n + 1) - 1 = n /\ out[n] \in T /\ Fits(items, throne, n, out[n])
    BY <1>1, <1>10
  <2>2. out[n + 1] = Step(out[n], n + 1)
    BY <1>1, <1>8, <2>1
  <2>3. /\ Shape(lines[n + 1]) /\ lines[n + 1].kind = items[n + 1].kind
        /\ lines[n + 1].name = items[n + 1].name
    BY <1>1, <2>1 DEF Raw
  <2>4. CASE Dropped(lines[n + 1], throne)
    <3>1. out[n + 1] = out[n] /\ Dropped(items[n + 1], throne)
      BY <2>2, <2>3, <2>4 DEF Dropped
    <3>2. \A i \in 1 .. n + 1 : i = n + 1 \/ i \in 1 .. n
      BY <1>10
    <3>3. PICK from \in [DOMAIN out[n] -> 1 .. n] :
            /\ \A i \in DOMAIN out[n] : out[n][i].name = items[from[i]].name
            /\ \A i, j \in DOMAIN out[n] : i < j => from[i] < from[j]
      BY <2>1 DEF Fits
    <3>4. from \in [DOMAIN out[n] -> 1 .. n + 1]
      BY <1>10, <3>3
    <3>5. Fits(items, throne, n + 1, out[n])
      BY <2>1, <3>1, <3>2, <3>3, <3>4 DEF Fits
    <3> QED
      BY <2>1, <3>1, <3>5
  <2>5. CASE ~Dropped(lines[n + 1], throne)
    <3>1. out[n + 1] = Once(out[n], L(n + 1))
      BY <2>2, <2>5
    <3>2. L(n + 1).name = items[n + 1].name /\ L(n + 1).kind \in Kinds \ Unpublished /\ L(n + 1) \in U
      BY <1>3, <2>1, <2>3, <2>5, LineKeeps
    <3>3. out[n] \in Seq(U) /\ Fits(items, throne, n, out[n])
      BY <2>1
    <3> DEFINE line == L(n + 1)
    <3>4. line \in U /\ line.name = items[n + 1].name /\ line.kind \in Kinds \ Unpublished
      BY <3>2
    <3>5. out[n + 1] = Once(out[n], line)
      BY <3>1
    <3> HIDE DEF line, U
    <3>6. Fits(items, throne, n + 1, Once(out[n], line)) /\ Once(out[n], line) \in Seq(U)
      BY <1>10, <3>3, <3>4, OnceFits
    <3> QED
      BY <3>5, <3>6
  <2> QED
    BY <2>4, <2>5
<1> HIDE DEF S, T
<1>11. N \in S
  BY <1>1, <1>9, <1>10, NatInd
<1>12. out[N] \in T /\ Fits(items, throne, N, out[N])
  BY <1>1, <1>11 DEF S
<1> QED
  BY <1>1, <1>2, <1>12 DEF T

\* A list of links without the lines that are not published.
Clean(out) == \A i \in DOMAIN out : out[i].kind \in Kinds \ Unpublished

LEMMA StructuredClean ==
    ASSUME NEW items, IsText(items), NEW lines, Raw(items, lines)
    PROVE  Clean(Structured(lines))
<1> DEFINE N == Len(lines)
           Allowed == {n \in 1 .. N : lines[n].kind \notin Unpublished}
           U == {lines[n] : n \in Allowed}
           T == Seq(U)
           Step(x, n) == IF lines[n].kind \in Unpublished THEN x ELSE Append(x, lines[n])
           F == [n \in 1 .. N |-> [x \in T |-> Step(x, n)]]
           out == CHOOSE f : f = [n \in 0 .. N |-> IF n = 0 THEN <<>>
                                    ELSE IF lines[n].kind \in Unpublished THEN f[n - 1]
                                    ELSE Append(f[n - 1], lines[n])]
<1>1. N \in Nat /\ DOMAIN lines = 1 .. N
  BY DEF Raw
<1>2. Structured(lines) = out[N]
  BY DEF Structured
<1>3. \A n \in 1 .. N : lines[n].kind \notin Unpublished => lines[n] \in U
  OBVIOUS
<1>4. \A n \in 1 .. N : \A x \in T : Step(x, n) \in T
  <2> HIDE DEF U
  <2> QED
    BY <1>3
<1>5. <<>> \in T /\ F \in [1 .. N -> [T -> T]]
  BY <1>4
<1>6. PICK f \in [0 .. N -> T] : f[0] = <<>> /\ \A n \in 1 .. N : f[n] = F[n][f[n - 1]]
  <2>1. N \in Nat
    BY <1>1
  <2> HIDE DEF F, T, N
  <2>2. F \in Steps(N, T)
    BY <1>5 DEF Steps
  <2>3. \E f : Follows(f, N, T, <<>>, F)
    BY <1>5, <2>1, <2>2, Recursion
  <2> QED
    BY <2>3 DEF Follows
<1>7. f = [n \in 0 .. N |-> IF n = 0 THEN <<>>
                            ELSE IF lines[n].kind \in Unpublished THEN f[n - 1]
                            ELSE Append(f[n - 1], lines[n])]
  <2>1. \A n \in 1 .. N : f[n - 1] \in T
    <3> HIDE DEF F, T, N
    <3>1. \A n \in 1 .. N : n - 1 \in 0 .. N
      BY <1>1
    <3> QED
      BY <1>6, <3>1
  <2>2. \A n \in 1 .. N : F[n][f[n - 1]] = Step(f[n - 1], n)
    BY <2>1
  <2>3. \A n \in 0 .. N : n = 0 \/ n \in 1 .. N
    BY <1>1
  <2>4. f = [n \in 0 .. N |-> f[n]]
    <3> HIDE DEF T, N
    <3> QED
      BY <1>6
  <2> HIDE DEF F, T, N
  <2> QED
    BY <1>6, <2>2, <2>3, <2>4
<1>8. out = [n \in 0 .. N |-> IF n = 0 THEN <<>>
                              ELSE IF lines[n].kind \in Unpublished THEN out[n - 1]
                              ELSE Append(out[n - 1], lines[n])]
  <2> HIDE DEF N
  <2> QED
    BY <1>7
<1> HIDE DEF out, F
<1> DEFINE S == {n \in Nat : n <= N => out[n] \in T}
<1>9. 0 \in S
  <2>1. out[0] = <<>>
    BY <1>1, <1>8
  <2> QED
    BY <1>5, <2>1
<1>10. ASSUME NEW n \in Nat, n \in S PROVE n + 1 \in S
  <2> SUFFICES ASSUME n + 1 <= N PROVE out[n + 1] \in T
    OBVIOUS
  <2>1. n \in 0 .. N /\ n + 1 \in 1 .. N /\ (n + 1) - 1 = n /\ out[n] \in T
    BY <1>1, <1>10
  <2>2. out[n + 1] = Step(out[n], n + 1)
    <3> DEFINE m == n + 1
    <3>1. m \in 0 .. N /\ m # 0 /\ m - 1 = n
      BY <1>1, <2>1
    <3> HIDE DEF m, N, T
    <3>2. out[m] = Step(out[m - 1], m)
      BY <1>8, <3>1
    <3> QED
      BY <3>1, <3>2 DEF m
  <2> HIDE DEF T
  <2> QED
    BY <1>4, <2>1, <2>2
<1> HIDE DEF S
<1>11. N \in S
  BY <1>1, <1>9, <1>10, NatInd
<1>12. out[N] \in T
  BY <1>1, <1>11 DEF S
<1>13. \A u \in U : u.kind \in Kinds \ Unpublished
  BY <1>1 DEF Raw, Shape
<1> DEFINE result == out[N]
<1>14. result \in Seq(U)
  BY <1>12
<1> HIDE DEF result, U
<1>15. Clean(result)
  BY <1>13, <1>14 DEF Clean
<1> QED
  BY <1>2, <1>15 DEF result

LEMMA Image ==
    ASSUME NEW f, IsFiniteSet(DOMAIN f)
    PROVE  IsFiniteSet({f[x] : x \in DOMAIN f})
<1> DEFINE T == {f[x] : x \in DOMAIN f}
           g == [x \in DOMAIN f |-> f[x]]
<1>1. g \in Surjection(DOMAIN f, T)
  BY DEF Surjection
<1> HIDE DEF g, T
<1>2. IsFiniteSet(T)
  BY <1>1, FS_Surjection
<1> QED
  BY <1>2 DEF T

LEMMA Listed ==
    ASSUME NEW S, IsFiniteSet(S)
    PROVE  SetToSeq(S) \in [1 .. Cardinality(S) -> S] /\ Cardinality(S) \in Nat
<1>1. ExistsBijection(1 .. Cardinality(S), S) /\ Cardinality(S) \in Nat
  BY FS_NatBijection, FS_CardinalityType
<1>2. \E f \in [1 .. Cardinality(S) -> S] : IsInjective(f)
  BY <1>1 DEF ExistsBijection, Bijection, Injection
<1> QED
  BY <1>1, <1>2 DEF SetToSeq

\* Endpoints of which the secrets can be listed.
Countable(es) == IsFiniteSet(es) /\ \A e \in es : IsFiniteSet(e.secrets)

LEMMA InjectedKinds ==
    ASSUME NEW items, IsText(items), NEW lines, Raw(items, lines), NEW es, Countable(es)
    PROVE  \A i \in DOMAIN Injected(lines, es) : Injected(lines, es)[i].kind \in Kinds
<1> DEFINE Proxy(e, s) == [kind |-> "anytls", host |-> e.host, port |-> e.public, name |-> s]
           Of == [e \in es |-> {Proxy(e, s) : s \in e.secrets}]
           Proxies == UNION {Of[e] : e \in es}
           P == UNION {{Proxy(e, s) : s \in e.secrets} : e \in es}
<1>1. Proxies = P /\ DOMAIN Of = es
  OBVIOUS
<1>2. \A e \in es : IsFiniteSet(Of[e])
  <2> SUFFICES ASSUME NEW e \in es PROVE IsFiniteSet(Of[e])
    OBVIOUS
  <2> DEFINE p == [s \in e.secrets |-> Proxy(e, s)]
  <2>1. DOMAIN p = e.secrets /\ Of[e] = {p[s] : s \in DOMAIN p}
    OBVIOUS
  <2>2. IsFiniteSet(DOMAIN p)
    BY <2>1 DEF Countable
  <2> HIDE DEF p, Of
  <2> QED
    BY <2>1, <2>2, Image
<1>3. IsFiniteSet({Of[e] : e \in DOMAIN Of})
  <2>1. IsFiniteSet(DOMAIN Of)
    BY <1>1 DEF Countable
  <2> HIDE DEF Of
  <2> QED
    BY <2>1, Image
<1>4. IsFiniteSet(P)
  <2>1. \A t \in {Of[e] : e \in DOMAIN Of} : IsFiniteSet(t)
    <3> HIDE DEF Of
    <3> QED
      BY <1>1, <1>2
  <2>2. P = UNION {Of[e] : e \in DOMAIN Of}
    BY <1>1
  <2> HIDE DEF P, Of
  <2> QED
    BY <1>3, <2>1, <2>2, FS_UNION
<1>5. \A p \in P : p.kind \in Kinds
  BY DEF Kinds
<1>6. Injected(lines, es) = lines \o SetToSeq(P)
  BY DEF Injected
<1> HIDE DEF P
<1> DEFINE tail == SetToSeq(P)
           V == {lines[i] : i \in DOMAIN lines} \cup P
<1>7. tail \in [1 .. Cardinality(P) -> P] /\ Cardinality(P) \in Nat
  BY <1>4, Listed
<1> HIDE DEF tail
<1>8. tail \in Seq(P)
  BY <1>7
<1>9. lines \in Seq(V) /\ tail \in Seq(V)
  BY <1>8 DEF Raw
<1>10. \A v \in V : v.kind \in Kinds
  BY <1>5 DEF Raw, Shape
<1> DEFINE result == lines \o tail
<1> HIDE DEF V
<1>11. result \in Seq(V)
  BY <1>9
<1>12. result = Injected(lines, es)
  BY <1>6 DEF tail
<1> HIDE DEF result
<1>13. \A i \in DOMAIN result : result[i].kind \in Kinds
  BY <1>10, <1>11
<1> QED
  BY <1>12, <1>13

-----------------------------------------------------------------------------
(* Second invariant: what has become of the answer of the panel *)

\* What is sent for a question whose answer was rewritten.
Treated(ask, out) ==
    /\ ask.format = "base64" => Fits(ask.items, ask.throne, Len(ask.items), out)
    /\ ask.format = "json" => Clean(out)

Reading == {"inbounds", "hosts", "rewrite"}

Served(r) ==
    /\ stage[r] \in Reading => asks[r].get /\ Raw(asks[r].items, text[r])
    /\ stage[r] = "hosts" \/ DOMAIN hosts[r] # {} =>
          \E d \in 1 .. Len(Databases) : read[r] = Databases[d].inbounds
    /\ DOMAIN hosts[r] = {} \/ DOMAIN hosts[r] \subseteq DOMAIN read[r]
    /\ \A i \in DOMAIN text[r] : text[r][i].kind \in Kinds
    /\ stage[r] = "send" /\ asks[r].get /\ r \notin open => Treated(asks[r], text[r])
    /\ sent[r].status = "ok" /\ asks[r].get /\ r \notin open => Treated(asks[r], sent[r].lines)
    /\ sent[r].status # "ok" => sent[r].lines = <<>>

Frame ==
    /\ asks \in [Requests -> Questions]
    /\ DOMAIN text = Requests /\ DOMAIN read = Requests /\ DOMAIN hosts = Requests
    /\ loop = {} \/ \E r \in Requests : loop = {r}
    /\ version \in 1 .. Len(Databases)
    /\ answered \subseteq Requests /\ open \subseteq Requests /\ faults \in 0 .. MaxFaults

WInv == Frame /\ \A r \in Requests : Served(r)

LEMMA ReadingStages ==
    /\ Reading \cap {"queued", "handshake", "accepted", "gate", "done", "finish", "upstream", "send"} = {}
    /\ {"inbounds", "hosts", "rewrite"} \subseteq Reading
  BY DEF Reading

\* A connection the step is not about.
LEMMA Others ==
    ASSUME NEW q \in Requests, Served(q),
           /\ stage'[q] = stage[q] /\ text'[q] = text[q] /\ read'[q] = read[q]
           /\ hosts'[q] = hosts[q] /\ sent'[q] = sent[q],
           asks' = asks, q \in open' <=> q \in open
    PROVE  Served(q)'
  BY DEF Served

\* A connection that is neither being answered nor is given an answer.
LEMMA StepsAside ==
    ASSUME NEW r \in Requests, Served(r), stage'[r] \notin Reading \cup {"send"},
           text'[r] = text[r] /\ read'[r] = read[r] /\ hosts'[r] = hosts[r], asks' = asks, open' = open,
           \/ sent'[r] = sent[r]
           \/ sent'[r].status # "ok" /\ sent'[r].lines = <<>>
    PROVE  Served(r)'
  BY DEF Served, Reading

LEMMA PublishedRaw ==
    ASSUME NEW items, IsText(items)
    PROVE  Raw(items, [i \in DOMAIN items |-> Published(items[i])])
<1> DEFINE lines == [i \in DOMAIN items |-> Published(items[i])]
<1>1. \A i \in DOMAIN items : DOMAIN items[i] = {"kind", "host", "port", "name"} /\ items[i].kind \in Kinds
  BY DEF IsText
<1>2. Len(items) \in Nat /\ DOMAIN items = 1 .. Len(items)
  BY DEF IsText
<1>3. ASSUME NEW l, DOMAIN l = {"kind", "host", "port", "name"}
      PROVE  /\ DOMAIN Published(l) = {"kind", "host", "port", "name"}
             /\ Published(l).kind = l.kind /\ Published(l).name = l.name
  <2>1. \A h, p : LET m == [l EXCEPT !.host = h, !.port = p]
                  IN  DOMAIN m = DOMAIN l /\ m.kind = l.kind /\ m.name = l.name
    BY <1>3
  <2> QED
    BY <1>3, <2>1 DEF Published
<1>4. DOMAIN lines = 1 .. Len(items) /\ \A i \in DOMAIN lines : lines[i] = Published(items[i])
  BY <1>2
<1> HIDE DEF lines
<1>5. lines \in Seq({lines[i] : i \in DOMAIN lines}) /\ Len(lines) = Len(items)
  <2> DEFINE U == {lines[i] : i \in DOMAIN lines}
  <2>1. \A i \in DOMAIN lines : lines[i] \in U
    OBVIOUS
  <2>2. lines = [i \in 1 .. Len(items) |-> lines[i]]
    <3>1. lines = [i \in DOMAIN items |-> lines[i]]
      BY DEF lines
    <3> QED
      BY <1>2, <3>1
  <2> HIDE DEF U
  <2>3. lines \in [1 .. Len(items) -> U]
    BY <1>4, <2>1, <2>2
  <2>4. lines \in Seq(U) /\ Len(lines) = Len(items)
    BY <1>2, <2>3
  <2> QED
    BY <2>4 DEF U
<1>6. ASSUME NEW i \in DOMAIN lines
      PROVE  Shape(lines[i]) /\ lines[i].kind = items[i].kind /\ lines[i].name = items[i].name
  <2>1. i \in DOMAIN items /\ lines[i] = Published(items[i])
    BY <1>2, <1>4
  <2> QED
    BY <1>1, <1>3, <2>1 DEF Shape
<1> QED
  BY <1>5, <1>6 DEF Raw, lines

LEMMA EndpointsCountable ==
    ASSUME NEW d \in 1 .. Len(Databases), NEW rows, DOMAIN rows \subseteq DOMAIN Databases[d].inbounds
    PROVE  Countable(Endpoints(Databases[d].inbounds, rows))
<1> DEFINE found == Databases[d].inbounds
           Row(i) == Endpoint(i, found[i], rows[i])
           Chosen == {j \in DOMAIN rows : Usable(found[j], rows[j])}
           f == [i \in Chosen |-> Row(i)]
<1>1. Endpoints(found, rows) = {f[i] : i \in DOMAIN f} /\ DOMAIN f = Chosen
  <2>1. Endpoints(found, rows) = {Row(i) : i \in Chosen}
    <3> HIDE DEF found
    <3> QED
      BY DEF Endpoints
  <2> HIDE DEF Row, Chosen
  <2>2. DOMAIN f = Chosen /\ {Row(i) : i \in Chosen} = {f[i] : i \in Chosen}
    OBVIOUS
  <2> QED
    BY <2>1, <2>2
<1>2. IsFiniteSet(DOMAIN found) /\ \A i \in DOMAIN found : IsFiniteSet(found[i].secrets)
  BY ConstantsAssumption
<1>3. Chosen \subseteq DOMAIN found /\ \A i \in Chosen : f[i].secrets = found[i].secrets
  <2>1. Chosen \subseteq DOMAIN found
    <3> HIDE DEF Row
    <3> QED
      OBVIOUS
  <2>2. \A i \in DOMAIN found : Row(i).secrets = found[i].secrets
    <3> HIDE DEF found
    <3> QED
      BY DEF Endpoint
  <2> HIDE DEF Row, Chosen
  <2>3. \A i \in Chosen : f[i] = Row(i)
    OBVIOUS
  <2> QED
    BY <2>1, <2>2, <2>3
<1> HIDE DEF f, Chosen, found
<1>4. IsFiniteSet(DOMAIN f)
  BY <1>1, <1>2, <1>3, FS_Subset
<1>5. IsFiniteSet({f[i] : i \in DOMAIN f})
  BY <1>4, Image
<1>6. \A e \in {f[i] : i \in DOMAIN f} : IsFiniteSet(e.secrets)
  BY <1>1, <1>2, <1>3
<1>7. Countable(Endpoints(found, rows))
  BY <1>1, <1>5, <1>6 DEF Countable
<1> QED
  BY <1>7 DEF found

LEMMA SnapshotCountable ==
    ASSUME NEW r \in Requests, Served(r)
    PROVE  Countable(Snapshot(r))
<1>1. CASE DOMAIN hosts[r] = {}
  <2>1. Endpoints(read[r], hosts[r]) = {}
    BY <1>1 DEF Endpoints
  <2>2. IsFiniteSet({})
    BY FS_EmptySet
  <2> QED
    BY <2>1, <2>2 DEF Snapshot, Countable
<1>2. CASE DOMAIN hosts[r] # {}
  <2>1. PICK d \in 1 .. Len(Databases) : read[r] = Databases[d].inbounds
    BY <1>2 DEF Served
  <2>2. DOMAIN hosts[r] \subseteq DOMAIN Databases[d].inbounds
    BY <1>2, <2>1 DEF Served
  <2> QED
    BY <2>1, <2>2, EndpointsCountable DEF Snapshot
<1> QED
  BY <1>1, <1>2

\* What the rewriting makes of the panel's answer.
LEMMA RewrittenTreated ==
    ASSUME NEW r \in Requests, asks[r] \in Questions, Raw(asks[r].items, text[r]), Countable(Snapshot(r)),
           NEW c
    PROVE  /\ Treated(asks[r], Rewritten(r, c))
           /\ \A i \in DOMAIN Rewritten(r, c) : Rewritten(r, c)[i].kind \in Kinds
<1>1. IsText(asks[r].items) /\ asks[r].format \in Formats
  BY ConstantsAssumption
<1>2. \A i \in DOMAIN text[r] : text[r][i].kind \in Kinds
  BY DEF Raw, Shape
<1>3. CASE asks[r].format = "base64"
  <2>1. Rewritten(r, c) = Rewrite(text[r], asks[r].throne, Snapshot(r), c)
    BY <1>3 DEF Rewritten
  <2>2. Fits(asks[r].items, asks[r].throne, Len(asks[r].items), Rewritten(r, c))
    BY <1>1, <2>1, RewriteFits
  <2> HIDE DEF Rewritten
  <2> QED
    BY <1>3, <2>2 DEF Treated, Fits
<1>4. CASE asks[r].format = "json"
  <2>1. Rewritten(r, c) = Structured(text[r])
    BY <1>4 DEF Rewritten
  <2>2. Clean(Rewritten(r, c))
    BY <1>1, <2>1, StructuredClean
  <2> QED
    BY <1>4, <2>2 DEF Treated, Clean
<1>5. CASE asks[r].format = "yaml"
  <2>1. Rewritten(r, c) = Injected(text[r], Snapshot(r))
    BY <1>5 DEF Rewritten
  <2>2. \A i \in DOMAIN Injected(text[r], Snapshot(r)) : Injected(text[r], Snapshot(r))[i].kind \in Kinds
    BY <1>1, InjectedKinds
  <2> QED
    BY <1>5, <2>1, <2>2 DEF Treated
<1>6. CASE asks[r].format = "plain"
  BY <1>2, <1>6 DEF Rewritten, Treated
<1> QED
  BY <1>1, <1>3, <1>4, <1>5, <1>6 DEF Formats

LEMMA MovesAside ==
    ASSUME IInv, WInv, NEW r \in Requests,
           \/ Connect(r) \/ Accept(r) \/ Handshake(r) \/ HandshakeFails(r) \/ Dispatch(r)
           \/ ThreadFails(r) \/ Gate(r) \/ UpstreamFails(r) \/ Finish(r)
           \/ ReadEscapes(r) \/ TransformEscapes(r)
    PROVE  \A q \in Requests : Served(q)'
<1>1. PICK from \in Stages, to \in Stages \ (Reading \cup {"send"}) : Goto(r, from, to)
  <2>1. {"new", "queued", "handshake", "accepted", "gate", "done", "finish", "upstream", "hosts", "rewrite"}
          \subseteq Stages
    BY DEF Stages
  <2> QED
    BY <2>1, ReadingStages
       DEF Connect, Accept, Handshake, HandshakeFails, Dispatch, ThreadFails, Gate, UpstreamFails, Finish,
           ReadEscapes, TransformEscapes
<1>2. stage'[r] = to /\ \A q \in Requests \ {r} : stage'[q] = stage[q]
  BY <1>1, StagesKept DEF IInv
<1>3. UNCHANGED <<asks, text, read, hosts, open>>
  BY DEF Connect, Accept, Handshake, HandshakeFails, Dispatch, ThreadFails, Gate, UpstreamFails, Finish,
         ReadEscapes, TransformEscapes, work, client
<1>4. \/ sent' = sent
      \/ \E status \in {"not found", "unavailable"} : Answer(r, status, <<>>)
  <2>1. CASE Gate(r)
    BY <2>1, Zenon DEF Gate
  <2>2. CASE ~Gate(r)
    BY <2>2 DEF Connect, Accept, Handshake, HandshakeFails, Dispatch, ThreadFails, UpstreamFails, Finish,
           ReadEscapes, TransformEscapes, client
  <2> QED
    BY <2>1, <2>2
<1>5. /\ \A q \in Requests \ {r} : sent'[q] = sent[q]
      /\ \/ sent'[r] = sent[r]
         \/ sent'[r].status # "ok" /\ sent'[r].lines = <<>>
  <2>1. CASE sent' = sent
    BY <2>1
  <2>2. ASSUME NEW status \in {"not found", "unavailable"}, Answer(r, status, <<>>)
        PROVE  /\ \A q \in Requests \ {r} : sent'[q] = sent[q]
               /\ sent'[r].status # "ok" /\ sent'[r].lines = <<>>
    BY <2>2 DEF Answer, IInv, Placed
  <2> QED
    BY <1>4, <2>1, <2>2
<1>6. Served(r)'
  BY <1>1, <1>2, <1>3, <1>5, StepsAside DEF WInv
<1> QED
  BY <1>2, <1>3, <1>5, <1>6, Others DEF WInv

LEMMA Answers ==
    ASSUME IInv, WInv, NEW r \in Requests,
           \/ Upstream(r) \/ ReadInbounds(r) \/ ReadHost(r) \/ ReadFails(r) \/ Transform(r)
           \/ TransformRaises(r) \/ Send(r)
    PROVE  \A q \in Requests : Served(q)'
<1>0. Served(r) /\ asks[r] \in Questions /\ IsText(asks[r].items)
  BY ConstantsAssumption DEF WInv, Frame
<1>1. PICK from \in Stages, to \in Stages : Goto(r, from, to)
  BY DEF Upstream, ReadInbounds, ReadHost, ReadFails, Transform, TransformRaises, Send, Goto, Stages
<1>2. stage'[r] = to /\ \A q \in Requests \ {r} : stage'[q] = stage[q]
  BY <1>1, StagesKept DEF IInv
<1>3. \A q \in Requests \ {r} :
        /\ text'[q] = text[q] /\ read'[q] = read[q] /\ hosts'[q] = hosts[q] /\ sent'[q] = sent[q]
        /\ q \in open' <=> q \in open
  BY DEF Upstream, ReadInbounds, ReadHost, ReadFails, Transform, TransformRaises, Send, Answer,
         client, work, WInv, Frame, IInv, Placed
<1>4. asks' = asks
  BY DEF Upstream, ReadInbounds, ReadHost, ReadFails, Transform, TransformRaises, Send, client
<1>5. CASE Upstream(r)
  <2>1. text'[r] = [i \in DOMAIN asks[r].items |-> Published(asks[r].items[i])]
    BY <1>5 DEF Upstream, WInv, Frame
  <2>2. Raw(asks[r].items, text'[r])
    BY <1>0, <2>1, PublishedRaw
  <2>3. stage'[r] = IF asks[r].get THEN "inbounds" ELSE "send"
    BY <1>5 DEF Upstream, Goto, IInv, Placed
  <2>4. UNCHANGED <<asks, sent, read, hosts, open>>
    BY <1>5 DEF Upstream, client
  <2>5. \A i \in DOMAIN text'[r] : text'[r][i].kind \in Kinds
    BY <2>2 DEF Raw, Shape
  <2> QED
    BY <1>0, <1>2, <1>3, <2>2, <2>3, <2>4, <2>5, Others DEF Served, Reading, WInv
<1>6. CASE ReadInbounds(r)
  <2>1. /\ stage[r] = "inbounds" /\ stage'[r] \in {"hosts", "rewrite"} /\ UNCHANGED <<asks, sent, text, open>>
        /\ read'[r] = Databases[version].inbounds /\ DOMAIN hosts'[r] = {}
    BY <1>6 DEF ReadInbounds, Goto, client, IInv, Placed, WInv, Frame, NoRows
  <2>2. version \in 1 .. Len(Databases)
    BY DEF WInv, Frame
  <2>3. Served(r)'
    BY <1>0, <2>1, <2>2 DEF Served, Reading
  <2> QED
    BY <1>2, <1>3, <1>4, <2>3, Others DEF WInv
<1>7. CASE ReadHost(r)
  <2>1. PICK i \in Unread(r) :
          hosts' = [hosts EXCEPT ![r] = [j \in DOMAIN hosts[r] \cup {i} |->
                                           IF j = i THEN RowAt(version, i) ELSE hosts[r][j]]]
    BY <1>7 DEF ReadHost
  <2>2. /\ stage[r] = "hosts" /\ stage'[r] \in {"hosts", "rewrite"} /\ UNCHANGED <<asks, sent, text, open, read>>
        /\ DOMAIN hosts'[r] = DOMAIN hosts[r] \cup {i}
    BY <1>7, <2>1 DEF ReadHost, Goto, client, IInv, Placed, WInv, Frame
  <2>3. i \in DOMAIN read[r]
    BY DEF Unread, Selected
  <2>4. DOMAIN hosts'[r] \subseteq DOMAIN read'[r]
    BY <1>0, <2>2, <2>3 DEF Served
  <2>5. Served(r)'
    BY <1>0, <2>2, <2>4 DEF Served, Reading
  <2> QED
    BY <1>2, <1>3, <1>4, <2>5, Others DEF WInv
<1>8. CASE ReadFails(r) \/ TransformRaises(r)
  <2>1. /\ stage[r] \in Reading /\ stage'[r] \in {"rewrite", "send"}
        /\ UNCHANGED <<asks, sent, text, read>> /\ open \subseteq open'
        /\ stage'[r] = "send" => r \in open'
        /\ hosts'[r] = hosts[r] \/ DOMAIN hosts'[r] = {}
    BY <1>8 DEF ReadFails, TransformRaises, Goto, client, work, IInv, Placed, Reading, WInv, Frame, NoRows
  <2>2. Served(r)'
    BY <1>0, <2>1 DEF Served, Reading
  <2> QED
    BY <1>2, <1>3, <1>4, <2>2, Others DEF WInv
<1>9. CASE Transform(r)
  <2>0. PICK c : text' = [text EXCEPT ![r] = Rewritten(r, c)]
    BY <1>9 DEF Transform
  <2>1. /\ stage[r] = "rewrite" /\ stage'[r] = "send" /\ UNCHANGED <<asks, sent, read, hosts, open>>
        /\ text'[r] = Rewritten(r, c)
    BY <1>9, <2>0 DEF Transform, Goto, client, IInv, Placed, WInv, Frame
  <2>2. Raw(asks[r].items, text[r]) /\ Countable(Snapshot(r))
    BY <1>0, <2>1, SnapshotCountable DEF Served, Reading
  <2>3. Treated(asks[r], text'[r]) /\ \A i \in DOMAIN text'[r] : text'[r][i].kind \in Kinds
    BY <1>0, <2>1, <2>2, RewrittenTreated
  <2>4. Served(r)'
    BY <1>0, <2>1, <2>3 DEF Served, Reading
  <2> QED
    BY <1>2, <1>3, <1>4, <2>4, Others DEF WInv
<1>10. CASE Send(r)
  <2>1. /\ stage[r] = "send" /\ stage'[r] = "finish" /\ UNCHANGED <<asks, text, read, hosts, open>>
        /\ sent'[r] = [status |-> "ok", lines |-> text[r]]
    BY <1>10 DEF Send, Answer, Goto, work, IInv, Placed
  <2>2. Served(r)'
    BY <1>0, <2>1 DEF Served, Reading
  <2> QED
    BY <1>2, <1>3, <1>4, <2>2, Others DEF WInv
<1> QED
  BY <1>5, <1>6, <1>7, <1>8, <1>9, <1>10

LEMMA FrameStep == ASSUME IInv, WInv, Next PROVE Frame'
<1>1. ASSUME NEW r \in Requests,
             \/ Connect(r) \/ Accept(r) \/ Handshake(r) \/ HandshakeFails(r) \/ Dispatch(r)
             \/ ThreadFails(r) \/ Thread(r)
             \/ UpstreamFails(r) \/ ReadFails(r) \/ TransformRaises(r)
      PROVE  /\ asks' = asks /\ version' = version
             /\ DOMAIN text' = Requests /\ DOMAIN read' = Requests /\ DOMAIN hosts' = Requests
             /\ loop' = loop \/ loop' = {} \/ loop' = {r}
             /\ open' \subseteq Requests /\ answered' \subseteq Requests
             /\ faults' = faults \/ Fault
  BY <1>1 DEF Connect, Accept, Handshake, HandshakeFails, Dispatch, ThreadFails, Thread, Gate, Upstream,
              ReadInbounds, ReadHost, ReadEscapes, Transform, TransformEscapes, Send, Finish, UpstreamFails, ReadFails, TransformRaises,
              client, server, work, WInv, Frame
<1>2. CASE Commit
  BY <1>2 DEF Commit, client, server, work, WInv, Frame
<1>3. faults' = faults \/ Fault => faults' \in 0 .. MaxFaults
  BY ConstantsAssumption DEF Fault, WInv, Frame
<1>4. CASE \E r \in Requests :
             \/ Connect(r) \/ Accept(r) \/ Handshake(r) \/ HandshakeFails(r) \/ Dispatch(r)
             \/ ThreadFails(r) \/ Thread(r)
             \/ UpstreamFails(r) \/ ReadFails(r) \/ TransformRaises(r)
  BY <1>1, <1>3, <1>4 DEF WInv, Frame
<1> QED
  BY <1>2, <1>4 DEF Next

LEMMA InitWInv == Init => WInv
<1> SUFFICES ASSUME Init PROVE WInv
  OBVIOUS
<1>1. Frame
  BY ConstantsAssumption DEF Init, Frame
<1>2. ASSUME NEW r \in Requests PROVE Served(r)
  <2>1. stage[r] = "new" /\ text[r] = <<>> /\ DOMAIN hosts[r] = {} /\ sent[r] = Nothing
    BY DEF Init, NoRows
  <2> QED
    BY <2>1 DEF Served, Reading, Nothing
<1> QED
  BY <1>1, <1>2 DEF WInv

LEMMA SecondInvariant == Spec => []WInv
<1>1. ASSUME IInv, WInv, [Next]_vars PROVE WInv'
  <2>1. CASE UNCHANGED vars
    BY <1>1, <2>1 DEF vars, client, server, work, WInv, Frame, Served
  <2>2. CASE Next
    <3>1. CASE Commit
      <4>1. UNCHANGED <<asks, sent, stage, text, read, hosts, open>>
        BY <3>1 DEF Commit, client, work
      <4> QED
        BY <1>1, <2>2, <4>1, FrameStep DEF WInv, Served
    <3>2. ASSUME NEW r \in Requests,
                 \/ Connect(r) \/ Accept(r) \/ Handshake(r) \/ HandshakeFails(r) \/ Dispatch(r)
                 \/ ThreadFails(r) \/ Thread(r)
                 \/ UpstreamFails(r) \/ ReadFails(r) \/ TransformRaises(r)
          PROVE  WInv'
      BY <1>1, <2>2, <3>2, MovesAside, Answers, FrameStep DEF Thread, WInv
    <3> QED
      BY <2>2, <3>1, <3>2 DEF Next
  <2> QED
    BY <1>1, <2>1, <2>2
<1> QED
  BY Invariant, InitWInv, <1>1, PTL DEF Spec

(***************************************************************************)
(* Types, slots and failures together, for any number of connections and   *)
(* any versions of the database.                                           *)
(***************************************************************************)
THEOREM ServerInvariant == Spec => []Inv
<1>1. IInv /\ WInv => Inv
  <2> SUFFICES ASSUME IInv, WInv PROVE Inv
    OBVIOUS
  <2>1. Cardinality(loop) <= 1
    <3>1. CASE loop = {}
      BY <3>1, FS_EmptySet
    <3>2. ASSUME NEW r \in Requests, loop = {r} PROVE Cardinality(loop) <= 1
      BY <3>2, FS_Singleton
    <3> QED
      BY <3>1, <3>2 DEF WInv, Frame
  <2>2. slots \in 0 .. Slots
    <3>1. slots \in Nat /\ slots + Cardinality(InThreads) = Slots
      BY DEF IInv, Counted, SlotsBalanced, InThreads
    <3> QED
      BY <3>1, ThreadsFinite, ConstantsAssumption
  <2> QED
    BY <2>1, <2>2 DEF Inv, TypeOK, IInv, Placed, Counted, WInv, Frame, Served, FailsOpen, Heard, Ended
<1> QED
  BY Invariant, SecondInvariant, <1>1, PTL

(***************************************************************************)
(* Whatever the panel answers, however its database changes meanwhile, and *)
(* whoever else is served: what is not published stays out, and every      *)
(* other line comes out, once, under its name and in the panel's order.    *)
(***************************************************************************)
THEOREM EveryLineDelivered == Spec => []Delivered
<1>1. IInv /\ WInv => Delivered
  <2> SUFFICES ASSUME IInv, WInv PROVE Delivered
    OBVIOUS
  <2>1. NeverPublished
    <3> SUFFICES ASSUME NEW r \in Requests, asks[r].format \in {"base64", "json"}, asks[r].get, r \notin open,
                        NEW i \in DOMAIN sent[r].lines
                 PROVE  sent[r].lines[i].kind \notin Unpublished
      BY DEF NeverPublished
    <3>1. Served(r)
      BY DEF WInv
    <3>2. sent[r].status = "ok"
      BY <3>1 DEF Served
    <3> QED
      BY <3>1, <3>2 DEF Served, Treated, Fits, Clean
  <2>2. NothingLost
    <3> SUFFICES ASSUME NEW r \in Requests, sent[r].status = "ok", asks[r].format = "base64", asks[r].get,
                        r \notin open
                 PROVE  LET items == asks[r].items
                            out == sent[r].lines
                        IN  /\ \A i, j \in DOMAIN out : out[i] = out[j] => i = j
                            /\ \A i \in DOMAIN items : ~Dropped(items[i], asks[r].throne) =>
                                  \E j \in DOMAIN out : out[j].name = items[i].name
                            /\ \E from \in [DOMAIN out -> DOMAIN items] :
                                  /\ \A i \in DOMAIN out : out[i].name = items[from[i]].name
                                  /\ \A i, j \in DOMAIN out : i < j => from[i] < from[j]
      BY DEF NothingLost
    <3>1. Fits(asks[r].items, asks[r].throne, Len(asks[r].items), sent[r].lines)
      BY DEF WInv, Served, Treated
    <3>2. DOMAIN asks[r].items = 1 .. Len(asks[r].items)
      BY ConstantsAssumption DEF WInv, Frame, IsText
    <3> QED
      BY <3>1, <3>2 DEF Fits
  <2> QED
    BY <2>1, <2>2 DEF Delivered
<1> QED
  BY Invariant, SecondInvariant, <1>1, PTL

-----------------------------------------------------------------------------
(* Third invariant: where the AnyTLS links lead *)

\* The link of an AnyTLS inbound as the panel writes it at version v.
LinkOf(item, v) ==
    [item EXCEPT !.host = EndpointAt(item.name, v, v)[1], !.port = InternalPort(item.name, v)]

Links(items, lines, v) ==
    \A n \in DOMAIN lines : items[n].kind = "anytls" => lines[n] = LinkOf(items[n], v)

\* The AnyTLS links lead where their inbounds led between the versions b and v.
Leads(lines, b, v) ==
    \A k \in DOMAIN lines : lines[k].kind = "anytls" =>
        \E w, x \in b .. v : <<lines[k].host, lines[k].port>> = EndpointAt(lines[k].name, w, x)

NotYet == {"new", "queued", "handshake", "accepted"}
InFlight == {"gate", "upstream", "inbounds", "hosts", "rewrite", "send"}

Encoded(r) == asks[r].format = "base64" /\ asks[r].get /\ r \notin open /\ Snapshot(r) # {}

\* Host rows of inbounds of version w, each as it was at some version since, up to u.
Dated(rows, w, u) ==
    /\ DOMAIN rows \subseteq Selected(Databases[w].inbounds)
    /\ \A i \in DOMAIN rows : \E x \in w .. u : rows[i] = RowAt(x, i)

FromPanel(r, v) ==
    /\ Links(asks[r].items, text[r], v)
    /\ stage[r] = "hosts" \/ (stage[r] = "rewrite" /\ DOMAIN hosts[r] # {}) =>
          \E w \in v .. version :
             /\ read[r] = Databases[w].inbounds /\ Dated(hosts[r], w, version)
             /\ stage[r] = "rewrite" => Selected(read[r]) \subseteq DOMAIN hosts[r]

Versioned(r) == \E v \in began[r] .. version : FromPanel(r, v)

Traced(r) ==
    /\ began[r] \in Nat /\ began[r] <= version
    /\ stage[r] \in InFlight => began[r] # 0
    /\ stage[r] \in NotYet \cup InFlight => sent[r].status # "ok"
    /\ stage[r] \in NotYet \cup {"gate", "upstream"} => DOMAIN hosts[r] = {}
    /\ stage[r] \in Reading => Versioned(r)
    /\ stage[r] = "send" /\ Encoded(r) => Leads(text[r], began[r], version)
    /\ sent[r].status = "ok" /\ Encoded(r) => Leads(sent[r].lines, began[r], version)

OwnInv == DOMAIN began = Requests /\ \A r \in Requests : Traced(r)

LEMMA LeadsLonger ==
    ASSUME NEW lines, NEW b \in Nat, NEW v \in Nat, NEW u \in Nat, v <= u, Leads(lines, b, v)
    PROVE  Leads(lines, b, u)
<1>1. b .. v \subseteq b .. u
  OBVIOUS
<1> QED
  BY <1>1 DEF Leads

\* A line of the answer that is an AnyTLS link was one in the answer of the panel.
LEMMA LineOfKind ==
    ASSUME NEW l, Shape(l), NEW throne, NEW es, NEW cf, Line(l, throne, es, cf).kind = "anytls"
    PROVE  l.kind = "anytls" /\ Line(l, throne, es, cf) = AnyTls(l, es)
<1>1. \A k \in Kinds : \A h, p :
        /\ [l EXCEPT !.kind = k].kind = k
        /\ [l EXCEPT !.port = p].kind = l.kind /\ DOMAIN [l EXCEPT !.port = p] = DOMAIN l
        /\ [l EXCEPT !.kind = k, !.host = h, !.port = p].kind = k
  BY DEF Shape
<1>2. {"tt", "vmess-uri", "wg", "mieru"} \subseteq Kinds
  BY DEF Kinds
<1>3. CASE l.kind = "anytls"
  BY <1>3 DEF Line
<1>4. CASE l.kind # "anytls"
  <2>1. ThroneLink(l).kind # "anytls" /\ VmessUri(l).kind # "anytls" /\ AwgUri(l, cf).kind # "anytls"
    BY <1>1, <1>2, <1>4 DEF ThroneLink, VmessUri, AwgUri
  <2>2. MieruRange(l, es).kind # "anytls" /\ DOMAIN MieruRange(l, es) = {"kind", "host", "port", "name"}
    BY <1>1, <1>4 DEF MieruRange, Shape
  <2>3. Unescaped(MieruRange(l, es)).kind # "anytls"
    <3> DEFINE m == MieruRange(l, es)
    <3>1. DOMAIN m = {"kind", "host", "port", "name"}
      BY <2>2
    <3> HIDE DEF m
    <3>2. [m EXCEPT !.kind = "mieru"].kind = "mieru"
      BY <3>1
    <3> QED
      BY <3>2 DEF Unescaped, m
  <2>4. Line(l, throne, es, cf).kind # "anytls"
    BY <1>4, <2>1, <2>2, <2>3 DEF Line
  <2> QED
    BY <2>4
<1> QED
  BY <1>3, <1>4

LEMMA EndpointIs ==
    ASSUME NEW found, NEW rows
    PROVE  /\ \A e \in Endpoints(found, rows) :
                /\ e.id \in DOMAIN rows /\ Usable(found[e.id], rows[e.id])
                /\ e.proto = found[e.id].proto /\ e.internal = found[e.id].port
                /\ e.host = PublicHost(found[e.id], rows[e.id])
                /\ e.public = PublicPort(found[e.id], rows[e.id])
                /\ \A f \in Endpoints(found, rows) : e.id = f.id => e = f
           /\ \A i \in DOMAIN rows : Usable(found[i], rows[i]) =>
                \E e \in Endpoints(found, rows) : e.id = i
<1> DEFINE Row(i) == Endpoint(i, found[i], rows[i])
           Chosen == {j \in DOMAIN rows : Usable(found[j], rows[j])}
<1>1. Endpoints(found, rows) = {Row(i) : i \in Chosen}
  BY DEF Endpoints
<1>2. \A i : /\ Row(i).id = i /\ Row(i).proto = found[i].proto /\ Row(i).internal = found[i].port
             /\ Row(i).host = PublicHost(found[i], rows[i]) /\ Row(i).public = PublicPort(found[i], rows[i])
  BY DEF Endpoint
<1>3. \A i : i \in Chosen <=> i \in DOMAIN rows /\ Usable(found[i], rows[i])
  OBVIOUS
<1> HIDE DEF Row, Chosen
<1>4. \A f \in Endpoints(found, rows) : f = Row(f.id) /\ f.id \in Chosen
  BY <1>1, <1>2
<1>5. \A i \in Chosen : Row(i) \in Endpoints(found, rows) /\ Row(i).id = i
  BY <1>1, <1>2
<1> QED
  BY <1>2, <1>3, <1>4, <1>5

\* The score picks the endpoint that the inbound of a link had when its row was read.
LEMMA OwnScore ==
    ASSUME Steady, NEW q \in Questions, NEW n \in DOMAIN q.items, q.items[n].kind = "anytls",
           Shape(q.items[n]),
           NEW v \in 1 .. Len(Databases), NEW w \in 1 .. Len(Databases), NEW u \in 1 .. Len(Databases),
           v <= w, NEW rows, Dated(rows, w, u), Selected(Databases[w].inbounds) \subseteq DOMAIN rows
    PROVE  LET line == LinkOf(q.items[n], v)
               m == AnyTls(line, Endpoints(Databases[w].inbounds, rows))
           IN  m.name = line.name /\ \E x \in w .. u : <<m.host, m.port>> = EndpointAt(m.name, w, x)
<1> DEFINE i == q.items[n].name
           line == LinkOf(q.items[n], v)
           found == Databases[w].inbounds
           es == Endpoints(found, rows)
<1>0. w .. u \subseteq {y \in 1 .. Len(Databases) : w <= y}
  BY ConstantsAssumption
<1>1. \A x, y \in w .. u :
      /\ i \in Selected(found) /\ found[i].proto = "anytls" /\ Usable(found[i], RowAt(x, i))
      /\ InternalPort(i, v) # 0 /\ InternalPort(i, w) = InternalPort(i, v)
      /\ \A j \in Selected(found) \ {i} :
            found[j].proto = "anytls" /\ Usable(found[j], RowAt(y, j)) =>
                    /\ InternalPort(j, w) # InternalPort(i, v)
                    /\ EndpointAt(j, w, y)[1] = EndpointAt(i, v, v)[1] =>
                          EndpointAt(i, w, x)[1] = EndpointAt(i, v, v)[1]
  <2> SUFFICES ASSUME NEW x \in w .. u, NEW y \in w .. u
               PROVE  /\ i \in Selected(found) /\ found[i].proto = "anytls" /\ Usable(found[i], RowAt(x, i))
                      /\ InternalPort(i, v) # 0 /\ InternalPort(i, w) = InternalPort(i, v)
                      /\ \A j \in Selected(found) \ {i} :
                            found[j].proto = "anytls" /\ Usable(found[j], RowAt(y, j)) =>
                              /\ InternalPort(j, w) # InternalPort(i, v)
                              /\ EndpointAt(j, w, y)[1] = EndpointAt(i, v, v)[1] =>
                                    EndpointAt(i, w, x)[1] = EndpointAt(i, v, v)[1]
    OBVIOUS
  <2>1. x \in 1 .. Len(Databases) /\ y \in 1 .. Len(Databases) /\ w <= x /\ w <= y
    BY <1>0
  <2>2. \A a, b, c, d \in 1 .. Len(Databases) : a <= b /\ b <= c /\ b <= d =>
          LET there == Databases[b].inbounds IN
            /\ i \in Selected(there) /\ there[i].proto = "anytls" /\ Usable(there[i], RowAt(c, i))
            /\ InternalPort(i, a) # 0 /\ InternalPort(i, b) = InternalPort(i, a)
            /\ \A j \in Selected(there) \ {i} :
                  there[j].proto = "anytls" /\ Usable(there[j], RowAt(d, j)) =>
                    /\ InternalPort(j, b) # InternalPort(i, a)
                    /\ EndpointAt(j, b, d)[1] = EndpointAt(i, a, a)[1] =>
                          EndpointAt(i, b, c)[1] = EndpointAt(i, a, a)[1]
    BY DEF Steady
  <2> HIDE DEF i
  <2> QED
    BY <2>1, <2>2
<1>2. /\ line.name = i /\ line.host = EndpointAt(i, v, v)[1] /\ line.port = InternalPort(i, v)
      /\ DOMAIN line = {"kind", "host", "port", "name"} /\ line.kind = "anytls"
  BY DEF LinkOf, Shape
<1>3. i \in Selected(found)
  <2>1. \A x, y \in 1 .. Len(Databases) : w <= x /\ w <= y => i \in Selected(found)
    BY DEF Steady
  <2>2. w <= w
    BY ConstantsAssumption
  <2> HIDE DEF i, found
  <2> QED
    BY <2>1, <2>2
<1>4. ASSUME NEW e \in es
      PROVE  /\ e.id \in Selected(found) /\ e.proto = found[e.id].proto /\ e.internal = InternalPort(e.id, w)
             /\ \E y \in w .. u : /\ Usable(found[e.id], RowAt(y, e.id))
                                  /\ <<e.host, e.public>> = EndpointAt(e.id, w, y)
  <2>1. /\ e.id \in DOMAIN rows /\ Usable(found[e.id], rows[e.id])
        /\ e.proto = found[e.id].proto /\ e.internal = found[e.id].port
        /\ e.host = PublicHost(found[e.id], rows[e.id])
        /\ e.public = PublicPort(found[e.id], rows[e.id])
    BY EndpointIs
  <2>2. PICK y \in w .. u : rows[e.id] = RowAt(y, e.id)
    BY <2>1 DEF Dated
  <2> QED
    BY <2>1, <2>2 DEF InternalPort, EndpointAt, Dated
<1>5. ASSUME NEW e \in es, NEW f \in es, e.id = f.id PROVE e = f
  BY <1>5, EndpointIs
<1>6. PICK own \in es : own.id = i
  <2>1. i \in DOMAIN rows
    BY <1>3
  <2>2. PICK x \in w .. u : rows[i] = RowAt(x, i)
    BY <2>1 DEF Dated
  <2>3. Usable(found[i], rows[i])
    BY <1>1, <2>2
  <2> QED
    BY <2>1, <2>3, EndpointIs
<1> HIDE DEF es, line, i, found
<1>7. PICK x \in w .. u : <<own.host, own.public>> = EndpointAt(i, w, x)
  BY <1>4, <1>6
<1>8. own.internal = line.port /\ line.port # 0 /\ own.host = EndpointAt(i, w, x)[1] /\ own.proto = "anytls"
  BY <1>1, <1>2, <1>4, <1>6, <1>7
<1>9. /\ Score(line, own) \in Nat /\ Score(line, own) >= 30
      /\ line.host # NoHost /\ own.host = line.host => Score(line, own) >= 130
  BY <1>8, SMTT(30) DEF Score
<1>10. ASSUME NEW e \in es, e.proto = "anytls", e # own
      PROVE  Score(line, e) \in Nat /\ Score(line, e) < Score(line, own)
  <2>1. e.id # i
    BY <1>5, <1>6, <1>10
  <2>2. PICK y \in w .. u : /\ Usable(found[e.id], RowAt(y, e.id))
                            /\ <<e.host, e.public>> = EndpointAt(e.id, w, y)
    BY <1>4
  <2>3. /\ e.internal # line.port
        /\ e.host = line.host => own.host = line.host
    BY <1>1, <1>2, <1>4, <1>8, <1>10, <2>1, <2>2
  <2>4. Score(line, e) \in Nat /\ Score(line, e) <= 120
        /\ (line.host = NoHost \/ e.host # line.host => Score(line, e) <= 20)
    BY <2>3, SMTT(30) DEF Score
  <2> QED
    BY <1>9, <2>3, <2>4
<1> DEFINE candidates == {e \in es : e.proto = "anytls" /\ Score(line, e) > 0}
<1>11. own \in candidates
  BY <1>8, <1>9
<1>12. \A f \in candidates : Better(line, own, f)
  <2>1. ASSUME NEW f \in candidates PROVE Better(line, own, f)
    <3>1. CASE f = own
      <4>1. i \in Nat
        BY <1>3, ConstantsAssumption DEF found, Selected
      <4> QED
        BY <1>6, <3>1, <4>1 DEF Better
    <3>2. CASE f # own
      BY <1>9, <1>10, <3>2 DEF Better
    <3> QED
      BY <3>1, <3>2
  <2> QED
    BY <2>1
<1>13. ASSUME NEW e \in candidates, \A f \in candidates : Better(line, e, f) PROVE e = own
  <2>1. Better(line, e, own)
    BY <1>11, <1>13
  <2> QED
    BY <1>9, <1>10, <1>13, <2>1 DEF Better
<1>14. (CHOOSE e \in candidates : \A f \in candidates : Better(line, e, f)) = own
  <2> HIDE DEF candidates
  <2> QED
    BY <1>11, <1>12, <1>13
<1>15. AnyTls(line, es) = [line EXCEPT !.host = own.host, !.port = own.public]
  BY <1>11, <1>14 DEF AnyTls
<1>16. [line EXCEPT !.host = own.host, !.port = own.public].name = line.name
       /\ [line EXCEPT !.host = own.host, !.port = own.public].host = own.host
       /\ [line EXCEPT !.host = own.host, !.port = own.public].port = own.public
  BY <1>2
<1>17. AnyTls(line, es).name = line.name
       /\ <<AnyTls(line, es).host, AnyTls(line, es).port>> = EndpointAt(i, w, x)
  BY <1>7, <1>15, <1>16
<1> QED
  BY <1>2, <1>17 DEF es, line, i, found

\* What the rewriting makes of the links of one version with the endpoints of later ones.
LEMMA RewriteLeads ==
    ASSUME Steady, NEW q \in Questions, NEW lines, Raw(q.items, lines), NEW throne, NEW cf,
           NEW v \in 1 .. Len(Databases), NEW w \in 1 .. Len(Databases), NEW u \in 1 .. Len(Databases),
           v <= w, w <= u, Links(q.items, lines, v), NEW b \in Nat, b <= v,
           NEW rows, Dated(rows, w, u), Selected(Databases[w].inbounds) \subseteq DOMAIN rows
    PROVE  Leads(Rewrite(lines, throne, Endpoints(Databases[w].inbounds, rows), cf), b, u)
<1> DEFINE es == Endpoints(Databases[w].inbounds, rows)
           out == Rewrite(lines, throne, es, cf)
<1> HIDE DEF es
<1>1. out \in Seq({Line(lines[n], throne, es, cf) : n \in 1 .. Len(lines)})
  <2>1. IsText(q.items)
    BY ConstantsAssumption
  <2> QED
    BY <2>1, RewriteFits
<1> HIDE DEF out
<1>2. ASSUME NEW k \in DOMAIN out, out[k].kind = "anytls"
      PROVE  \E x \in w .. u : <<out[k].host, out[k].port>> = EndpointAt(out[k].name, w, x)
  <2>1. PICK n \in 1 .. Len(lines) : out[k] = Line(lines[n], throne, es, cf)
    <3>1. out[k] \in {Line(lines[n], throne, es, cf) : n \in 1 .. Len(lines)}
      BY <1>1, <1>2
    <3> QED
      BY <3>1
  <2>2. n \in DOMAIN lines /\ n \in DOMAIN q.items /\ Shape(lines[n]) /\ lines[n].kind = q.items[n].kind
    <3>1. Len(lines) = Len(q.items) /\ DOMAIN lines = 1 .. Len(lines) /\ DOMAIN q.items = 1 .. Len(q.items)
      BY ConstantsAssumption DEF Raw, IsText
    <3> QED
      BY <3>1 DEF Raw
  <2>3. lines[n].kind = "anytls" /\ out[k] = AnyTls(lines[n], es)
    BY <1>2, <2>1, <2>2, LineOfKind
  <2>4. Shape(q.items[n])
    BY <2>2, ConstantsAssumption DEF IsText, Shape
  <2>5. lines[n] = LinkOf(q.items[n], v)
    BY <2>2, <2>3 DEF Links
  <2>6. q.items[n].kind = "anytls"
    BY <2>2, <2>3
  <2> DEFINE mine(some) == AnyTls(LinkOf(q.items[n], v), some)
             home(some) == \E x \in w .. u :
                               <<mine(some).host, mine(some).port>> = EndpointAt(mine(some).name, w, x)
  <2>7. home(Endpoints(Databases[w].inbounds, rows))
    <3>1. n \in DOMAIN q.items
      BY <2>2
    <3> QED
      BY <2>4, <2>6, <3>1, OwnScore, SMTT(60)
  <2> HIDE DEF home
  <2>8. home(es)
    BY <2>7 DEF es
  <2>9. out[k] = mine(es)
    BY <2>3, <2>5
  <2> QED
    BY <2>8, <2>9 DEF home
<1>3. w \in b .. u /\ w .. u \subseteq b .. u
  OBVIOUS
<1> QED
  BY <1>2, <1>3 DEF Leads, out, es

LEMMA DatedLonger ==
    ASSUME NEW rows, NEW w \in Nat, NEW v \in Nat, NEW u \in Nat, v <= u, Dated(rows, w, v)
    PROVE  Dated(rows, w, u)
<1>1. w .. v \subseteq w .. u
  OBVIOUS
<1> QED
  BY <1>1 DEF Dated

LEMMA TracedBeside ==
    ASSUME NEW q \in Requests, Traced(q),
           /\ stage'[q] = stage[q] /\ text'[q] = text[q] /\ read'[q] = read[q]
           /\ hosts'[q] = hosts[q] /\ sent'[q] = sent[q] /\ began'[q] = began[q],
           asks' = asks, q \in open' <=> q \in open,
           version \in Nat, version' \in Nat, version <= version'
    PROVE  Traced(q)'
<1>1. began[q] \in Nat
  BY DEF Traced
<1>2. \A v \in Nat : v .. version \subseteq v .. version'
  OBVIOUS
<1>3. Versioned(q) => Versioned(q)'
  <2> SUFFICES ASSUME Versioned(q) PROVE Versioned(q)'
    OBVIOUS
  <2>1. PICK v \in began[q] .. version : FromPanel(q, v)
    BY DEF Versioned
  <2>2. v \in Nat /\ v \in began[q] .. version'
    BY <1>1, <1>2
  <2> DEFINE Since(w) == /\ read[q] = Databases[w].inbounds /\ Dated(hosts[q], w, version)
                         /\ stage[q] = "rewrite" => Selected(read[q]) \subseteq DOMAIN hosts[q]
             Still(w) == /\ read[q] = Databases[w].inbounds /\ Dated(hosts[q], w, version')
                         /\ stage[q] = "rewrite" => Selected(read[q]) \subseteq DOMAIN hosts[q]
  <2>3. (\E w \in v .. version : Since(w)) => \E w \in v .. version' : Still(w)
    <3> SUFFICES ASSUME NEW w \in v .. version, Since(w) PROVE \E x \in v .. version' : Still(x)
      OBVIOUS
    <3>1. w \in Nat /\ w \in v .. version'
      BY <2>2
    <3>2. Dated(hosts[q], w, version')
      BY <3>1, DatedLonger
    <3> QED
      BY <3>1, <3>2
  <2> HIDE DEF Since, Still
  <2>4. stage[q] = "hosts" \/ (stage[q] = "rewrite" /\ DOMAIN hosts[q] # {}) => \E w \in v .. version' : Still(w)
    BY <2>1, <2>3 DEF FromPanel, Since
  <2>5. FromPanel(q, v)'
    BY <2>1, <2>4 DEF FromPanel, Still, Dated, RowAt
  <2> QED
    BY <2>2, <2>5 DEF Versioned
<1>4. /\ Leads(text[q], began[q], version) => Leads(text[q], began[q], version')
      /\ Leads(sent[q].lines, began[q], version) => Leads(sent[q].lines, began[q], version')
  BY <1>1, LeadsLonger
<1>5. Encoded(q)' <=> Encoded(q)
  BY DEF Encoded, Snapshot
<1> QED
  BY <1>1, <1>3, <1>4, <1>5 DEF Traced

\* What the steps of one connection leave alone.
LEMMA OneAtATime ==
    ASSUME IInv, WInv, OwnInv, NEW r \in Requests,
           \/ Connect(r) \/ Accept(r) \/ Handshake(r) \/ HandshakeFails(r) \/ Dispatch(r)
           \/ ThreadFails(r) \/ Thread(r) \/ UpstreamFails(r) \/ ReadFails(r) \/ TransformRaises(r)
    PROVE  /\ asks' = asks /\ version' = version /\ version \in Nat /\ DOMAIN began' = Requests
           /\ \A q \in Requests \ {r} : Traced(q)'
<1>1. asks' = asks /\ version' = version /\ (began' = began \/ began' = [began EXCEPT ![r] = version])
  BY DEF Connect, Accept, Handshake, HandshakeFails, Dispatch, ThreadFails, Thread, Gate, Upstream,
         ReadInbounds, ReadHost, ReadEscapes, Transform, TransformEscapes, Send, Finish, UpstreamFails, ReadFails, TransformRaises,
         client, server, work
<1>2. version \in Nat
  BY ConstantsAssumption DEF WInv, Frame
<1>3. PICK from \in Stages, to \in Stages : Goto(r, from, to)
  BY DEF Connect, Accept, Handshake, HandshakeFails, Dispatch, ThreadFails, Thread, Gate, Upstream,
         ReadInbounds, ReadHost, ReadEscapes, Transform, TransformEscapes, Send, Finish, UpstreamFails, ReadFails, TransformRaises,
         Goto, Stages
<1>4. \A q \in Requests \ {r} : stage'[q] = stage[q]
  BY <1>3, StagesKept DEF IInv
<1>5. /\ text' = text \/ \E v : text' = [text EXCEPT ![r] = v]
      /\ read' = read \/ \E v : read' = [read EXCEPT ![r] = v]
      /\ hosts' = hosts \/ \E v : hosts' = [hosts EXCEPT ![r] = v]
      /\ open' = open \/ open' = open \cup {r}
  BY DEF Connect, Accept, Handshake, HandshakeFails, Dispatch, ThreadFails, Thread, Gate, Upstream,
         ReadInbounds, ReadHost, ReadEscapes, Transform, TransformEscapes, Send, Finish, UpstreamFails, ReadFails, TransformRaises,
         work
<1>6. \A q \in Requests \ {r} : sent'[q] = sent[q]
  <2>1. sent' = sent \/ \E status, lines : Answer(r, status, lines)
    <3>1. CASE Gate(r)
      BY <3>1, Zenon DEF Gate
    <3>2. CASE ~Gate(r)
      BY <3>2 DEF Connect, Accept, Handshake, HandshakeFails, Dispatch, ThreadFails, Thread, Upstream,
         ReadInbounds, ReadHost, ReadEscapes, Transform, TransformEscapes, Send, Finish, UpstreamFails, ReadFails, TransformRaises,
         client
    <3> QED
      BY <3>1, <3>2
  <2>2. DOMAIN sent = Requests
    BY DEF IInv, Placed
  <2> QED
    BY <2>1, <2>2 DEF Answer
<1>7. ASSUME NEW q \in Requests \ {r} PROVE Traced(q)'
  <2>1. Traced(q)
    BY DEF OwnInv
  <2>2. /\ stage'[q] = stage[q] /\ text'[q] = text[q] /\ read'[q] = read[q]
        /\ hosts'[q] = hosts[q] /\ sent'[q] = sent[q] /\ began'[q] = began[q]
        /\ (q \in open' <=> q \in open)
    <3>1. /\ DOMAIN text = Requests /\ DOMAIN read = Requests /\ DOMAIN hosts = Requests
          /\ DOMAIN began = Requests
      BY DEF WInv, Frame, OwnInv
    <3> QED
      BY <1>1, <1>4, <1>5, <1>6, <3>1
  <2> QED
    BY <1>1, <1>2, <2>1, <2>2, TracedBeside
<1> QED
  BY <1>1, <1>2, <1>7 DEF OwnInv

LEMMA TracedAside ==
    ASSUME NEW r \in Requests, Traced(r), stage'[r] \notin Reading \cup {"send"},
           stage'[r] \in NotYet \cup {"gate", "upstream"} => stage[r] \in NotYet \cup {"gate", "upstream"},
           stage'[r] \in InFlight => stage[r] \in InFlight,
           text'[r] = text[r] /\ read'[r] = read[r] /\ hosts'[r] = hosts[r] /\ began'[r] = began[r],
           asks' = asks, open' = open, version' = version,
           \/ sent'[r] = sent[r]
           \/ sent'[r].status # "ok"
    PROVE  Traced(r)'
  BY DEF Traced, Reading, NotYet, InFlight, Encoded, Snapshot

LEMMA TracedMoves ==
    ASSUME IInv, WInv, OwnInv, NEW r \in Requests,
           \/ Connect(r) \/ Accept(r) \/ Handshake(r) \/ HandshakeFails(r)
           \/ ThreadFails(r) \/ Gate(r) \/ UpstreamFails(r) \/ Finish(r)
           \/ ReadEscapes(r) \/ TransformEscapes(r)
    PROVE  Traced(r)'
<1>1. PICK from \in Stages, to \in Stages :
        /\ Goto(r, from, to) /\ to \notin Reading \cup {"send"}
        /\ to \in NotYet \cup {"gate", "upstream"} => from \in NotYet \cup {"gate", "upstream"}
        /\ to \in InFlight => from \in InFlight
  <2>1. \/ Goto(r, "new", "queued") \/ Goto(r, "queued", "handshake")
        \/ Goto(r, "handshake", "accepted") \/ Goto(r, "handshake", "done") \/ Goto(r, "accepted", "done")
        \/ Goto(r, "gate", "upstream") \/ Goto(r, "gate", "finish") \/ Goto(r, "upstream", "finish")
        \/ Goto(r, "finish", "done") \/ Goto(r, "hosts", "finish") \/ Goto(r, "rewrite", "finish")
    BY DEF Connect, Accept, Handshake, HandshakeFails, ThreadFails, Gate, UpstreamFails, Finish,
           ReadEscapes, TransformEscapes
  <2> QED
    BY <2>1 DEF Stages, NotYet, InFlight, Reading
<1>2. stage[r] = from /\ stage'[r] = to
  BY <1>1, StagesKept DEF IInv, Goto
<1>3. UNCHANGED <<asks, text, read, hosts, open, began, version>>
  BY DEF Connect, Accept, Handshake, HandshakeFails, ThreadFails, Gate, UpstreamFails, Finish,
         ReadEscapes, TransformEscapes, work, client
<1>4. \/ sent' = sent
      \/ \E status \in {"not found", "unavailable"} : Answer(r, status, <<>>)
  <2>1. CASE Gate(r)
    BY <2>1, Zenon DEF Gate
  <2>2. CASE ~Gate(r)
    BY <2>2 DEF Connect, Accept, Handshake, HandshakeFails, ThreadFails, UpstreamFails, Finish,
           ReadEscapes, TransformEscapes, client
  <2> QED
    BY <2>1, <2>2
<1>5. \/ sent'[r] = sent[r]
      \/ sent'[r].status # "ok"
  <2>1. ASSUME NEW status \in {"not found", "unavailable"}, Answer(r, status, <<>>)
        PROVE  sent'[r].status # "ok"
    BY <2>1 DEF Answer, IInv, Placed
  <2> QED
    BY <1>4, <2>1
<1> QED
  BY <1>1, <1>2, <1>3, <1>5, TracedAside DEF OwnInv

LEMMA TracedDispatch == ASSUME IInv, WInv, OwnInv, NEW r \in Requests, Dispatch(r) PROVE Traced(r)'
<1>1. /\ stage[r] = "accepted" /\ stage'[r] \in {"gate", "done"}
      /\ began'[r] = version /\ UNCHANGED <<asks, sent, text, read, hosts, open, version>>
  BY DEF Dispatch, Goto, client, IInv, Placed, OwnInv
<1>2. version \in Nat /\ version # 0
  BY ConstantsAssumption DEF WInv, Frame
<1> QED
  BY <1>1, <1>2 DEF OwnInv, Traced, NotYet, InFlight, Reading

LEMMA TracedAnswers ==
    ASSUME Steady, IInv, WInv, OwnInv, NEW r \in Requests,
           \/ Upstream(r) \/ ReadInbounds(r) \/ ReadHost(r) \/ ReadFails(r) \/ Transform(r)
           \/ TransformRaises(r) \/ Send(r)
    PROVE  Traced(r)'
<1>0. Traced(r) /\ Served(r) /\ asks[r] \in Questions /\ IsText(asks[r].items)
  BY ConstantsAssumption DEF WInv, Frame, OwnInv
<1>1. version \in 1 .. Len(Databases) /\ version \in Nat /\ began[r] \in Nat /\ began[r] <= version
  BY <1>0, ConstantsAssumption DEF WInv, Frame, Traced
<1>2. asks' = asks /\ began' = began /\ version' = version
  BY DEF Upstream, ReadInbounds, ReadHost, ReadFails, Transform, TransformRaises, Send, client, work
<1>3. stage[r] \in Reading => \E v \in began[r] .. version : v \in 1 .. Len(Databases) /\ FromPanel(r, v)
  <2> SUFFICES ASSUME stage[r] \in Reading
               PROVE  \E v \in began[r] .. version : v \in 1 .. Len(Databases) /\ FromPanel(r, v)
    OBVIOUS
  <2>1. Versioned(r) /\ began[r] # 0
    BY <1>0 DEF Traced, Reading, InFlight
  <2>2. began[r] .. version \subseteq 1 .. Len(Databases)
    BY <1>1, <2>1, ConstantsAssumption
  <2> QED
    BY <2>1, <2>2 DEF Versioned
<1>4. CASE Upstream(r)
  <2>1. /\ stage[r] = "upstream" /\ stage'[r] = IF asks[r].get THEN "inbounds" ELSE "send"
        /\ text'[r] = [i \in DOMAIN asks[r].items |-> Published(asks[r].items[i])]
        /\ UNCHANGED <<sent, read, hosts, open>>
    BY <1>4 DEF Upstream, Goto, client, IInv, Placed, WInv, Frame
  <2>2. Links(asks[r].items, text'[r], version)
    BY <2>1 DEF Links, LinkOf, Published, EndpointAt, InternalPort
  <2>3. began[r] # 0 /\ DOMAIN hosts[r] = {} /\ sent[r].status # "ok"
    BY <1>0, <2>1 DEF Traced, InFlight
  <2>4. Versioned(r)' \/ stage'[r] = "send"
    <3>1. version \in began[r] .. version
      BY <1>1
    <3>2. stage'[r] = "inbounds" => FromPanel(r, version)'
      BY <1>2, <2>2 DEF FromPanel
    <3>3. stage'[r] = "inbounds" => Versioned(r)'
      BY <1>2, <3>1, <3>2 DEF Versioned
    <3> QED
      BY <2>1, <3>3
  <2>5. stage'[r] = "send" => ~Encoded(r)'
    BY <1>2, <2>1 DEF Encoded
  <2>6. stage'[r] \in InFlight \ {"gate", "upstream"} /\ stage'[r] \notin NotYet
        /\ (stage'[r] \in Reading => stage'[r] # "send")
    BY <2>1 DEF InFlight, NotYet, Reading
  <2>7. stage'[r] \in Reading => Versioned(r)'
    BY <2>4, <2>6
  <2> QED
    BY <1>1, <1>2, <2>1, <2>3, <2>5, <2>6, <2>7 DEF Traced
<1>5. CASE ReadInbounds(r)
  <2>1. /\ stage[r] = "inbounds" /\ stage'[r] \in {"hosts", "rewrite"} /\ UNCHANGED <<sent, text, open>>
        /\ read'[r] = Databases[version].inbounds /\ DOMAIN hosts'[r] = {}
    BY <1>5 DEF ReadInbounds, Goto, client, IInv, Placed, WInv, Frame, NoRows
  <2>2. PICK v \in began[r] .. version : FromPanel(r, v)
    BY <1>3, <2>1 DEF Reading
  <2>3. version \in v .. version
    BY <1>1
  <2>4. Dated(hosts'[r], version, version)
    BY <2>1 DEF Dated
  <2>5. FromPanel(r, v)'
    <3>1. stage'[r] = "hosts" \/ (stage'[r] = "rewrite" /\ DOMAIN hosts'[r] # {}) => stage'[r] = "hosts"
      BY <2>1
    <3>2. Dated(hosts[r], version, version)'
      BY <1>2, <2>4 DEF Dated, RowAt
    <3> QED
      BY <1>2, <2>1, <2>2, <2>3, <3>1, <3>2 DEF FromPanel
  <2>6. Versioned(r)'
    BY <1>2, <2>5 DEF Versioned
  <2> QED
    BY <1>0, <1>2, <2>1, <2>6 DEF Traced, NotYet, InFlight, Reading
<1>6. CASE ReadHost(r)
  <2>1. PICK i \in Unread(r) :
          /\ Goto(r, "hosts", IF Unread(r) = {i} THEN "rewrite" ELSE "hosts")
          /\ hosts' = [hosts EXCEPT ![r] = [j \in DOMAIN hosts[r] \cup {i} |->
                                              IF j = i THEN RowAt(version, i) ELSE hosts[r][j]]]
    BY <1>6 DEF ReadHost
  <2>2. /\ stage[r] = "hosts" /\ stage'[r] = (IF Unread(r) = {i} THEN "rewrite" ELSE "hosts")
        /\ UNCHANGED <<sent, text, open, read>>
        /\ DOMAIN hosts'[r] = DOMAIN hosts[r] \cup {i}
        /\ \A j \in DOMAIN hosts'[r] : hosts'[r][j] = IF j = i THEN RowAt(version, i) ELSE hosts[r][j]
    BY <1>6, <2>1 DEF ReadHost, Goto, client, IInv, Placed, WInv, Frame
  <2>3. PICK v \in began[r] .. version : FromPanel(r, v)
    BY <1>3, <2>2 DEF Reading
  <2>4. PICK w \in v .. version : read[r] = Databases[w].inbounds /\ Dated(hosts[r], w, version)
    BY <2>2, <2>3 DEF FromPanel
  <2>5. version \in w .. version
    BY <1>1
  <2>6. Dated(hosts'[r], w, version)
    <3>1. i \in Selected(Databases[w].inbounds)
      BY <2>4 DEF Unread
    <3>2. ASSUME NEW j \in DOMAIN hosts'[r] PROVE \E x \in w .. version : hosts'[r][j] = RowAt(x, j)
      <4>1. CASE j = i
        BY <2>2, <2>5, <4>1
      <4>2. CASE j # i
        BY <2>2, <2>4, <4>2 DEF Dated
      <4> QED
        BY <4>1, <4>2
    <3>3. DOMAIN hosts'[r] \subseteq Selected(Databases[w].inbounds)
      BY <2>2, <2>4, <3>1 DEF Dated
    <3> QED
      BY <3>2, <3>3 DEF Dated
  <2>7. stage'[r] = "rewrite" => Selected(read[r]) \subseteq DOMAIN hosts'[r]
    BY <2>2 DEF Unread
  <2>8. FromPanel(r, v)'
    <3>1. Dated(hosts[r], w, version)'
      BY <1>2, <2>6 DEF Dated, RowAt
    <3>2. Links(asks[r].items, text[r], v)'
      BY <1>2, <2>2, <2>3 DEF FromPanel
    <3>3. w \in v .. version' /\ read'[r] = Databases[w].inbounds
          /\ (stage'[r] = "rewrite" => Selected(read'[r]) \subseteq DOMAIN hosts'[r])
      BY <1>2, <2>2, <2>4, <2>7
    <3> QED
      BY <3>1, <3>2, <3>3 DEF FromPanel
  <2>9. Versioned(r)'
    BY <1>2, <2>8 DEF Versioned
  <2> QED
    BY <1>0, <1>2, <2>2, <2>9 DEF Traced, NotYet, InFlight, Reading
<1>7. CASE ReadFails(r)
  <2>1. /\ stage[r] \in {"inbounds", "hosts"} /\ stage'[r] = "rewrite"
        /\ UNCHANGED <<sent, text, open>> /\ DOMAIN hosts'[r] = {}
    BY <1>7 DEF ReadFails, client, IInv, Placed, WInv, Frame, NoRows
  <2>2. PICK v \in began[r] .. version : FromPanel(r, v)
    BY <1>3, <2>1 DEF Reading
  <2>3. FromPanel(r, v)'
    BY <1>2, <2>1, <2>2 DEF FromPanel
  <2>4. Versioned(r)'
    BY <1>2, <2>3 DEF Versioned
  <2> QED
    BY <1>0, <1>2, <2>1, <2>4 DEF Traced, NotYet, InFlight, Reading
<1>8. CASE Transform(r)
  <2>0. PICK c : text' = [text EXCEPT ![r] = Rewritten(r, c)]
    BY <1>8 DEF Transform
  <2>1. /\ stage[r] = "rewrite" /\ stage'[r] = "send" /\ UNCHANGED <<sent, read, hosts, open>>
        /\ text'[r] = Rewritten(r, c)
    BY <1>8, <2>0 DEF Transform, Goto, client, IInv, Placed, WInv, Frame
  <2>2. Encoded(r) => Leads(text'[r], began[r], version)
    <3> SUFFICES ASSUME Encoded(r) PROVE Leads(text'[r], began[r], version)
      OBVIOUS
    <3>1. text'[r] = Rewrite(text[r], asks[r].throne, Endpoints(read[r], hosts[r]), c)
      BY <2>1 DEF Encoded, Rewritten, Snapshot
    <3>2. DOMAIN hosts[r] # {}
      BY DEF Encoded, Snapshot, Endpoints
    <3>3. PICK v \in began[r] .. version : v \in 1 .. Len(Databases) /\ FromPanel(r, v)
      BY <1>3, <2>1 DEF Reading
    <3>4. PICK w \in v .. version :
            /\ read[r] = Databases[w].inbounds /\ Dated(hosts[r], w, version)
            /\ Selected(read[r]) \subseteq DOMAIN hosts[r]
      BY <2>1, <3>2, <3>3 DEF FromPanel
    <3>5. w \in 1 .. Len(Databases) /\ v <= w /\ w <= version /\ began[r] <= v
      BY <1>1, <3>3, ConstantsAssumption
    <3>6. Raw(asks[r].items, text[r]) /\ Links(asks[r].items, text[r], v)
      BY <1>0, <2>1, <3>3 DEF Served, Reading, FromPanel
    <3>7. Leads(Rewrite(text[r], asks[r].throne,
                        Endpoints(Databases[w].inbounds, hosts[r]), c), began[r], version)
      BY <1>0, <1>1, <3>3, <3>4, <3>5, <3>6, RewriteLeads
    <3> QED
      BY <3>1, <3>4, <3>7
  <2>3. Encoded(r)' <=> Encoded(r)
    BY <1>2, <2>1 DEF Encoded, Snapshot
  <2> QED
    BY <1>0, <1>2, <2>1, <2>2, <2>3 DEF Traced, NotYet, InFlight, Reading
<1>9. CASE TransformRaises(r)
  <2>1. /\ stage[r] = "rewrite" /\ stage'[r] = "send" /\ UNCHANGED <<sent, text, read, hosts>>
        /\ r \in open'
    BY <1>9 DEF TransformRaises, Goto, client, IInv, Placed
  <2> QED
    BY <1>0, <1>2, <2>1 DEF Traced, NotYet, InFlight, Reading, Encoded
<1>10. CASE Send(r)
  <2>1. /\ stage[r] = "send" /\ stage'[r] = "finish" /\ UNCHANGED <<text, read, hosts, open>>
        /\ sent'[r] = [status |-> "ok", lines |-> text[r]]
    BY <1>10 DEF Send, Answer, Goto, work, IInv, Placed
  <2>2. Encoded(r)' <=> Encoded(r)
    BY <1>2, <2>1 DEF Encoded, Snapshot
  <2>3. sent'[r].lines = text[r]
    BY <2>1
  <2> QED
    BY <1>0, <1>2, <2>1, <2>2, <2>3 DEF Traced, NotYet, InFlight, Reading
<1> QED
  BY <1>4, <1>5, <1>6, <1>7, <1>8, <1>9, <1>10

LEMMA OwnInvariant == ASSUME Steady PROVE Spec => []OwnInv
<1>1. Init => OwnInv
  <2> SUFFICES ASSUME Init, NEW r \in Requests PROVE DOMAIN began = Requests /\ Traced(r)
    BY DEF OwnInv, Init
  <2>1. /\ stage[r] = "new" /\ DOMAIN hosts[r] = {} /\ sent[r] = Nothing /\ began[r] = 0
        /\ version = 1 /\ DOMAIN began = Requests
    BY DEF Init, NoRows
  <2> QED
    BY <2>1 DEF Traced, NotYet, InFlight, Reading, Nothing
<1>2. ASSUME IInv, WInv, OwnInv, [Next]_vars PROVE OwnInv'
  <2>1. version \in Nat
    BY <1>2, ConstantsAssumption DEF WInv, Frame
  <2>2. CASE UNCHANGED vars
    <3>1. UNCHANGED <<asks, sent, stage, version, text, read, hosts, began, open>>
      BY <2>2 DEF vars, client, work
    <3> QED
      BY <1>2, <2>1, <3>1, TracedBeside DEF OwnInv
  <2>3. CASE Commit
    <3>1. UNCHANGED <<asks, sent, stage, text, read, hosts, began, open>> /\ version' = version + 1
      BY <2>3 DEF Commit, client, work
    <3>2. version' \in Nat /\ version <= version'
      BY <2>1, <3>1
    <3> QED
      BY <1>2, <2>1, <3>1, <3>2, TracedBeside DEF OwnInv
  <2>4. ASSUME NEW r \in Requests,
               \/ Connect(r) \/ Accept(r) \/ Handshake(r) \/ HandshakeFails(r) \/ Dispatch(r)
               \/ ThreadFails(r) \/ Thread(r) \/ UpstreamFails(r) \/ ReadFails(r) \/ TransformRaises(r)
        PROVE  OwnInv'
    <3>1. DOMAIN began' = Requests /\ \A q \in Requests \ {r} : Traced(q)'
      BY <1>2, <2>4, OneAtATime
    <3>2. Traced(r)'
      BY <1>2, <2>4, TracedMoves, TracedDispatch, TracedAnswers DEF Thread
    <3> QED
      BY <3>1, <3>2 DEF OwnInv
  <2> QED
    BY <1>2, <2>2, <2>3, <2>4 DEF Next
<1> QED
  BY Invariant, SecondInvariant, <1>1, <1>2, PTL DEF Spec

(***************************************************************************)
(* For any number of connections, inbounds and versions of the database,   *)
(* and whatever the panel commits between its answer and each reading:     *)
(* as long as the score can tell the inbounds apart (Steady), an AnyTLS    *)
(* link leads to an endpoint that its own inbound had while the request    *)
(* was served.                                                             *)
(***************************************************************************)
THEOREM LinksLeadHome == ASSUME Steady PROVE Spec => []OwnEndpoint
<1>1. OwnInv => OwnEndpoint
  BY DEF OwnInv, Traced, Encoded, Leads, OwnEndpoint
<1> QED
  BY OwnInvariant, <1>1, PTL

-----------------------------------------------------------------------------
(* Frontend *)

\* Files whose routes were decided from the facts that they are recorded with.
Rendered(f) == f.routes \subseteq Kept(Classify(f.settings, f.inbounds, f.source))

StagedRendered == staged # None => Rendered(staged)

LEMMA FilesRendered ==
    ASSUME NEW m, NEW ps, NEW s, NEW cached, NEW promised
    PROVE  Rendered(Files(m, ps, s, cached, promised))
<1> DEFINE f == Files(m, ps, s, cached, promised)
<1>1. /\ f.settings = m /\ f.inbounds = ps /\ f.source = s
      /\ f.routes = IF m.mode = "strict" THEN {} ELSE Kept(Classify(m, ps, s))
  BY DEF Files
<1> QED
  BY <1>1 DEF Rendered

LEMMA StagedStep == ASSUME StagedRendered, [FrontNext]_frontVars PROVE StagedRendered'
<1>1. CASE Stage
  BY <1>1, FilesRendered DEF Stage, StagedRendered
<1>2. CASE CommitFiles \/ GiveUp
  BY <1>2 DEF CommitFiles, GiveUp, StagedRendered
<1>3. CASE staged' = staged
  BY <1>3 DEF StagedRendered
<1> QED
  BY <1>1, <1>2, <1>3 DEF FrontNext, EditPanel, EditSource, EditRoutes, Plan, frontVars

\* The files in force change in a commit only, and that looks at the facts again.
LEMMA FreshStep ==
    ASSUME StagedRendered, [FrontNext]_frontVars, live' # live
    PROVE  /\ live'.inbounds = Enabled /\ live'.source = source
           /\ live'.routes \subseteq Kept(Classify(live'.settings, Enabled, source))
<1>1. CommitFiles
  BY DEF FrontNext, EditPanel, EditSource, EditRoutes, Plan, Stage, GiveUp, frontVars
<1>2. live' = staged /\ staged.inbounds = Enabled /\ staged.source = source /\ Rendered(staged)
  BY <1>1 DEF CommitFiles, Unmoved, StagedRendered
<1> QED
  BY <1>2 DEF Rendered

(***************************************************************************)
(* Whatever was planned, saved or edited in between: the files put in      *)
(* force were decided from the panel and the sources as they are then.     *)
(***************************************************************************)
THEOREM FilesAreFresh == FrontSpec => LiveIsFresh
<1>1. FrontInit => StagedRendered
  BY DEF FrontInit, StagedRendered
<1>2. StagedRendered /\ [FrontNext]_frontVars => StagedRendered'
  BY StagedStep
<1>3. StagedRendered /\ [FrontNext]_frontVars =>
        [live' # live => live'.inbounds = Enabled /\ live'.source = source
                         /\ live'.routes \subseteq Kept(Classify(live'.settings, Enabled, source))]_frontVars
  BY FreshStep
<1> QED
  BY <1>1, <1>2, <1>3, PTL DEF FrontSpec, LiveIsFresh

-----------------------------------------------------------------------------
(* Ports *)

\* No two keys have as many keys before them.
Told(before) == \A j, k \in DOMAIN before : j # k => Cardinality(before[j]) # Cardinality(before[k])

LEMMA AllocateGives ==
    ASSUME NEW before, NEW start, NEW taken
    PROVE  /\ Range(Allocate(before, start, taken).port) \cap taken = {}
           /\ Told(before) => IsInjective(Allocate(before, start, taken).port)
<1> DEFINE free == (start .. LastPort) \ taken
           PortsOf(k) == {p \in free : Cardinality({q \in free : q < p}) = Cardinality(before[k])}
           none == {k \in DOMAIN before : PortsOf(k) = {}}
           port == Allocate(before, start, taken).port
<1>1. port = [k \in DOMAIN before \ none |-> CHOOSE p \in PortsOf(k) : TRUE]
  BY DEF Allocate
<1>2. \A k \in DOMAIN before \ none : PortsOf(k) # {}
  OBVIOUS
<1> HIDE DEF port, none
<1>3. \A k \in DOMAIN port : port[k] \in PortsOf(k) /\ k \in DOMAIN before
  BY <1>1, <1>2
<1>4. \A k \in DOMAIN port : port[k] \notin taken
  BY <1>3
<1>5. \A k \in DOMAIN port : Cardinality({q \in free : q < port[k]}) = Cardinality(before[k])
  BY <1>3
<1> HIDE DEF free
<1>6. Told(before) => IsInjective(port)
  BY <1>3, <1>5 DEF Told, IsInjective
<1>7. Range(port) \cap taken = {}
  BY <1>4 DEF Range
<1> QED
  BY <1>6, <1>7 DEF port

\* Of two keys the later one has more before it.
LEMMA Fewer ==
    ASSUME NEW A, NEW B, IsFiniteSet(B), A \subseteq B, A # B
    PROVE  Cardinality(A) # Cardinality(B)
<1>1. IsFiniteSet(A) /\ Cardinality(A) <= Cardinality(B) /\ (Cardinality(A) = Cardinality(B) => A = B)
  BY FS_Subset
<1> QED
  BY <1>1

LEMMA AscendingTold == ASSUME NEW ids, ids \subseteq Nat, IsFiniteSet(ids) PROVE Told(Ascending(ids))
<1>1. ASSUME NEW i \in ids, NEW j \in ids, i < j
      PROVE  Cardinality(Ascending(ids)[i]) # Cardinality(Ascending(ids)[j])
  <2> DEFINE A == {x \in ids : x < i}
             B == {x \in ids : x < j}
  <2>1. i \in Nat /\ j \in Nat
    OBVIOUS
  <2>2. i \in B /\ i \notin A
    BY <1>1, <2>1
  <2>3. ASSUME NEW x \in A PROVE x \in B
    <3>1. x \in Nat
      OBVIOUS
    <3> QED
      BY <1>1, <2>1, <3>1
  <2>4. IsFiniteSet(B)
    BY FS_Subset
  <2>5. A = Ascending(ids)[i] /\ B = Ascending(ids)[j]
    BY DEF Ascending
  <2> HIDE DEF A, B
  <2> QED
    BY <2>2, <2>3, <2>4, <2>5, Fewer
<1>2. \A i, j \in ids : i # j => i < j \/ j < i
  OBVIOUS
<1>3. DOMAIN Ascending(ids) = ids
  BY DEF Ascending
<1> QED
  BY <1>1, <1>2, <1>3 DEF Told

LEMMA ConnectTold ==
    ASSUME NEW m, NEW rs, IsFiniteSet(DOMAIN ConnectKeys(m, rs)),
           \A r \in rs : r.id \in Nat /\ \A i \in Ingresses(r.facts, m.shared) : i.port \in Nat
    PROVE  Told(ConnectKeys(m, rs))
<1> DEFINE own == {r \in rs : r.strategy = "naive_connect_h2"}
           all == UNION {{<<r.id, i.port>> : i \in Ingresses(r.facts, m.shared)} : r \in own}
           Before(a) == {b \in all : b[1] < a[1] \/ (b[1] = a[1] /\ b[2] < a[2])}
<1>1. ConnectKeys(m, rs) = [a \in all |-> Before(a)]
  BY DEF ConnectKeys
<1>2. all \subseteq Nat \X Nat
  OBVIOUS
<1>3. IsFiniteSet(all)
  BY <1>1
<1> HIDE DEF all
<1>4. ASSUME NEW a \in all, NEW c \in all, a[1] < c[1] \/ (a[1] = c[1] /\ a[2] < c[2])
      PROVE  Cardinality(Before(a)) # Cardinality(Before(c))
  <2>1. a \in Nat \X Nat /\ c \in Nat \X Nat
    BY <1>2
  <2>2. ASSUME NEW b \in Before(a) PROVE b \in Before(c)
    <3>1. b \in Nat \X Nat
      BY <1>2
    <3> QED
      BY <1>4, <2>1, <3>1
  <2>3. a \in Before(c) /\ a \notin Before(a)
    BY <1>4, <2>1
  <2>4. IsFiniteSet(Before(c))
    BY <1>3, FS_Subset
  <2> HIDE DEF Before
  <2> QED
    BY <2>2, <2>3, <2>4, Fewer
<1>5. \A a, c \in all : a # c => \/ a[1] < c[1] \/ (a[1] = c[1] /\ a[2] < c[2])
                                 \/ c[1] < a[1] \/ (c[1] = a[1] /\ c[2] < a[2])
  BY <1>2
<1> HIDE DEF Before
<1> QED
  BY <1>1, <1>4, <1>5 DEF Told

-----------------------------------------------------------------------------
(* The routes *)

\* Inbounds that the panel may hold.
Known(ps) == \A p \in ps : p.id \in ID /\ PortsIn(p)

\* A route is about one of the inbounds.
About(r, ps) == {"id", "facts"} \subseteq DOMAIN r /\ r.facts \in ps /\ r.id = r.facts.id

LEMMA RouteAbout ==
    ASSUME NEW m, NEW ps, NEW src, NEW k \in DOMAIN Classify(m, ps, src)
    PROVE  About(Classify(m, ps, src)[k], ps)
<1> DEFINE row     == [i \in {p.id : p \in ps} |-> Route(m, By(ps, i), src[i])]
           managed == {i \in DOMAIN row : row[i].strategy = "naive_managed"}
           given   == Allocate(Ascending(managed), ManagedStart, ManagedOccupied(m, ps))
           Decided(i) == IF i \notin managed THEN row[i]
                         ELSE IF i \in given.none THEN [row[i] EXCEPT !.strategy = Blocked, !.status = "blocked"]
                         ELSE [row[i] EXCEPT !.listen = given.port[i]]
<1>1. k \in UNION {Rows(p) : p \in ps} /\ Classify(m, ps, src)[k] = Decided(k[1])
  BY DEF Classify
<1>2. PICK p \in ps : k \in Rows(p)
  BY <1>1
<1>3. k[1] = p.id
  BY <1>2 DEF Rows
<1>4. By(ps, k[1]) \in ps /\ By(ps, k[1]).id = k[1]
  BY <1>3 DEF By
<1>5. row[k[1]] = Route(m, By(ps, k[1]), src[k[1]])
  BY <1>3
<1>6. About(row[k[1]], ps)
  BY <1>4, <1>5 DEF Route, About
<1> HIDE DEF row, managed, given
<1>7. About(Decided(k[1]), ps)
  BY <1>6 DEF About
<1> QED
  BY <1>1, <1>7

LEMMA KeptAbout ==
    ASSUME NEW m, NEW ps, NEW src, NEW r \in Kept(Classify(m, ps, src))
    PROVE  About(r, ps)
<1>1. PICK x \in Range(Classify(m, ps, src)) :
        r = [x EXCEPT !.strategy = IF Passed(x) THEN "passthrough" ELSE @]
  BY DEF Kept
<1>2. About(x, ps)
  BY <1>1, RouteAbout DEF Range
<1> QED
  BY <1>1, <1>2 DEF About

\* The routes of inbounds that the panel may hold.
Led(rs, ps) == Known(ps) /\ \A r \in rs : About(r, ps)

LEMMA IngressPorts ==
    ASSUME NEW p, NEW shared, NEW i \in Ingresses(p, shared)
    PROVE  \/ i.port = shared
           \/ Routed(p) /\ (i.port = p.public \/ \E e \in p.eps : i.port = e.port)
<1>1. CASE i \in At(shared, Domains(p), "site")
  BY <1>1 DEF At
<1>2. CASE i \in At(p.public, p.snis, "vpn") \cup At(p.public, {p.domain}, "site") /\ Routed(p)
  BY <1>2 DEF At
<1>3. ASSUME NEW e \in p.eps, i \in At(e.port, e.names, "vpn") \cup At(e.port, {e.addr}, "site"), Routed(p)
      PROVE  i.port = e.port
  BY <1>3 DEF At
<1> QED
  BY <1>1, <1>2, <1>3 DEF Ingresses

LEMMA LedPorts ==
    ASSUME NEW m, NEW rs, NEW ps, Led(rs, ps), m.shared \in 1 .. LastPort
    PROVE  \A r \in rs : r.id \in ID /\ \A i \in Ingresses(r.facts, m.shared) : i.port \in 1 .. LastPort
<1> SUFFICES ASSUME NEW r \in rs
             PROVE  r.id \in ID /\ \A i \in Ingresses(r.facts, m.shared) : i.port \in 1 .. LastPort
  OBVIOUS
<1>1. r.id \in ID /\ PortsIn(r.facts)
  BY DEF Led, Known, About
<1> QED
  BY <1>1, IngressPorts DEF PortsIn

\* The listeners for the routes of such inbounds: all on ports of their own.
LEMMA SplitApart ==
    ASSUME NEW m, NEW rs, NEW ps, Led(rs, ps), m.shared \in 1 .. LastPort
    PROVE  /\ IsInjective(SplitPorts(m, ps, rs).port)
           /\ Range(SplitPorts(m, ps, rs).port) \cap (Reserved(m, ps) \cup {r.listen : r \in rs}) = {}
<1> DEFINE ids == {r.id : r \in {x \in rs : x.strategy \in SplitStrategies}}
<1>1. ids \subseteq ID
  BY LedPorts
<1>2. ids \subseteq Nat /\ IsFiniteSet(ids)
  BY <1>1, FS_Subset, InboundsAssumption
<1> HIDE DEF ids
<1>3. Told(Ascending(ids))
  BY <1>2, AscendingTold
<1> QED
  BY <1>3, AllocateGives DEF SplitPorts, ids

LEMMA ConnectApart ==
    ASSUME NEW m, NEW rs, NEW ps, Led(rs, ps), m.shared \in 1 .. LastPort
    PROVE  /\ IsInjective(ConnectPorts(m, ps, rs).port)
           /\ Range(ConnectPorts(m, ps, rs).port) \cap (Reserved(m, ps) \cup {r.listen : r \in rs}) = {}
           /\ Range(ConnectPorts(m, ps, rs).port) \cap Range(SplitPorts(m, ps, rs).port) = {}
<1> DEFINE given == SplitPorts(m, ps, rs)
           used  == {given.port[i] : i \in DOMAIN given.port}
           start == IF used = {} THEN SplitStart ELSE Max(used) + 1
           taken == Reserved(m, ps) \cup used \cup {r.listen : r \in rs}
<1>1. DOMAIN ConnectKeys(m, rs) \subseteq ID \X (1 .. LastPort)
  BY LedPorts DEF ConnectKeys
<1>2. IsFiniteSet(ID \X (1 .. LastPort))
  <2>1. 1 \in Int /\ LastPort \in Int /\ IsFiniteSet(ID)
    BY InboundsAssumption
  <2>2. IsFiniteSet(1 .. LastPort)
    BY <2>1, FS_Interval
  <2> QED
    BY <2>1, <2>2, FS_Product
<1>3. IsFiniteSet(DOMAIN ConnectKeys(m, rs))
  BY <1>1, <1>2, FS_Subset
<1>4. \A r \in rs : r.id \in Nat /\ \A i \in Ingresses(r.facts, m.shared) : i.port \in Nat
  <2>1. ID \subseteq Nat /\ LastPort \in Nat
    BY InboundsAssumption
  <2>2. \A x \in 1 .. LastPort : x \in Nat
    BY <2>1
  <2> QED
    BY <2>1, <2>2, LedPorts
<1>5. Told(ConnectKeys(m, rs))
  BY <1>3, <1>4, ConnectTold
<1>6. ConnectPorts(m, ps, rs) = Allocate(ConnectKeys(m, rs), start, taken)
  BY DEF ConnectPorts
<1>7. used = Range(given.port)
  BY DEF Range
<1> HIDE DEF given, used, start, taken
<1>8. IsInjective(ConnectPorts(m, ps, rs).port) /\ Range(ConnectPorts(m, ps, rs).port) \cap taken = {}
  BY <1>5, <1>6, AllocateGives
<1> QED
  BY <1>7, <1>8 DEF taken, given

-----------------------------------------------------------------------------
(* The files *)

LEMMA KeptLed == ASSUME NEW m, NEW ps, NEW src, Known(ps) PROVE Led(Kept(Classify(m, ps, src)), ps)
BY KeptAbout DEF Led

LEMMA FilesAre ==
    ASSUME NEW m, NEW ps, NEW src, NEW cached, NEW promised, NEW f, f = Files(m, ps, src, cached, promised)
    PROVE  LET rs == Kept(Classify(m, ps, src)) IN
           /\ f.settings = m /\ f.inbounds = ps
           /\ f.closed = Closed(m, ps, cached) /\ f.admits = Admitted(m, ps)
           /\ m.mode = "strict" => /\ f.routes = {} /\ f.split = <<>> /\ f.connect = <<>>
                                   /\ f.table = StrictTable(m, ps, promised)
           /\ m.mode # "strict" => /\ f.routes = rs /\ f.split = SplitPorts(m, ps, rs).port
                                   /\ f.connect = ConnectPorts(m, ps, rs).port
                                   /\ f.table = ExtendedTable(m, rs)
BY DEF Files

LEMMA NoPorts == IsInjective(<<>>) /\ Range(<<>>) = {}
BY DEF IsInjective, Range

LEMMA FilesApart ==
    ASSUME NEW m, NEW ps, NEW src, NEW cached, NEW promised, Known(ps), m.shared \in 1 .. LastPort
    PROVE  Apart(Files(m, ps, src, cached, promised))
<1> DEFINE f  == Files(m, ps, src, cached, promised)
           rs == Kept(Classify(m, ps, src))
<1>1. f = Files(m, ps, src, cached, promised)
  OBVIOUS
<1> HIDE DEF f
<1>2. CASE m.mode = "strict"
  BY <1>1, <1>2, FilesAre, NoPorts DEF Apart
<1>3. CASE m.mode # "strict"
  <2>1. Led(rs, ps)
    BY KeptLed
  <2> HIDE DEF rs
  <2>2. /\ IsInjective(SplitPorts(m, ps, rs).port)
        /\ Range(SplitPorts(m, ps, rs).port) \cap (Reserved(m, ps) \cup {r.listen : r \in rs}) = {}
    BY <2>1, SplitApart
  <2>3. /\ IsInjective(ConnectPorts(m, ps, rs).port)
        /\ Range(ConnectPorts(m, ps, rs).port) \cap (Reserved(m, ps) \cup {r.listen : r \in rs}) = {}
        /\ Range(ConnectPorts(m, ps, rs).port) \cap Range(SplitPorts(m, ps, rs).port) = {}
    BY <2>1, ConnectApart
  <2>4. /\ f.settings = m /\ f.inbounds = ps /\ f.routes = rs
        /\ f.split = SplitPorts(m, ps, rs).port /\ f.connect = ConnectPorts(m, ps, rs).port
    BY <1>1, <1>3, FilesAre DEF rs
  <2> DEFINE managed == {r.listen : r \in {x \in f.routes : x.strategy = "naive_managed"}}
  <2>5. managed \subseteq {r.listen : r \in rs}
    BY <2>4
  <2> HIDE DEF managed
  <2>6. (Range(f.split) \cup Range(f.connect)) \cap (Reserved(f.settings, f.inbounds) \cup managed) = {}
    BY <2>2, <2>3, <2>4, <2>5
  <2>7. IsInjective(f.split) /\ IsInjective(f.connect) /\ Range(f.split) \cap Range(f.connect) = {}
    BY <2>2, <2>3, <2>4
  <2> QED
    BY <2>6, <2>7 DEF Apart, managed, f
<1> QED
  BY <1>2, <1>3 DEF f

\* What the firewall admits is what a person has made public.
LEMMA AdmittedPublic ==
    ASSUME NEW m, NEW ps
    PROVE  Admitted(m, ps) \subseteq Public(m, ps) /\ Public(m, ps) \subseteq Reserved(m, ps)
<1> DEFINE own(p) == {p.public} \cup {e.port : e \in p.eps} \cup p.ports \cup p.span
           ports(p) == CASE p.expo = "tcp_sni" -> {p.public} \cup {i.port : i \in Ingresses(p, m.shared)}
                        [] p.expo \in {"tcp_direct", "tcp_udp_direct"} -> {p.public} \cup p.ports \cup p.span
                        [] OTHER -> {}
<1>1. \A p \in ps : ports(p) \subseteq own(p) \cup {m.shared}
  BY IngressPorts
<1>2. Admitted(m, ps) = {m.panelPort, m.subPort} \cup (IF m.enabled THEN {m.shared} ELSE {})
                        \cup UNION {ports(p) : p \in ps}
  BY DEF Admitted
<1>3. Public(m, ps) = {m.shared, m.panelPort, m.subPort} \cup UNION {own(p) : p \in ps}
  BY DEF Public
<1>4. Public(m, ps) \subseteq Reserved(m, ps)
  BY DEF Public, Reserved
<1> HIDE DEF own, ports
<1> QED
  BY <1>1, <1>2, <1>3, <1>4

\* Where the frontend is enabled, every public port of an inbound is admitted.
LEMMA IngressAdmitted ==
    ASSUME NEW m, NEW ps, NEW p \in ps, NEW i \in Ingresses(p, m.shared), m.enabled \/ p.expo = "tcp_sni"
    PROVE  i.port \in Admitted(m, ps)
<1>1. CASE p.expo = "tcp_sni"
  BY <1>1 DEF Admitted
<1>2. CASE p.expo # "tcp_sni"
  BY <1>2, IngressPorts DEF Admitted, Routed
<1> QED
  BY <1>1, <1>2

LEMMA StrictPorts ==
    ASSUME NEW m, NEW ps, NEW promised, NEW e \in StrictTable(m, ps, promised)
    PROVE  e.port \in Admitted(m, ps)
<1>1. CASE e.port \in {m.panelPort, m.subPort}
  BY <1>1 DEF Admitted
<1>2. CASE \E p \in ps : p.expo = "tcp_sni" /\ \E i \in Ingresses(p, m.shared) : e.port = i.port
  BY <1>2, IngressAdmitted
<1>3. CASE m.enabled /\ e.port = m.shared
  BY <1>3 DEF Admitted
<1>4. \/ e.port \in {m.panelPort, m.subPort}
      \/ \E p \in ps : p.expo = "tcp_sni" /\ \E i \in Ingresses(p, m.shared) : e.port = i.port
      \/ m.enabled /\ e.port = m.shared
  <2> DEFINE admin == {Entry(m.panelPort, Panel, To("panel", 0, 0)), Entry(m.subPort, Sub, To("sub", 0, 0))}
             vpn == UNION {{Entry(i.port, i.name, To("inbound", p.id, 0)) :
                              i \in {x \in Ingresses(p, m.shared) : x.kind = "vpn" \/ p.sec # "reality"}} :
                            p \in {q \in ps : q.expo = "tcp_sni"}}
             sites == {Entry(m.shared, d, Site) : d \in {x \in promised \cap m.sites :
                                                            ~Owned(admin \cup vpn, m.shared, x)}}
  <2>1. e \in admin \/ e \in vpn \/ (m.enabled /\ e \in sites)
    <3> HIDE DEF admin, vpn, sites
    <3>1. StrictTable(m, ps, promised) = admin \cup vpn \cup IF ~m.enabled THEN {} ELSE sites
      BY DEF StrictTable, admin, vpn, sites
    <3> QED
      BY <3>1
  <2>2. CASE e \in admin
    BY <2>2 DEF Entry
  <2>3. CASE e \in vpn
    BY <2>3 DEF Entry
  <2>4. CASE m.enabled /\ e \in sites
    <3>1. PICK d : e = Entry(m.shared, d, Site)
      BY <2>4
    <3> QED
      BY <2>4, <3>1 DEF Entry
  <2> QED
    BY <2>1, <2>2, <2>3, <2>4
<1> QED
  BY <1>1, <1>2, <1>3, <1>4

LEMMA ExtendedPorts ==
    ASSUME NEW m, NEW ps, NEW rs, Led(rs, ps), m.enabled, NEW e \in ExtendedTable(m, rs)
    PROVE  e.port \in Admitted(m, ps)
<1>1. CASE e.port \in {m.panelPort, m.subPort, m.shared}
  BY <1>1 DEF Admitted
<1>2. ASSUME NEW r \in rs, NEW i \in Ingresses(r.facts, m.shared), e.port = i.port
      PROVE  e.port \in Admitted(m, ps)
  BY <1>2, IngressAdmitted DEF Led, About
<1>3. \/ e.port \in {m.panelPort, m.subPort, m.shared}
      \/ \E r \in rs : \E i \in Ingresses(r.facts, m.shared) : e.port = i.port
  <2> DEFINE own  == OwnEntries(m, rs)
             side == own \cup SideEntries(m, rs, own)
  <2>1. e \in own \/ e \in SideEntries(m, rs, own) \/ e \in AloneEntries(m, rs, side)
    BY Zenon DEF ExtendedTable
  <2>2. CASE e \in own
    BY <2>2 DEF OwnEntries, Entry
  <2> HIDE DEF own, side
  <2>3. CASE e \in SideEntries(m, rs, own)
    BY <2>3 DEF SideEntries, Entry
  <2>4. CASE e \in AloneEntries(m, rs, side)
    BY <2>4 DEF AloneEntries, Entry
  <2> QED
    BY <2>1, <2>2, <2>3, <2>4
<1> QED
  BY <1>1, <1>2, <1>3

LEMMA FilesFit ==
    ASSUME NEW m, NEW ps, NEW src, NEW cached, NEW promised, Known(ps), m.shared \in 1 .. LastPort,
           m.mode \in {"strict", "extended"}, SettingsValid(m)
    PROVE  WallFits(Files(m, ps, src, cached, promised))
<1> DEFINE f  == Files(m, ps, src, cached, promised)
           rs == Kept(Classify(m, ps, src))
<1>1. f = Files(m, ps, src, cached, promised)
  OBVIOUS
<1> HIDE DEF f
<1>2. {e.port : e \in f.table} \subseteq f.admits
  <2>1. CASE m.mode = "strict"
    BY <1>1, <2>1, FilesAre, StrictPorts
  <2>2. CASE m.mode = "extended"
    <3>1. m.enabled /\ f.table = ExtendedTable(m, rs) /\ f.admits = Admitted(m, ps)
      BY <1>1, <2>2, FilesAre DEF SettingsValid
    <3>2. Led(rs, ps)
      BY KeptLed
    <3> HIDE DEF rs
    <3> QED
      BY <3>1, <3>2, ExtendedPorts
  <2> QED
    BY <2>1, <2>2
<1>3. Admitted(m, ps) \subseteq Public(m, ps) /\ Admitted(m, ps) \subseteq Reserved(m, ps)
  BY AdmittedPublic
<1>4. (Range(f.split) \cup Range(f.connect)) \cap f.admits = {}
  <2>1. Apart(f) /\ f.settings = m /\ f.inbounds = ps /\ f.admits = Admitted(m, ps)
    BY <1>1, FilesApart, FilesAre
  <2>2. (Range(f.split) \cup Range(f.connect)) \cap Reserved(m, ps) = {}
    BY <2>1 DEF Apart
  <2> QED
    BY <1>3, <2>1, <2>2
<1>5. Internal(m) \cap Public(m, ps) = {} => Closed(m, ps, cached) \cap Admitted(m, ps) = {}
  <2> DEFINE given == SplitPorts(m, ps, Range(cached)).port
             found == {given[i] : i \in DOMAIN given}
  <2>1. Range(given) \cap Reserved(m, ps) = {}
    BY AllocateGives DEF SplitPorts
  <2>2. found \cap Reserved(m, ps) = {}
    BY <2>1 DEF Range
  <2>3. Closed(m, ps, cached) \subseteq Internal(m) \cup found
    BY DEF Closed, Internal
  <2> HIDE DEF found
  <2> QED
    BY <1>3, <2>2, <2>3
<1>6. f.settings = m /\ f.inbounds = ps /\ f.closed = Closed(m, ps, cached) /\ f.admits = Admitted(m, ps)
  BY <1>1, FilesAre
<1>7. WallFits(f)
  BY <1>2, <1>4, <1>5, <1>6 DEF WallFits
<1> QED
  BY <1>7 DEF f

-----------------------------------------------------------------------------
(* The panel and the subscription *)

Private(to) == to.kind \in {"panel", "sub"}

\* Only their own names lead to the panel and to the subscription.
Named(f) == \A e \in f.table : /\ e.to.kind = "panel" => e.name = Panel
                               /\ e.to.kind = "sub" => e.name = Sub

LEMMA TargetPublic == ASSUME NEW m, NEW r, NEW i, r.strategy \in Supported PROVE ~Private(Target(m, r, i))
<1>1. CASE CompatOwns(m, r.facts)
  BY <1>1 DEF Target, Private, To
<1>2. CASE ~CompatOwns(m, r.facts) /\ r.strategy \in SplitStrategies
  BY <1>2 DEF Target, Private, To, SplitStrategies
<1>3. CASE ~CompatOwns(m, r.facts) /\ r.strategy \notin SplitStrategies
  BY <1>3 DEF Target, Private, To, Site, Supported
<1> QED
  BY <1>1, <1>2, <1>3

LEMMA StrictNamed == ASSUME NEW m, NEW ps, NEW promised, NEW e \in StrictTable(m, ps, promised)
                     PROVE  (e.to.kind = "panel" => e.name = Panel) /\ (e.to.kind = "sub" => e.name = Sub)
<1> DEFINE admin == {Entry(m.panelPort, Panel, To("panel", 0, 0)), Entry(m.subPort, Sub, To("sub", 0, 0))}
           vpn == UNION {{Entry(i.port, i.name, To("inbound", p.id, 0)) :
                            i \in {x \in Ingresses(p, m.shared) : x.kind = "vpn" \/ p.sec # "reality"}} :
                          p \in {q \in ps : q.expo = "tcp_sni"}}
           sites == {Entry(m.shared, d, Site) : d \in {x \in promised \cap m.sites :
                                                          ~Owned(admin \cup vpn, m.shared, x)}}
<1>1. e \in admin \/ e \in vpn \/ e \in sites
  <2> HIDE DEF admin, vpn, sites
  <2>1. StrictTable(m, ps, promised) = admin \cup vpn \cup IF ~m.enabled THEN {} ELSE sites
    BY DEF StrictTable, admin, vpn, sites
  <2> QED
    BY <2>1
<1>2. CASE e \in admin
  BY <1>2 DEF Entry, To
<1>3. CASE e \in vpn
  BY <1>3 DEF Entry, To
<1>4. CASE e \in sites
  <2>1. PICK d : e = Entry(m.shared, d, Site)
    BY <1>4
  <2> QED
    BY <2>1 DEF Entry, Site, To
<1> QED
  BY <1>1, <1>2, <1>3, <1>4

LEMMA ExtendedNamed ==
    ASSUME NEW m, NEW rs, \A r \in rs : r.strategy \in Supported, NEW e \in ExtendedTable(m, rs)
    PROVE  (e.to.kind = "panel" => e.name = Panel) /\ (e.to.kind = "sub" => e.name = Sub)
<1> DEFINE own  == OwnEntries(m, rs)
           side == own \cup SideEntries(m, rs, own)
<1>1. e \in own \/ e \in SideEntries(m, rs, own) \/ e \in AloneEntries(m, rs, side)
  BY Zenon DEF ExtendedTable
<1>2. CASE e \in own
  <2>1. CASE e \in {Entry(m.panelPort, Panel, To("panel", 0, 0)), Entry(m.subPort, Sub, To("sub", 0, 0))}
    BY <2>1 DEF Entry, To
  <2>2. ASSUME NEW r \in rs, NEW i, e = Entry(i.port, i.name, Target(m, r, i))
        PROVE  ~Private(e.to)
    BY <2>2, TargetPublic DEF Entry
  <2> QED
    BY <1>2, <2>1, <2>2 DEF OwnEntries, Private
<1> HIDE DEF own, side
<1>3. CASE e \in SideEntries(m, rs, own)
  <2>1. PICK i : e = Entry(i.port, i.name, Site)
    BY <1>3 DEF SideEntries
  <2> QED
    BY <2>1 DEF Entry, Site, To
<1>4. CASE e \in AloneEntries(m, rs, side)
  <2>1. PICK d : e = Entry(m.shared, d, Site)
    BY <1>4 DEF AloneEntries
  <2> QED
    BY <2>1 DEF Entry, Site, To
<1> QED
  BY <1>1, <1>2, <1>3, <1>4

LEMMA FilesNamed ==
    ASSUME NEW m, NEW ps, NEW src, NEW cached, NEW promised,
           m.mode # "strict" => Renderable(m, ps, Classify(m, ps, src))
    PROVE  Named(Files(m, ps, src, cached, promised))
<1> DEFINE f  == Files(m, ps, src, cached, promised)
           rs == Kept(Classify(m, ps, src))
<1>1. f = Files(m, ps, src, cached, promised)
  OBVIOUS
<1> HIDE DEF f
<1>2. CASE m.mode = "strict"
  BY <1>1, <1>2, FilesAre, StrictNamed DEF Named, f
<1>3. CASE m.mode # "strict"
  <2>1. f.table = ExtendedTable(m, rs) /\ \A r \in rs : r.strategy \in Supported
    BY <1>1, <1>3, FilesAre DEF Renderable
  <2> HIDE DEF rs
  <2> QED
    BY <2>1, ExtendedNamed DEF Named, f
<1> QED
  BY <1>2, <1>3

\* A frontend for one inbound, and a site, lead nowhere else.
LEMMA BehindPublic == ASSUME NEW f, NEW to, NEW q, Private(Behind(f, to, q)) PROVE Behind(f, to, q) = to
<1> DEFINE r == CHOOSE x \in f.routes : x.id = to.id
<1> HIDE DEF r
<1>1. ~Private(Decoy(f, q))
  BY DEF Decoy, Site, To, Private
<1>2. \A p : ~Private(HttpSplit(f, p, q)) /\ ~Private(BinarySplit(f, p, q)) /\ ~Private(TrustSplit(f, p, q))
  BY <1>1 DEF HttpSplit, BinarySplit, TrustSplit, To, Private
<1>3. \A p, port : ~Private(ConnectSplit(f, p, port, q))
  BY <1>1 DEF ConnectSplit, To, Private
<1>4. CASE to.kind \notin {"site", "split", "connect"}
  BY <1>4, Zenon DEF Behind
<1>5. CASE to.kind = "site"
  BY <1>1, <1>5 DEF Behind
<1>6. CASE to.kind = "connect"
  BY <1>3, <1>6 DEF Behind
<1>7. CASE to.kind = "split"
  BY <1>2, <1>7 DEF Behind
<1> QED
  BY <1>4, <1>5, <1>6, <1>7

LEMMA HandleGuards ==
    ASSUME NEW f, Named(f), NEW q, q.tls, q.from = "elsewhere"
    PROVE  LET to == Handle(f, q) IN
           /\ f.settings.cloudflare => to.kind \notin {"panel", "sub"}
           /\ to.kind = "panel" => q.sni = Panel
           /\ to.kind = "sub" => q.sni = Sub
<1> DEFINE known == {e \in f.table : e.port = q.port /\ e.name = q.sni}
           trust == {t \in f.trust : t.port = q.port /\ t.name = q.sni /\ t.id = q.hello}
           first == CHOOSE e \in known : TRUE
           to    == Handle(f, q)
<1>1. ASSUME Private(to)
      PROVE  known # {} /\ to = Behind(f, first.to, q) /\ ~Guarded(f, q)
  <2>1. /\ ~Private(To("closed", 0, 0)) /\ ~Private(To("reject", 0, 0)) /\ ~Private(Site)
        /\ ~Private(To("inbound", q.hello, 0))
    BY DEF Private, To, Site
  <2> QED
    BY <1>1, <2>1 DEF Handle
<1>2. ASSUME Private(to)
      PROVE  /\ ~f.settings.cloudflare
             /\ to.kind = "panel" => q.sni = Panel
             /\ to.kind = "sub" => q.sni = Sub
  <2>1. known # {} /\ to = first.to /\ ~Guarded(f, q)
    BY <1>1, <1>2, BehindPublic
  <2>2. first \in f.table /\ first.port = q.port /\ first.name = q.sni
    BY <2>1
  <2> HIDE DEF to, first
  <2> QED
    BY <1>2, <2>1, <2>2 DEF Named, Guarded, Private
<1> HIDE DEF to
<1>3. /\ f.settings.cloudflare => to.kind \notin {"panel", "sub"}
      /\ to.kind = "panel" => q.sni = Panel
      /\ to.kind = "sub" => q.sni = Sub
  BY <1>2 DEF Private
<1> QED
  BY <1>3 DEF to

-----------------------------------------------------------------------------
(* What the decisions say *)

\* The chain of rules: a rule that applies gives the strategy.
LEMMA FirstOfGives ==
    ASSUME NEW rules, DOMAIN rules = 1 .. 9, rules[9][1]
    PROVE  \E i \in 1 .. 9 : rules[i][1] /\ FirstOf(rules) = rules[i][2]
<1> DEFINE Holds == {i \in 1 .. 9 : rules[i][1]}
           first == CHOOSE i \in DOMAIN rules : rules[i][1] /\ \A j \in 1 .. i - 1 : ~rules[j][1]
<1>1. \E i \in Holds : \A j \in 1 .. i - 1 : j \notin Holds
  <2>1. 9 \in Holds
    OBVIOUS
  <2> HIDE DEF Holds
  <2> QED
    BY <2>1, SMTT(60)
<1>2. \E i \in DOMAIN rules : rules[i][1] /\ \A j \in 1 .. i - 1 : ~rules[j][1]
  <2>1. PICK i \in Holds : \A j \in 1 .. i - 1 : j \notin Holds
    BY <1>1
  <2>2. \A j \in 1 .. i - 1 : j \in 1 .. 9
    OBVIOUS
  <2> QED
    BY <2>1, <2>2
<1>3. first \in 1 .. 9 /\ rules[first][1]
  BY <1>2
<1>4. FirstOf(rules) = rules[first][2]
  BY DEF FirstOf
<1> QED
  BY <1>3, <1>4

\* What is known of an inbound from the strategy it was given.
LEMMA StrategySays ==
    ASSUME NEW m, NEW p, NEW s
    PROVE  /\ Strategy(m, p, s) = "tcp_side_site" => OnlyUdp(p) \/ Aside(p)
           /\ Strategy(m, p, s) = "reality_endpoint_site" => p.sec = "reality"
           /\ Strategy(m, p, s) # "passthrough"
<1> DEFINE rules == <<
             <<Unusable(p), Blocked>>,
             <<OnlyUdp(p), "tcp_side_site">>,
             <<p.wrapped = "review", Blocked>>,
             <<Aside(p), If(~OwnsShared(m, p), "tcp_side_site")>>,
             <<p.sec = "reality", RealitySite(p)>>,
             <<p.proto = "naive", NaiveStrategy(m, p, s)>>,
             <<p.proto = "trusttunnel", TrustStrategy(p)>>,
             <<Tls(p) /\ p.proto \in Xray /\ p.trans # "tcp", HttpStrategy(p)>>,
             <<TRUE, BinaryStrategy(p)>> >>
<1>1. Strategy(m, p, s) = FirstOf(rules)
  BY DEF Strategy
<1>2. /\ If(~OwnsShared(m, p), "tcp_side_site") \in {Blocked, "tcp_side_site"}
      /\ RealitySite(p) \in {Blocked, "reality_endpoint_site"}
      /\ NaiveStrategy(m, p, s) \in {Blocked, "naive_native", "naive_managed", "naive_connect_h2"}
      /\ TrustStrategy(p) \in {Blocked, "trusttunnel_clienthello_split"}
      /\ HttpStrategy(p) \in {Blocked, "xhttp_tls_split", "http_tls_split"}
      /\ BinaryStrategy(p) \in {Blocked, "binary_tls_split"}
  BY DEF If, RealitySite, NaiveStrategy, TrustStrategy, HttpStrategy, BinaryStrategy
<1>3. DOMAIN rules = 1 .. 9 /\ rules[9][1]
  OBVIOUS
<1>4. PICK i \in 1 .. 9 : rules[i][1] /\ FirstOf(rules) = rules[i][2]
  <2> HIDE DEF rules
  <2> QED
    BY <1>3, FirstOfGives
<1>5. \/ Strategy(m, p, s) = Blocked
      \/ OnlyUdp(p) /\ Strategy(m, p, s) = "tcp_side_site"
      \/ Aside(p) /\ Strategy(m, p, s) \in {Blocked, "tcp_side_site"}
      \/ p.sec = "reality" /\ Strategy(m, p, s) \in {Blocked, "reality_endpoint_site"}
      \/ Strategy(m, p, s) \in {Blocked, "naive_native", "naive_managed", "naive_connect_h2",
           "trusttunnel_clienthello_split", "xhttp_tls_split", "http_tls_split", "binary_tls_split"}
  <2>1. i = 1 \/ i = 2 \/ i = 3 \/ i = 4 \/ i = 5 \/ i = 6 \/ i = 7 \/ i = 8 \/ i = 9
    OBVIOUS
  <2>2. CASE i = 2
    <3>1. rules[2][1] = OnlyUdp(p) /\ rules[2][2] = "tcp_side_site"
      OBVIOUS
    <3> QED
      BY <1>1, <1>4, <2>2, <3>1
  <2>3. CASE i = 4
    <3>1. rules[4][1] = Aside(p) /\ rules[4][2] = If(~OwnsShared(m, p), "tcp_side_site")
      OBVIOUS
    <3> QED
      BY <1>1, <1>2, <1>4, <2>3, <3>1
  <2>4. CASE i = 5
    <3>1. rules[5][2] = RealitySite(p) /\ (rules[5][1] => p.sec = "reality")
      OBVIOUS
    <3>2. p.sec = "reality"
      BY <1>4, <2>4, <3>1
    <3> HIDE DEF rules
    <3> QED
      BY <1>1, <1>2, <1>4, <2>4, <3>1, <3>2
  <2>5. CASE i \in {1, 3, 6, 7, 8, 9}
    <3>1. /\ rules[1][2] = Blocked /\ rules[3][2] = Blocked
          /\ rules[6][2] = NaiveStrategy(m, p, s) /\ rules[7][2] = TrustStrategy(p)
          /\ rules[8][2] = HttpStrategy(p) /\ rules[9][2] = BinaryStrategy(p)
      OBVIOUS
    <3>2. FirstOf(rules) \in {Blocked, NaiveStrategy(m, p, s), TrustStrategy(p), HttpStrategy(p), BinaryStrategy(p)}
      <4> HIDE DEF rules
      <4> QED
        BY <1>4, <2>5, <3>1
    <3> QED
      BY <1>1, <1>2, <3>2
  <2> QED
    BY <2>1, <2>2, <2>3, <2>4, <2>5
<1> QED
  BY <1>5 DEF Blocked

\* No two inbounds have the same id.
Unique(ps) == \A p, q \in ps : p.id = q.id => p = q

\* What a decision says of its inbound.
Says(r) ==
  /\ r.strategy = "tcp_side_site" => OnlyUdp(r.facts) \/ Aside(r.facts)
  /\ r.strategy = "reality_endpoint_site" => r.facts.sec = "reality"
  /\ r.status = "ready" => r.strategy \notin {"passthrough", "naive_connect_h2"}

LEMMA DecisionSays ==
    ASSUME NEW m, NEW ps, NEW src, NEW k \in DOMAIN Classify(m, ps, src)
    PROVE  {"strategy", "status"} \subseteq DOMAIN Classify(m, ps, src)[k] /\ Says(Classify(m, ps, src)[k])
<1> DEFINE row     == [i \in {p.id : p \in ps} |-> Route(m, By(ps, i), src[i])]
           managed == {i \in DOMAIN row : row[i].strategy = "naive_managed"}
           given   == Allocate(Ascending(managed), ManagedStart, ManagedOccupied(m, ps))
           Decided(i) == IF i \notin managed THEN row[i]
                         ELSE IF i \in given.none THEN [row[i] EXCEPT !.strategy = Blocked, !.status = "blocked"]
                         ELSE [row[i] EXCEPT !.listen = given.port[i]]
<1>1. k \in UNION {Rows(p) : p \in ps} /\ Classify(m, ps, src)[k] = Decided(k[1])
  BY DEF Classify
<1>2. PICK p \in ps : k[1] = p.id
  BY <1>1 DEF Rows
<1>3. row[k[1]] = Route(m, By(ps, k[1]), src[k[1]])
  BY <1>2
<1>4. ASSUME NEW q, NEW s
      PROVE  /\ {"id", "facts", "strategy", "status"} \subseteq DOMAIN Route(m, q, s)
             /\ Says(Route(m, q, s))
  <2> DEFINE r == Route(m, q, s)
  <2>1. /\ {"id", "facts", "strategy", "status"} \subseteq DOMAIN r
        /\ r.facts = q /\ r.strategy = Strategy(m, q, s)
        /\ r.status = CASE r.strategy = Blocked -> "blocked"
                        [] r.strategy = "naive_connect_h2" -> "candidate" [] OTHER -> "ready"
    BY DEF Route
  <2> HIDE DEF r
  <2>2. r.status = "ready" => r.strategy # "naive_connect_h2"
    BY <2>1 DEF Blocked
  <2>3. Says(r)
    BY <2>1, <2>2, StrategySays DEF Says
  <2> QED
    BY <2>1, <2>3 DEF r
<1>5. {"id", "facts", "strategy", "status"} \subseteq DOMAIN row[k[1]] /\ Says(row[k[1]])
  BY <1>3, <1>4
<1> HIDE DEF row, given
<1>6. CASE k[1] \in managed /\ k[1] \in given.none
  BY <1>1, <1>5, <1>6 DEF Says, Blocked
<1>7. CASE ~(k[1] \in managed /\ k[1] \in given.none)
  BY <1>1, <1>5, <1>7 DEF Says
<1> QED
  BY <1>6, <1>7

\* The decisions of an inbound are one and the same, whichever its rows.
LEMMA DecidedOnce ==
    ASSUME NEW m, NEW ps, NEW src, NEW k \in DOMAIN Classify(m, ps, src), NEW l \in DOMAIN Classify(m, ps, src),
           Classify(m, ps, src)[k].id = Classify(m, ps, src)[l].id
    PROVE  Classify(m, ps, src)[k] = Classify(m, ps, src)[l]
<1> DEFINE C       == Classify(m, ps, src)
           row     == [i \in {p.id : p \in ps} |-> Route(m, By(ps, i), src[i])]
           managed == {i \in DOMAIN row : row[i].strategy = "naive_managed"}
           given   == Allocate(Ascending(managed), ManagedStart, ManagedOccupied(m, ps))
           Decided(i) == IF i \notin managed THEN row[i]
                         ELSE IF i \in given.none THEN [row[i] EXCEPT !.strategy = Blocked, !.status = "blocked"]
                         ELSE [row[i] EXCEPT !.listen = given.port[i]]
<1>1. ASSUME NEW j \in DOMAIN C PROVE C[j].id = j[1] /\ C[j] = Decided(j[1])
  <2>1. j \in UNION {Rows(p) : p \in ps} /\ C[j] = Decided(j[1])
    BY DEF Classify
  <2>2. PICK p \in ps : j[1] = p.id
    BY <2>1 DEF Rows
  <2>3. row[j[1]] = Route(m, By(ps, j[1]), src[j[1]]) /\ By(ps, j[1]).id = j[1]
    BY <2>2 DEF By
  <2>4. "id" \in DOMAIN row[j[1]] /\ row[j[1]].id = j[1]
    BY <2>3 DEF Route
  <2> HIDE DEF row, managed, given
  <2>5. Decided(j[1]).id = j[1]
    BY <2>4
  <2> HIDE DEF C, Decided
  <2> QED
    BY <2>1, <2>5
<1> HIDE DEF Decided
<1>2. k[1] = l[1]
  BY <1>1
<1>3. C[k] = C[l]
  BY <1>1, <1>2
<1> QED
  BY <1>3

LEMMA ClassifyHas ==
    ASSUME NEW m, NEW ps, NEW src, Unique(ps), NEW p \in ps
    PROVE  \E k \in DOMAIN Classify(m, ps, src) : Classify(m, ps, src)[k].facts = p
<1>1. <<p.id, 1>> \in DOMAIN Classify(m, ps, src)
  BY DEF Classify, Rows
<1>2. About(Classify(m, ps, src)[<<p.id, 1>>], ps)
  BY <1>1, RouteAbout
<1>3. Classify(m, ps, src)[<<p.id, 1>>].id = p.id
  <2> DEFINE row     == [i \in {x.id : x \in ps} |-> Route(m, By(ps, i), src[i])]
             managed == {i \in DOMAIN row : row[i].strategy = "naive_managed"}
             given   == Allocate(Ascending(managed), ManagedStart, ManagedOccupied(m, ps))
             Decided(i) == IF i \notin managed THEN row[i]
                           ELSE IF i \in given.none THEN [row[i] EXCEPT !.strategy = Blocked, !.status = "blocked"]
                           ELSE [row[i] EXCEPT !.listen = given.port[i]]
  <2>1. Classify(m, ps, src)[<<p.id, 1>>] = Decided(p.id)
    BY <1>1 DEF Classify
  <2>2. row[p.id] = Route(m, By(ps, p.id), src[p.id]) /\ By(ps, p.id).id = p.id
    BY DEF By
  <2>3. "id" \in DOMAIN row[p.id] /\ row[p.id].id = p.id
    BY <2>2 DEF Route
  <2> HIDE DEF row, managed, given
  <2> QED
    BY <2>1, <2>3
<1> QED
  BY <1>1, <1>2, <1>3 DEF Unique, About

-----------------------------------------------------------------------------
(* The routes that are kept *)

LEMMA KeptFrom ==
    ASSUME NEW m, NEW ps, NEW src, NEW r \in Kept(Classify(m, ps, src))
    PROVE  \E k \in DOMAIN Classify(m, ps, src) :
             LET x == Classify(m, ps, src)[k] IN
             /\ r.id = x.id /\ r.facts = x.facts /\ r.status = x.status
             /\ r = [x EXCEPT !.strategy = IF Passed(x) THEN "passthrough" ELSE @]
             /\ r.strategy = IF Passed(x) THEN "passthrough" ELSE x.strategy
<1>1. PICK x \in Range(Classify(m, ps, src)) :
        r = [x EXCEPT !.strategy = IF Passed(x) THEN "passthrough" ELSE @]
  BY DEF Kept
<1>2. PICK k \in DOMAIN Classify(m, ps, src) : x = Classify(m, ps, src)[k]
  BY <1>1 DEF Range
<1>3. {"id", "facts", "strategy", "status"} \subseteq DOMAIN x
  BY <1>2, RouteAbout, DecisionSays DEF About
<1>4. /\ r.id = x.id /\ r.facts = x.facts /\ r.status = x.status
      /\ r.strategy = IF Passed(x) THEN "passthrough" ELSE x.strategy
  BY <1>1, <1>3
<1> QED
  BY <1>1, <1>2, <1>4

LEMMA KeptSays ==
    ASSUME NEW m, NEW ps, NEW src, NEW r \in Kept(Classify(m, ps, src))
    PROVE  About(r, ps) /\ Says(r)
<1>1. PICK k \in DOMAIN Classify(m, ps, src) :
        LET x == Classify(m, ps, src)[k] IN
        /\ r.id = x.id /\ r.facts = x.facts /\ r.status = x.status
        /\ r.strategy = IF Passed(x) THEN "passthrough" ELSE x.strategy
  BY KeptFrom
<1> DEFINE x == Classify(m, ps, src)[k]
<1>2. Says(x)
  BY DecisionSays
<1>3. About(r, ps)
  BY KeptAbout
<1> HIDE DEF x
<1>4. CASE Passed(x)
  BY <1>1, <1>3, <1>4 DEF x, Says, Passed
<1>5. CASE ~Passed(x)
  BY <1>1, <1>2, <1>3, <1>5 DEF x, Says
<1> QED
  BY <1>3, <1>4, <1>5

LEMMA KeptOnce ==
    ASSUME NEW m, NEW ps, NEW src, NEW r \in Kept(Classify(m, ps, src)), NEW s \in Kept(Classify(m, ps, src)),
           r.id = s.id
    PROVE  r = s
<1> DEFINE C == Classify(m, ps, src)
<1>1. PICK k \in DOMAIN C : /\ r.id = C[k].id
                            /\ r = [C[k] EXCEPT !.strategy = IF Passed(C[k]) THEN "passthrough" ELSE @]
  BY KeptFrom
<1>2. PICK l \in DOMAIN C : /\ s.id = C[l].id
                            /\ s = [C[l] EXCEPT !.strategy = IF Passed(C[l]) THEN "passthrough" ELSE @]
  BY KeptFrom
<1>3. C[k] = C[l]
  <2>1. C[k].id = C[l].id
    BY <1>1, <1>2
  <2> QED
    BY <2>1, DecidedOnce
<1> HIDE DEF C
<1> QED
  BY <1>1, <1>2, <1>3

\* What is decided and not refused is kept, as it was or passed through.
LEMMA KeptHas ==
    ASSUME NEW m, NEW ps, NEW src, NEW k \in DOMAIN Classify(m, ps, src),
           LET x == Classify(m, ps, src)[k] IN x.status # "blocked" \/ Passed(x)
    PROVE  \E r \in Kept(Classify(m, ps, src)) : r.facts = Classify(m, ps, src)[k].facts
<1> DEFINE x == Classify(m, ps, src)[k]
           r == [x EXCEPT !.strategy = IF Passed(x) THEN "passthrough" ELSE @]
<1>1. x \in Range(Classify(m, ps, src))
  BY DEF Range
<1>2. {"facts", "strategy"} \subseteq DOMAIN x
  BY RouteAbout, DecisionSays DEF About
<1> HIDE DEF x
<1>3. r \in Kept(Classify(m, ps, src))
  BY <1>1 DEF Kept, x
<1>4. r.facts = x.facts
  BY <1>2
<1> QED
  BY <1>3, <1>4 DEF x

-----------------------------------------------------------------------------
(* The tables *)

LEMMA OwnEntered ==
    ASSUME NEW m, NEW rs, NEW r \in rs, NEW i \in Ingresses(r.facts, m.shared), ~Yields(m, r, i)
    PROVE  Entry(i.port, i.name, Target(m, r, i)) \in OwnEntries(m, rs)
BY DEF OwnEntries

LEMMA OwnIsIn == ASSUME NEW m, NEW rs, NEW e \in OwnEntries(m, rs) PROVE e \in ExtendedTable(m, rs)
<1> DEFINE own  == OwnEntries(m, rs)
           side == own \cup SideEntries(m, rs, own)
<1>1. ExtendedTable(m, rs) = side \cup AloneEntries(m, rs, side)
  BY Zenon DEF ExtendedTable
<1> HIDE DEF own
<1> QED
  BY <1>1 DEF own

\* What owns a name on a port is asked first: nothing else is entered for it.
LEMMA OwnDecides ==
    ASSUME NEW m, NEW rs, ~Conflict(OwnEntries(m, rs)), NEW e \in OwnEntries(m, rs), NEW g \in ExtendedTable(m, rs),
           g.port = e.port, g.name = e.name
    PROVE  g.to = e.to
<1> DEFINE own  == OwnEntries(m, rs)
           side == own \cup SideEntries(m, rs, own)
<1>1. g \in own \/ g \in SideEntries(m, rs, own) \/ g \in AloneEntries(m, rs, side)
  BY Zenon DEF ExtendedTable
<1>2. e \in own /\ e \in side /\ ~Conflict(own)
  OBVIOUS
<1> HIDE DEF own, side
<1>3. CASE g \in own
  BY <1>2, <1>3 DEF Conflict
<1>4. CASE g \in SideEntries(m, rs, own)
  <2>1. PICK i : g = Entry(i.port, i.name, Site) /\ ~Owned(own, i.port, i.name)
    BY <1>4 DEF SideEntries
  <2> QED
    BY <1>2, <2>1 DEF Entry, Owned
<1>5. CASE g \in AloneEntries(m, rs, side)
  <2>1. PICK d : g = Entry(m.shared, d, Site) /\ ~Owned(side, m.shared, d)
    BY <1>5 DEF AloneEntries
  <2> QED
    BY <1>2, <2>1 DEF Entry, Owned
<1> QED
  BY <1>1, <1>3, <1>4, <1>5

\* A connection by a name that one entry, or several to one place, are for.
LEMMA HandleLeads ==
    ASSUME NEW f, NEW q, NEW e \in f.table, q.tls, e.port = q.port, e.name = q.sni, ~Private(e.to),
           \A g \in f.table : g.port = e.port /\ g.name = e.name => g.to = e.to
    PROVE  \/ Handle(f, q) = To("inbound", q.hello, 0) /\ \E t \in f.trust : t.id = q.hello
           \/ Handle(f, q) = Behind(f, e.to, q)
<1> DEFINE known == {g \in f.table : g.port = q.port /\ g.name = q.sni}
           trust == {t \in f.trust : t.port = q.port /\ t.name = q.sni /\ t.id = q.hello}
           first == CHOOSE g \in known : TRUE
<1>1. first \in known /\ known # {} /\ first.to = e.to
  <2>1. e \in known
    OBVIOUS
  <2>2. first \in known
    BY <2>1
  <2> QED
    BY <2>1, <2>2
<1>2. ~Guarded(f, q)
  BY DEF Guarded, Private
<1>3. Handle(f, q) = IF trust # {} THEN To("inbound", q.hello, 0) ELSE Behind(f, first.to, q)
  <2> HIDE DEF first
  <2> QED
    BY <1>1, <1>2 DEF Handle, first
<1> QED
  BY <1>1, <1>3

\* The routes of a frontend: one for an inbound.
OneEach(f) == \A r, s \in f.routes : r.id = s.id => r = s

LEMMA ClientBehind ==
    ASSUME NEW f, OneEach(f), NEW r \in f.routes, r.id = r.facts.id, Says(r), r.strategy \in Supported,
           Routed(r.facts), ~Aside(r.facts),
           NEW i \in Ingresses(r.facts, f.settings.shared), i.kind = "vpn",
           NEW q, q.asks = "vpn", q.of = r.facts.id, q.host \in VpnHosts(r.facts), q.sni = i.name
    PROVE  LET to == Behind(f, Target(f.settings, r, i), q) IN
           \/ to \in {To("inbound", r.facts.id, 0), To("managed", r.facts.id, 0)}
           \/ CompatOwns(f.settings, r.facts) /\ to.kind = "compat"
<1> DEFINE p  == r.facts
           to == Target(f.settings, r, i)
<1>1. (CHOOSE x \in f.routes : x.id = p.id) = r
  BY DEF OneEach
<1>2. \A x : x.kind \in {"inbound", "managed", "compat"} => Behind(f, x, q) = x
  BY DEF Behind
<1>3. CASE CompatOwns(f.settings, p)
  <2>1. to = To("compat", 0, 0) \/ to = To("inbound", p.id, 0)
    BY <1>3 DEF Target
  <2>2. to.kind \in {"inbound", "managed", "compat"} /\ (to # To("inbound", p.id, 0) => to.kind = "compat")
    BY <2>1 DEF To
  <2>3. Behind(f, to, q) = to
    BY <1>2, <2>2
  <2> HIDE DEF p, to
  <2> QED
    BY <1>3, <2>2, <2>3 DEF p, to
<1>4. CASE ~CompatOwns(f.settings, p) /\ r.strategy \in SplitStrategies
  <2>1. to = To("split", p.id, 0)
    BY <1>4 DEF Target, SplitStrategies
  <2>2. to.kind = "split" /\ to.id = p.id
    BY <2>1 DEF To
  <2>3. Marked(p, q)
    BY DEF Marked
  <2>4. /\ HttpSplit(f, p, q) = To("inbound", p.id, 0)
        /\ BinarySplit(f, p, q) = To("inbound", p.id, 0)
        /\ TrustSplit(f, p, q) = To("inbound", p.id, 0)
    BY <2>3 DEF HttpSplit, BinarySplit, TrustSplit, RequestHosts, VpnHosts
  <2>5. Behind(f, to, q) = To("inbound", p.id, 0)
    <3> HIDE DEF to, p
    <3> QED
      BY <1>1, <1>4, <2>2, <2>4 DEF Behind, SplitStrategies, p
  <2> QED
    BY <2>5
<1>5. CASE ~CompatOwns(f.settings, p) /\ r.strategy = "naive_connect_h2"
  <2>1. to = To("connect", p.id, i.port)
    BY <1>5 DEF Target, SplitStrategies
  <2>2. to.kind = "connect" /\ to.id = p.id /\ to.port = i.port
    BY <2>1 DEF To
  <2>3. ConnectSplit(f, p, i.port, q) = To("inbound", p.id, 0)
    BY DEF ConnectSplit
  <2>4. Behind(f, to, q) = To("inbound", p.id, 0)
    <3> HIDE DEF to, p
    <3> QED
      BY <1>1, <2>2, <2>3 DEF Behind, p
  <2> QED
    BY <2>4
<1>6. CASE ~CompatOwns(f.settings, p) /\ r.strategy \in {"reality_endpoint_site", "naive_managed", "naive_native", "passthrough"}
  <2>1. to = To("inbound", p.id, 0) \/ to = To("managed", p.id, 0)
    BY <1>6 DEF Target, SplitStrategies
  <2>2. to.kind \in {"inbound", "managed", "compat"}
    BY <2>1 DEF To
  <2>3. Behind(f, to, q) = to
    BY <1>2, <2>2
  <2> QED
    BY <2>1, <2>3
<1>7. r.strategy # "tcp_side_site"
  BY DEF Says, Routed, OnlyUdp
<1> QED
  BY <1>3, <1>4, <1>5, <1>6, <1>7 DEF Supported

-----------------------------------------------------------------------------
(* The clients *)

LEMMA FilesTrust ==
    ASSUME NEW m, NEW ps, NEW src, NEW cached, NEW promised
    PROVE  LET f == Files(m, ps, src, cached, promised) IN
           /\ f.trust = IF m.mode = "strict" THEN {} ELSE TrustRules(m, Kept(Classify(m, ps, src)))
           /\ f.source = src /\ f.promised = promised
BY DEF Files

\* A prefix is that of an inbound.
LEMMA TrustId == ASSUME NEW m, NEW rs, NEW t \in TrustRules(m, rs) PROVE \E r \in rs : t.id = r.id
<1>1. PICK r \in rs : \E i : t = [port |-> i.port, name |-> i.name, id |-> r.id]
  BY DEF TrustRules
<1> QED
  BY <1>1

LEMMA ClientIs ==
    ASSUME NEW p, NEW i, NEW host
    PROVE  LET q == Client(p, i, host) IN
           /\ q.tls /\ q.port = i.port /\ q.sni = i.name /\ q.asks = "vpn" /\ q.of = p.id /\ q.host = host
           /\ q.hello \in {p.id, 0}
BY DEF Client, Ask

LEMMA ExtendedRoutes ==
    ASSUME NEW m, NEW ps, NEW src, NEW cached, NEW promised, m.mode # "strict", Known(ps),
           Renderable(m, ps, Classify(m, ps, src)),
           NEW f, f = Files(m, ps, src, cached, promised)
    PROVE  /\ f.settings = m /\ f.inbounds = ps /\ f.routes = Kept(Classify(m, ps, src))
           /\ f.table = ExtendedTable(m, f.routes) /\ ~Conflict(OwnEntries(m, f.routes))
           /\ OneEach(f) /\ \A t \in f.trust : t.id # 0
           /\ \A r \in f.routes : /\ About(r, ps) /\ Says(r) /\ r.strategy \in Supported
<1> DEFINE rs == Kept(Classify(m, ps, src))
<1>1. /\ f.settings = m /\ f.inbounds = ps /\ f.routes = rs /\ f.table = ExtendedTable(m, rs)
      /\ f.trust = TrustRules(m, rs)
  BY FilesAre, FilesTrust
<1>2. \A r \in rs : About(r, ps) /\ Says(r)
  BY KeptSays
<1>3. \A r, s \in rs : r.id = s.id => r = s
  BY KeptOnce
<1>4. ~Conflict(OwnEntries(m, rs)) /\ \A r \in rs : r.strategy \in Supported
  BY DEF Renderable
<1> HIDE DEF rs
<1>5. \A t \in f.trust : t.id # 0
  <2>1. \A r \in rs : r.id # 0
    BY <1>2, InboundsAssumption DEF About, Known
  <2> QED
    BY <1>1, <2>1, TrustId
<1>6. OneEach(f)
  BY <1>1, <1>3 DEF OneEach
<1>7. /\ f.table = ExtendedTable(m, f.routes) /\ ~Conflict(OwnEntries(m, f.routes))
      /\ \A r \in f.routes : About(r, ps) /\ Says(r) /\ r.strategy \in Supported
  BY <1>1, <1>2, <1>4
<1> QED
  BY <1>1, <1>5, <1>6, <1>7 DEF rs

LEMMA ExtendedArrive ==
    ASSUME NEW m, NEW ps, NEW src, NEW cached, NEW promised, m.mode # "strict", Known(ps), Unique(ps),
           Renderable(m, ps, Classify(m, ps, src)),
           NEW f, f = Files(m, ps, src, cached, promised)
    PROVE  ClientsArrive(f)
<1>1. /\ f.settings = m /\ f.inbounds = ps /\ f.routes = Kept(Classify(m, ps, src))
      /\ f.table = ExtendedTable(m, f.routes) /\ ~Conflict(OwnEntries(m, f.routes))
      /\ OneEach(f) /\ \A t \in f.trust : t.id # 0
      /\ \A r \in f.routes : About(r, ps) /\ Says(r) /\ r.strategy \in Supported
  BY ExtendedRoutes
<1> SUFFICES ASSUME NEW p \in ps, Routed(p), ~Aside(p),
                    NEW i \in Ingresses(p, m.shared), i.kind = "vpn", NEW host \in VpnHosts(p)
             PROVE  Arrives(f, p, i, host)
  BY <1>1 DEF ClientsArrive
<1>2. PICK k \in DOMAIN Classify(m, ps, src) : Classify(m, ps, src)[k].facts = p
  BY ClassifyHas
<1>3. PICK r \in f.routes : r.facts = p
  <2> DEFINE x == Classify(m, ps, src)[k]
  <2>1. p.snis # {} /\ ~Refused(x)
    BY DEF Renderable, Ingressable
  <2> HIDE DEF x
  <2>2. x.facts = p
    BY <1>2 DEF x
  <2>3. x.status # "blocked" \/ Passed(x)
    BY <2>1, <2>2 DEF Refused, Passed, OnlyUdp, Routed
  <2> QED
    BY <1>1, <1>2, <2>3, KeptHas DEF x
<1>4. r.id = p.id /\ About(r, ps) /\ Says(r) /\ r.strategy \in Supported
  BY <1>1, <1>3 DEF About
<1> DEFINE e == Entry(i.port, i.name, Target(m, r, i))
           q == Client(p, i, host)
<1>5. ~Yields(m, r, i)
  BY DEF Yields
<1>6. e \in OwnEntries(m, f.routes) /\ e \in f.table
  BY <1>1, <1>3, <1>5, OwnEntered, OwnIsIn
<1>7. e.port = i.port /\ e.name = i.name /\ e.to = Target(m, r, i)
  BY DEF Entry
<1>8. \A g \in f.table : g.port = e.port /\ g.name = e.name => g.to = e.to
  BY <1>1, <1>6, OwnDecides
<1>9. ~Private(e.to)
  BY <1>4, <1>7, TargetPublic
<1>10. /\ q.tls /\ q.port = i.port /\ q.sni = i.name /\ q.asks = "vpn" /\ q.of = p.id /\ q.host = host
       /\ q.hello \in {p.id, 0}
  BY ClientIs
<1> HIDE DEF e, q
<1>11. \/ Handle(f, q) = To("inbound", q.hello, 0) /\ \E t \in f.trust : t.id = q.hello
       \/ Handle(f, q) = Behind(f, e.to, q)
  BY <1>6, <1>7, <1>8, <1>9, <1>10, HandleLeads
<1>12. CASE Handle(f, q) = To("inbound", q.hello, 0) /\ \E t \in f.trust : t.id = q.hello
  <2>1. q.hello = p.id
    BY <1>1, <1>10, <1>12
  <2> QED
    BY <1>12, <2>1 DEF Arrives, q
<1>13. CASE Handle(f, q) = Behind(f, e.to, q)
  <2>1. LET to == Behind(f, Target(m, r, i), q) IN
        \/ to \in {To("inbound", p.id, 0), To("managed", p.id, 0)}
        \/ CompatOwns(m, p) /\ to.kind = "compat"
    BY <1>1, <1>3, <1>4, <1>10, ClientBehind
  <2> QED
    BY <1>1, <1>7, <1>13, <2>1 DEF Arrives, q
<1> QED
  BY <1>11, <1>12, <1>13

\* In the strict table a name on a port is one inbound's.
LEMMA StrictEntries ==
    ASSUME NEW m, NEW ps, NEW promised, NEW e \in StrictTable(m, ps, promised)
    PROVE  \/ e.to = To("panel", 0, 0) /\ e.port = m.panelPort /\ e.name = Panel
           \/ e.to = To("sub", 0, 0) /\ e.port = m.subPort /\ e.name = Sub
           \/ \E p \in ps : \E i \in Ingresses(p, m.shared) :
                /\ p.expo = "tcp_sni" /\ (i.kind = "vpn" \/ p.sec # "reality")
                /\ e = Entry(i.port, i.name, To("inbound", p.id, 0))
           \/ /\ e.to = Site /\ e.port = m.shared /\ e.name \in promised \cap m.sites
              /\ \A p \in ps : \A i \in Ingresses(p, m.shared) :
                   p.expo = "tcp_sni" /\ (i.kind = "vpn" \/ p.sec # "reality") =>
                     ~(i.port = e.port /\ i.name = e.name)
<1> DEFINE admin == {Entry(m.panelPort, Panel, To("panel", 0, 0)), Entry(m.subPort, Sub, To("sub", 0, 0))}
           vpn == UNION {{Entry(i.port, i.name, To("inbound", p.id, 0)) :
                            i \in {x \in Ingresses(p, m.shared) : x.kind = "vpn" \/ p.sec # "reality"}} :
                          p \in {q \in ps : q.expo = "tcp_sni"}}
           sites == {Entry(m.shared, d, Site) : d \in {x \in promised \cap m.sites :
                                                          ~Owned(admin \cup vpn, m.shared, x)}}
<1>1. e \in admin \/ e \in vpn \/ e \in sites
  <2> HIDE DEF admin, vpn, sites
  <2>1. StrictTable(m, ps, promised) = admin \cup vpn \cup IF ~m.enabled THEN {} ELSE sites
    BY DEF StrictTable, admin, vpn, sites
  <2> QED
    BY <2>1
<1>2. CASE e \in admin
  BY <1>2 DEF Entry
<1>3. CASE e \in vpn
  BY <1>3
<1>4. CASE e \in sites
  <2>1. PICK d \in promised \cap m.sites : e = Entry(m.shared, d, Site) /\ ~Owned(admin \cup vpn, m.shared, d)
    BY <1>4
  <2>2. e.to = Site /\ e.port = m.shared /\ e.name = d
    BY <2>1 DEF Entry
  <2>3. ASSUME NEW p \in ps, NEW i \in Ingresses(p, m.shared), p.expo = "tcp_sni", i.kind = "vpn" \/ p.sec # "reality"
        PROVE  ~(i.port = e.port /\ i.name = e.name)
    <3>1. Entry(i.port, i.name, To("inbound", p.id, 0)) \in vpn
      BY <2>3
    <3> HIDE DEF vpn, admin
    <3> QED
      BY <2>1, <2>2, <3>1 DEF Owned, Entry
  <2> QED
    BY <2>1, <2>2, <2>3
<1> QED
  BY <1>1, <1>2, <1>3, <1>4

LEMMA StrictHas ==
    ASSUME NEW m, NEW ps, NEW promised, NEW p \in ps, p.expo = "tcp_sni",
           NEW i \in Ingresses(p, m.shared), i.kind = "vpn"
    PROVE  Entry(i.port, i.name, To("inbound", p.id, 0)) \in StrictTable(m, ps, promised)
<1> DEFINE vpn == UNION {{Entry(x.port, x.name, To("inbound", q.id, 0)) :
                            x \in {y \in Ingresses(q, m.shared) : y.kind = "vpn" \/ q.sec # "reality"}} :
                          q \in {z \in ps : z.expo = "tcp_sni"}}
<1>1. Entry(i.port, i.name, To("inbound", p.id, 0)) \in vpn
  OBVIOUS
<1>2. vpn \subseteq StrictTable(m, ps, promised)
  BY DEF StrictTable
<1> QED
  BY <1>1, <1>2

LEMMA StrictArrive ==
    ASSUME NEW m, NEW ps, NEW src, NEW cached, NEW promised, m.mode = "strict", NamesDistinct(m, ps),
           NEW f, f = Files(m, ps, src, cached, promised)
    PROVE  ClientsArrive(f)
<1>1. f.settings = m /\ f.inbounds = ps /\ f.table = StrictTable(m, ps, promised) /\ f.trust = {}
  BY FilesAre, FilesTrust
<1> SUFFICES ASSUME NEW p \in ps, Routed(p),
                    NEW i \in Ingresses(p, m.shared), i.kind = "vpn", NEW host \in VpnHosts(p)
             PROVE  Arrives(f, p, i, host)
  BY <1>1 DEF ClientsArrive
<1> DEFINE e == Entry(i.port, i.name, To("inbound", p.id, 0))
           q == Client(p, i, host)
<1>2. p.expo = "tcp_sni"
  BY DEF Routed
<1>3. e \in f.table /\ e.port = i.port /\ e.name = i.name /\ e.to = To("inbound", p.id, 0)
  BY <1>1, <1>2, StrictHas DEF Entry
<1>4. /\ <<i.port, i.name>> \notin {<<m.panelPort, Panel>>, <<m.subPort, Sub>>}
      /\ \A x \in ps : x.expo = "tcp_sni" /\ x # p =>
           \A j \in Ingresses(x, m.shared) : <<j.port, j.name>> # <<i.port, i.name>>
  <2> DEFINE keys == [x \in {y \in ps : y.expo = "tcp_sni"} |-> {<<j.port, j.name>> : j \in Ingresses(x, m.shared)}]
  <2>1. /\ \A x \in DOMAIN keys : keys[x] \cap {<<m.panelPort, Panel>>, <<m.subPort, Sub>>} = {}
        /\ \A x, y \in DOMAIN keys : x # y => keys[x] \cap keys[y] = {}
    BY DEF NamesDistinct
  <2>2. \A x \in ps : x.expo = "tcp_sni" =>
          x \in DOMAIN keys /\ \A j \in Ingresses(x, m.shared) : <<j.port, j.name>> \in keys[x]
    OBVIOUS
  <2> HIDE DEF keys
  <2>3. p \in DOMAIN keys /\ <<i.port, i.name>> \in keys[p]
    BY <1>2, <2>2
  <2>4. <<i.port, i.name>> \notin {<<m.panelPort, Panel>>, <<m.subPort, Sub>>}
    BY <2>1, <2>3
  <2>5. ASSUME NEW x \in ps, x.expo = "tcp_sni", x # p, NEW j \in Ingresses(x, m.shared)
        PROVE  <<j.port, j.name>> # <<i.port, i.name>>
    BY <2>1, <2>2, <2>3, <2>5
  <2> QED
    BY <2>4, <2>5
<1> HIDE DEF e
<1>5. ASSUME NEW g \in f.table, g.port = e.port, g.name = e.name PROVE g.to = e.to
  <2>1. CASE g.to = To("panel", 0, 0) /\ g.port = m.panelPort /\ g.name = Panel
    BY <1>3, <1>4, <1>5, <2>1
  <2>2. CASE g.to = To("sub", 0, 0) /\ g.port = m.subPort /\ g.name = Sub
    BY <1>3, <1>4, <1>5, <2>2
  <2>3. ASSUME NEW x \in ps, NEW j \in Ingresses(x, m.shared), x.expo = "tcp_sni",
               g = Entry(j.port, j.name, To("inbound", x.id, 0))
        PROVE  g.to = e.to
    <3>1. g.port = j.port /\ g.name = j.name /\ g.to = To("inbound", x.id, 0)
      BY <2>3 DEF Entry
    <3>2. x = p
      BY <1>3, <1>4, <1>5, <2>3, <3>1
    <3> QED
      BY <1>3, <3>1, <3>2
  <2>4. CASE \A x \in ps : \A j \in Ingresses(x, m.shared) :
               x.expo = "tcp_sni" /\ (j.kind = "vpn" \/ x.sec # "reality") => ~(j.port = g.port /\ j.name = g.name)
    BY <1>2, <1>3, <1>5, <2>4
  <2> QED
    BY <1>1, <2>1, <2>2, <2>3, <2>4, StrictEntries
<1>6. ~Private(e.to) /\ e.to.kind = "inbound"
  BY <1>3 DEF Private, To
<1>7. q.tls /\ q.port = i.port /\ q.sni = i.name
  BY ClientIs
<1> HIDE DEF q
<1>8. Handle(f, q) = Behind(f, e.to, q)
  BY <1>1, <1>3, <1>5, <1>6, <1>7, HandleLeads
<1>9. Handle(f, q) = e.to
  BY <1>6, <1>8 DEF Behind
<1> QED
  BY <1>3, <1>9 DEF Arrives, q


-----------------------------------------------------------------------------
(* The sites *)

\* A connection that carries no prefix, by a name that leads to no private place.
LEMMA HandleAny ==
    ASSUME NEW f, NEW q, q.tls, \E e \in f.table : e.port = q.port /\ e.name = q.sni,
           \A e \in f.table : e.port = q.port /\ e.name = q.sni => ~Private(e.to),
           \A t \in f.trust : t.id # q.hello
    PROVE  \E e \in f.table : e.port = q.port /\ e.name = q.sni /\ Handle(f, q) = Behind(f, e.to, q)
<1> DEFINE known == {g \in f.table : g.port = q.port /\ g.name = q.sni}
           trust == {t \in f.trust : t.port = q.port /\ t.name = q.sni /\ t.id = q.hello}
           first == CHOOSE e \in known : TRUE
<1>1. known # {} /\ trust = {}
  OBVIOUS
<1>2. first \in known
  BY <1>1
<1>3. first \in f.table /\ first.port = q.port /\ first.name = q.sni
  BY <1>2
<1>4. ~Guarded(f, q)
  BY DEF Guarded, Private
<1>5. Handle(f, q) = Behind(f, first.to, q)
  <2> HIDE DEF first
  <2> QED
    BY <1>1, <1>3, <1>4 DEF Handle, first
<1> QED
  BY <1>3, <1>5

LEMMA SiteAsk ==
    ASSUME NEW f, NEW d
    PROVE  LET q == Ask(f.settings.shared, d, "site", 0, d) IN
           q.tls /\ q.port = f.settings.shared /\ q.sni = d /\ q.asks = "site" /\ q.host = d /\ q.hello = 0
BY DEF Ask

\* Nginx has a site for a name of its own.
LEMMA SiteServed ==
    ASSUME NEW f, NEW q, q.asks = "site", q.host \in f.settings.sites
    PROVE  Behind(f, Site, q) = Site
BY DEF Behind, Site, To, Decoy

\* The names of the clients of an inbound, and those of its sites.
LEMMA IngressNames ==
    ASSUME NEW p, NEW shared, Ingressable(p), NEW i \in Ingresses(p, shared), i.name # NoName
    PROVE  \/ i.kind = "vpn" /\ i.name \in Shown(p)
           \/ i.kind = "site" /\ i.name \in Domains(p)
<1>1. \/ i \in At(shared, Domains(p), "site")
      \/ i \in At(p.public, p.snis, "vpn") /\ Routed(p)
      \/ i \in At(p.public, {p.domain}, "site") /\ Routed(p)
      \/ \E e \in p.eps : i \in At(e.port, e.names, "vpn")
      \/ \E e \in p.eps : i \in At(e.port, {e.addr}, "site")
  BY DEF Ingresses
<1>2. \A port, names, kind : i \in At(port, names, kind) => i.kind = kind /\ i.name \in names
  BY DEF At
<1>3. CASE i \in At(shared, Domains(p), "site")
  BY <1>2, <1>3
<1>4. CASE i \in At(p.public, p.snis, "vpn")
  BY <1>2, <1>4 DEF Shown
<1>5. CASE i \in At(p.public, {p.domain}, "site")
  BY <1>2, <1>5 DEF Domains
<1>6. ASSUME NEW e \in p.eps, i \in At(e.port, e.names, "vpn")
      PROVE  i.kind = "vpn" /\ i.name \in Shown(p)
  BY <1>2, <1>6 DEF Shown
<1>7. ASSUME NEW e \in p.eps, i \in At(e.port, {e.addr}, "site")
      PROVE  i.kind = "site" /\ i.name \in Domains(p)
  BY <1>2, <1>7 DEF Domains
<1> QED
  BY <1>1, <1>3, <1>4, <1>5, <1>6, <1>7

\* A name that is not the clients' and comes in for an inbound is its domain.
LEMMA NotOfClients ==
    ASSUME NEW f, NEW p \in f.inbounds, NEW d, d \notin OfClients(f)
    PROVE  /\ d \in Shown(p) => d \in Domains(p) /\ p.sec # "reality"
           /\ CompatOwns(f.settings, p) /\ d \in Domains(p) => d = p.domain
<1>1. d \in Shown(p) \cup Domains(p) =>
        ~(\/ d \in Shown(p) /\ (p.sec = "reality" \/ d \notin Domains(p))
          \/ CompatOwns(f.settings, p) /\ d \in Domains(p) \ {p.domain})
  BY DEF OfClients
<1> QED
  BY <1>1

\* What an inbound that is ready does with a browser that opens its domain.
LEMMA SiteBehind ==
    ASSUME NEW f, OneEach(f), NEW r \in f.routes, r.id = r.facts.id, r.facts \in f.inbounds,
           Says(r), r.strategy \in Supported, r.status = "ready",
           NEW d \in Domains(r.facts), d \notin OfClients(f), d \in f.settings.sites, d # NoName,
           Ingressable(r.facts), NEW i \in Ingresses(r.facts, f.settings.shared), i.name = d,
           NEW q, q.asks = "site", q.host = d
    PROVE  LET to == Behind(f, Target(f.settings, r, i), q) IN
           \/ to = Site \/ to.kind = "compat"
           \/ r.strategy \in {"naive_native", "naive_managed"} /\ to.id = r.id
<1> DEFINE p  == r.facts
           to == Target(f.settings, r, i)
<1>1. (CHOOSE x \in f.routes : x.id = p.id) = r
  BY DEF OneEach
<1>2. \A x : x.kind \in {"inbound", "managed", "compat"} => Behind(f, x, q) = x
  BY DEF Behind
<1>3. CASE CompatOwns(f.settings, p)
  <2>1. i.name = p.domain
    BY <1>3, NotOfClients
  <2>2. to = To("compat", 0, 0)
    BY <1>3, <2>1 DEF Target
  <2>3. to.kind = "compat"
    BY <2>2 DEF To
  <2> HIDE DEF to
  <2> QED
    BY <1>2, <2>3 DEF to
<1>4. CASE ~CompatOwns(f.settings, p) /\ r.strategy \in SplitStrategies
  <2>1. to = To("split", p.id, 0)
    BY <1>4 DEF Target, SplitStrategies
  <2>2. to.kind = "split" /\ to.id = p.id
    BY <2>1 DEF To
  <2>3. ~Marked(p, q) /\ Decoy(f, q) = Site
    BY DEF Marked, Decoy
  <2>4. /\ HttpSplit(f, p, q) = Site
        /\ BinarySplit(f, p, q) = Site
        /\ TrustSplit(f, p, q) = Site
    BY <2>3 DEF HttpSplit, BinarySplit, TrustSplit, RequestHosts
  <2>5. Behind(f, to, q) = Site
    <3> HIDE DEF to, p
    <3> QED
      BY <1>1, <1>4, <2>2, <2>4 DEF Behind, SplitStrategies, p
  <2> QED
    BY <2>5
<1>5. CASE ~CompatOwns(f.settings, p) /\ r.strategy = "tcp_side_site"
  <2>1. to = Site
    BY <1>5 DEF Target, SplitStrategies
  <2> QED
    BY <2>1, SiteServed
<1>6. CASE ~CompatOwns(f.settings, p) /\ r.strategy = "reality_endpoint_site"
  <2>1. d \notin Shown(p)
    BY <1>6, NotOfClients DEF Says
  <2>2. [port |-> i.port, name |-> i.name] \notin
          {[port |-> x.port, name |-> x.name] : x \in {y \in Ingresses(p, f.settings.shared) : y.kind = "vpn"}}
    BY <2>1, IngressNames
  <2>3. to = Site
    BY <1>6, <2>2 DEF Target, SplitStrategies
  <2> QED
    BY <2>3, SiteServed
<1>7. CASE ~CompatOwns(f.settings, p) /\ r.strategy \in {"naive_managed", "naive_native"}
  <2>1. to = To("inbound", p.id, 0) \/ to = To("managed", p.id, 0)
    BY <1>7 DEF Target, SplitStrategies
  <2>2. to.kind \in {"inbound", "managed", "compat"} /\ to.id = r.id
    BY <2>1 DEF To
  <2>3. Behind(f, to, q) = to
    BY <1>2, <2>2
  <2> QED
    BY <1>7, <2>2, <2>3
<1>8. r.strategy \notin {"naive_connect_h2", "passthrough"}
  BY DEF Says
<1> QED
  BY <1>3, <1>4, <1>5, <1>6, <1>7, <1>8 DEF Supported


\* What the extended table holds beside the panel and the subscription.
LEMMA ExtendedEntries ==
    ASSUME NEW m, NEW rs, NEW e \in ExtendedTable(m, rs), e.name \notin {Panel, Sub}
    PROVE  \/ e.to = Site
           \/ \E r \in rs : \E i \in Ingresses(r.facts, m.shared) : e = Entry(i.port, i.name, Target(m, r, i))
<1> DEFINE own  == OwnEntries(m, rs)
           side == own \cup SideEntries(m, rs, own)
<1>1. e \in own \/ e \in SideEntries(m, rs, own) \/ e \in AloneEntries(m, rs, side)
  BY Zenon DEF ExtendedTable
<1>2. CASE e \in own
  <2>1. \A port, name, to : Entry(port, name, to).name = name
    BY DEF Entry
  <2> QED
    BY <1>2, <2>1 DEF OwnEntries
<1> HIDE DEF own, side
<1>3. CASE e \in SideEntries(m, rs, own)
  <2>1. PICK i : e = Entry(i.port, i.name, Site)
    BY <1>3 DEF SideEntries
  <2> QED
    BY <2>1 DEF Entry
<1>4. CASE e \in AloneEntries(m, rs, side)
  <2>1. PICK d : e = Entry(m.shared, d, Site)
    BY <1>4 DEF AloneEntries
  <2> QED
    BY <2>1 DEF Entry
<1> QED
  BY <1>1, <1>2, <1>3, <1>4

\* A domain of an inbound that is kept is entered on the shared port, by
\* whoever owns the name there.
LEMMA DomainEntered ==
    ASSUME NEW m, NEW rs, NEW r \in rs, NEW d, d \in Domains(r.facts)
    PROVE  Owned(ExtendedTable(m, rs), m.shared, d)
<1> DEFINE i    == [port |-> m.shared, name |-> d, kind |-> "site"]
           own  == OwnEntries(m, rs)
           side == own \cup SideEntries(m, rs, own)
<1>1. i \in Ingresses(r.facts, m.shared)
  BY DEF Ingresses, At
<1>2. side \subseteq ExtendedTable(m, rs)
  BY Zenon DEF ExtendedTable
<1>3. i.port = m.shared /\ i.name = d
  OBVIOUS
<1> HIDE DEF i
<1>4. CASE ~Yields(m, r, i)
  <2>1. Entry(i.port, i.name, Target(m, r, i)) \in own
    BY <1>1, <1>4, OwnEntered
  <2> HIDE DEF own
  <2> QED
    BY <1>2, <1>3, <2>1 DEF Entry, Owned
<1>5. CASE Owned(own, i.port, i.name)
  <2> HIDE DEF own
  <2> QED
    BY <1>2, <1>3, <1>5 DEF Owned
<1>6. CASE Yields(m, r, i) /\ ~Owned(own, i.port, i.name)
  <2> HIDE DEF own
  <2>1. Entry(i.port, i.name, Site) \in SideEntries(m, rs, own)
    BY <1>1, <1>6 DEF SideEntries
  <2> QED
    BY <1>2, <1>3, <2>1 DEF Entry, Owned
<1> QED
  BY <1>4, <1>5, <1>6

\* A site of its own is entered on the shared port when no inbound has its name.
LEMMA AloneEntered ==
    ASSUME NEW m, NEW rs, NEW d \in m.sites, \A r \in rs : d \notin Domains(r.facts) \cup r.facts.snis
    PROVE  Owned(ExtendedTable(m, rs), m.shared, d)
<1> DEFINE own  == OwnEntries(m, rs)
           side == own \cup SideEntries(m, rs, own)
<1>1. ExtendedTable(m, rs) = side \cup AloneEntries(m, rs, side)
  BY Zenon DEF ExtendedTable
<1> HIDE DEF side
<1>2. CASE Owned(side, m.shared, d)
  BY <1>1, <1>2 DEF Owned
<1>3. CASE ~Owned(side, m.shared, d)
  <2>1. Entry(m.shared, d, Site) \in AloneEntries(m, rs, side)
    BY <1>3 DEF AloneEntries
  <2> QED
    BY <1>1, <2>1 DEF Entry, Owned
<1> QED
  BY <1>2, <1>3

\* What a domain owes to being covered.
LEMMA CoveredSays ==
    ASSUME NEW f, NEW d \in Covered(f)
    PROVE  LET C == Classify(f.settings, f.inbounds, f.source) IN
           /\ d \in f.promised
           /\ IF f.settings.mode = "strict" THEN StrictManaged(f.settings, f.inbounds, d)
              ELSE \/ /\ \E p \in f.inbounds : d \in Domains(p)
                      /\ \A k \in DOMAIN C : d \in Domains(C[k].facts) => C[k].status = "ready"
                   \/ /\ \A p \in f.inbounds : d \notin Domains(p)
                      /\ d \in f.settings.sites
<1> DEFINE C == Classify(f.settings, f.inbounds, f.source)
<1>1. d \in f.promised /\ d \in ManagedNames(f.settings, f.inbounds, C)
  BY DEF Covered
<1> HIDE DEF C
<1>2. CASE f.settings.mode = "strict"
  BY <1>1, <1>2 DEF ManagedNames
<1>3. CASE f.settings.mode # "strict"
  <2> DEFINE own == UNION {Domains(p) : p \in f.inbounds}
  <2>1. \/ d \in own /\ \A k \in DOMAIN C : d \in Domains(C[k].facts) => C[k].status = "ready"
        \/ d \in f.settings.sites \ own
    BY <1>1, <1>3 DEF ManagedNames
  <2>2. d \in own <=> \E p \in f.inbounds : d \in Domains(p)
    OBVIOUS
  <2> HIDE DEF own
  <2> QED
    BY <1>1, <1>3, <2>1, <2>2 DEF C
<1> QED
  BY <1>2, <1>3

LEMMA ExtendedShown ==
    ASSUME NEW m, NEW ps, NEW src, NEW cached, NEW promised, m.mode # "strict", Known(ps), Unique(ps),
           NoName \notin m.sites, Renderable(m, ps, Classify(m, ps, src)),
           NEW f, f = Files(m, ps, src, cached, promised)
    PROVE  SitesShown(f)
<1> DEFINE C == Classify(m, ps, src)
<1>1. /\ f.settings = m /\ f.inbounds = ps /\ f.routes = Kept(Classify(m, ps, src))
      /\ f.table = ExtendedTable(m, f.routes)
      /\ OneEach(f) /\ \A t \in f.trust : t.id # 0
      /\ \A r \in f.routes : About(r, ps) /\ Says(r) /\ r.strategy \in Supported
  BY ExtendedRoutes
<1>2. f.source = src
  BY FilesTrust
<1>3. \A p \in ps : Ingressable(p)
  BY DEF Renderable
<1> SUFFICES ASSUME NEW d \in Covered(f), d \in m.sites, d \notin {Panel, Sub}, d \notin OfClients(f)
             PROVE  SiteOf(f, d)
  BY <1>1 DEF SitesShown
<1>4. d # NoName
  OBVIOUS
<1>5. \/ /\ \E p \in ps : d \in Domains(p)
         /\ \A k \in DOMAIN C : d \in Domains(C[k].facts) => C[k].status = "ready"
      \/ \A p \in ps : d \notin Domains(p)
  BY <1>1, <1>2, CoveredSays
<1>6. ASSUME NEW r \in f.routes, d \in Domains(r.facts) PROVE r.status = "ready"
  <2>1. PICK k \in DOMAIN C : r.facts = C[k].facts /\ r.status = C[k].status
    BY <1>1, KeptFrom
  <2>2. r.facts \in ps
    BY <1>1 DEF About
  <2> HIDE DEF C
  <2> QED
    BY <1>5, <1>6, <2>1, <2>2
<1>7. \A p \in ps : d \in Shown(p) => d \in Domains(p)
  BY <1>1, NotOfClients
<1> DEFINE q == Ask(f.settings.shared, d, "site", 0, d)
<1>8. q.tls /\ q.port = m.shared /\ q.sni = d /\ q.asks = "site" /\ q.host = d /\ q.hello = 0
  BY <1>1, SiteAsk
<1> HIDE DEF q
<1>9. \E e \in f.table : e.port = q.port /\ e.name = q.sni
  <2>1. CASE /\ \E p \in ps : d \in Domains(p)
             /\ \A k \in DOMAIN C : d \in Domains(C[k].facts) => C[k].status = "ready"
    <3>1. PICK p \in ps : d \in Domains(p)
      BY <2>1
    <3>2. PICK k \in DOMAIN C : C[k].facts = p
      BY ClassifyHas
    <3>3. C[k].status = "ready"
      BY <2>1, <3>1, <3>2
    <3>4. PICK r \in f.routes : r.facts = p
      BY <1>1, <3>2, <3>3, KeptHas
    <3>5. d \in Domains(r.facts)
      BY <3>1, <3>4
    <3>6. Owned(f.table, m.shared, d)
      BY <1>1, <3>5, DomainEntered
    <3> QED
      BY <1>8, <3>6 DEF Owned
  <2>2. CASE \A p \in ps : d \notin Domains(p)
    <3>1. \A r \in f.routes : d \notin Domains(r.facts) \cup r.facts.snis
      BY <1>1, <1>7, <2>2 DEF About, Shown
    <3> QED
      BY <1>1, <1>8, <3>1, AloneEntered DEF Owned
  <2> QED
    BY <1>5, <2>1, <2>2
<1>10. ASSUME NEW e \in f.table, e.port = q.port, e.name = q.sni
       PROVE  /\ ~Private(e.to)
              /\ LET to == Behind(f, e.to, q) IN
                 \/ to = Site \/ to.kind = "compat"
                 \/ \E r \in f.routes : /\ r.strategy \in {"naive_native", "naive_managed"}
                                        /\ d \in Domains(r.facts) /\ to.id = r.id
  <2>1. CASE e.to = Site
    <3>1. ~Private(Site)
      BY DEF Private, Site, To
    <3>2. Behind(f, Site, q) = Site
      BY <1>1, <1>8, SiteServed
    <3> QED
      BY <2>1, <3>1, <3>2
  <2>2. ASSUME NEW r \in f.routes, NEW i \in Ingresses(r.facts, m.shared), e = Entry(i.port, i.name, Target(m, r, i))
        PROVE  /\ ~Private(e.to)
               /\ LET to == Behind(f, e.to, q) IN
                  \/ to = Site \/ to.kind = "compat"
                  \/ r.strategy \in {"naive_native", "naive_managed"} /\ d \in Domains(r.facts) /\ to.id = r.id
    <3>1. e.name = i.name /\ e.to = Target(m, r, i)
      BY <2>2 DEF Entry
    <3>2. About(r, ps) /\ Says(r) /\ r.strategy \in Supported /\ r.facts \in ps /\ r.id = r.facts.id
      BY <1>1 DEF About
    <3>3. i.name = d
      BY <1>8, <1>10, <3>1
    <3>4. d \in Domains(r.facts)
      BY <1>3, <1>4, <1>7, <3>2, <3>3, IngressNames
    <3>5. ~Private(e.to)
      BY <3>1, <3>2, TargetPublic
    <3>6. LET to == Behind(f, Target(m, r, i), q) IN
          \/ to = Site \/ to.kind = "compat"
          \/ r.strategy \in {"naive_native", "naive_managed"} /\ to.id = r.id
      BY <1>1, <1>3, <1>4, <1>6, <1>8, <3>2, <3>3, <3>4, SiteBehind
    <3> QED
      BY <3>1, <3>4, <3>5, <3>6
  <2> QED
    BY <1>1, <1>8, <1>10, <2>1, <2>2, ExtendedEntries
<1>11. PICK e \in f.table : e.port = q.port /\ e.name = q.sni /\ Handle(f, q) = Behind(f, e.to, q)
  BY <1>1, <1>8, <1>9, <1>10, HandleAny
<1> QED
  BY <1>10, <1>11 DEF SiteOf, q

LEMMA StrictShown ==
    ASSUME NEW m, NEW ps, NEW src, NEW cached, NEW promised, m.mode = "strict", m.enabled,
           NEW f, f = Files(m, ps, src, cached, promised)
    PROVE  SitesShown(f)
<1>1. f.settings = m /\ f.inbounds = ps /\ f.table = StrictTable(m, ps, promised) /\ f.trust = {}
      /\ f.promised = promised
  BY FilesAre, FilesTrust
<1> SUFFICES ASSUME NEW d \in Covered(f), d \in m.sites, d \notin {Panel, Sub}
             PROVE  SiteOf(f, d)
  BY <1>1 DEF SitesShown
<1>2. d \in promised /\ SniOwners(m, ps, d) = {}
  BY <1>1, CoveredSays DEF StrictManaged
<1> DEFINE q == Ask(f.settings.shared, d, "site", 0, d)
<1>3. q.tls /\ q.port = m.shared /\ q.sni = d /\ q.asks = "site" /\ q.host = d /\ q.hello = 0
  BY <1>1, SiteAsk
<1> HIDE DEF q
<1>4. \E e \in f.table : e.port = q.port /\ e.name = q.sni
  <2> DEFINE own == {Entry(m.panelPort, Panel, To("panel", 0, 0)), Entry(m.subPort, Sub, To("sub", 0, 0))} \cup
             UNION {{Entry(i.port, i.name, To("inbound", p.id, 0)) :
                       i \in {x \in Ingresses(p, m.shared) : x.kind = "vpn" \/ p.sec # "reality"}} :
                     p \in {x \in ps : x.expo = "tcp_sni"}}
             sites == {Entry(m.shared, x, Site) : x \in {y \in promised \cap m.sites : ~Owned(own, m.shared, y)}}
  <2>1. f.table = own \cup sites
    BY <1>1 DEF StrictTable
  <2>2. CASE Owned(own, m.shared, d)
    <3> HIDE DEF own, sites
    <3> QED
      BY <1>3, <2>1, <2>2 DEF Owned
  <2>3. CASE ~Owned(own, m.shared, d)
    <3> HIDE DEF own
    <3>1. Entry(m.shared, d, Site) \in sites
      BY <1>2, <2>3
    <3> HIDE DEF sites
    <3> QED
      BY <1>3, <2>1, <3>1 DEF Entry
  <2> QED
    BY <2>2, <2>3
<1>5. ASSUME NEW e \in f.table, e.port = q.port, e.name = q.sni PROVE e.to = Site
  <2>1. ASSUME NEW p \in ps, NEW i \in Ingresses(p, m.shared), p.expo = "tcp_sni", i.kind = "vpn" \/ p.sec # "reality",
               e = Entry(i.port, i.name, To("inbound", p.id, 0))
        PROVE  FALSE
    <3>1. i.port = m.shared /\ i.name = d
      BY <1>3, <1>5, <2>1 DEF Entry
    <3>2. p \in SniOwners(m, ps, d)
      BY <2>1, <3>1 DEF SniOwners
    <3> QED
      BY <1>2, <3>2
  <2> QED
    BY <1>1, <1>3, <1>5, <2>1, StrictEntries
<1>6. ~Private(Site) /\ Behind(f, Site, q) = Site
  BY <1>1, <1>3, SiteServed DEF Private, Site, To
<1>7. Handle(f, q) = Site
  BY <1>1, <1>3, <1>4, <1>5, <1>6, HandleAny
<1> QED
  BY <1>7 DEF SiteOf, q

-----------------------------------------------------------------------------
(* The invariant *)

\* Files with which the frontend behaves.
Sound(f) == /\ Named(f) /\ Apart(f) /\ WallFits(f)
            /\ ClientsArrive(f)
            /\ f.settings.enabled => SitesShown(f)

\* A plan: settings that a person has chosen and inbounds that the panel had.
\* Nothing is said of its routes, which may have been edited.
Plannable(p) ==
  /\ {"settings", "inbounds"} \subseteq DOMAIN p
  /\ p.settings.mode \in {"strict", "extended"} /\ p.settings.shared \in 1 .. LastPort
  /\ NoName \notin p.settings.sites
  /\ p.inbounds \subseteq UNION {Profiles[i] \cup Later[i] : i \in ID}
  /\ Unique(p.inbounds)

FInv == /\ FrontTypeOK
        /\ DOMAIN inbounds = ID
        /\ manifest # None => Plannable(manifest)
        /\ staged # None => Sound(staged)
        /\ live # None => Sound(live)

LEMMA PlannableKnown == ASSUME NEW p, Plannable(p) PROVE Known(p.inbounds)
BY InboundsAssumption DEF Plannable, Known

LEMMA FilesSound ==
    ASSUME NEW p, Plannable(p), NEW src, NEW cached, NEW promised,
           SettingsValid(p.settings), NamesDistinct(p.settings, p.inbounds),
           p.settings.mode = "extended" => Renderable(p.settings, p.inbounds, Classify(p.settings, p.inbounds, src))
    PROVE  Sound(Files(p.settings, p.inbounds, src, cached, promised))
<1> DEFINE m == p.settings
           ps == p.inbounds
           f == Files(m, ps, src, cached, promised)
<1>1. Known(ps) /\ Unique(ps) /\ m.mode \in {"strict", "extended"} /\ m.shared \in 1 .. LastPort
      /\ NoName \notin m.sites
  BY PlannableKnown DEF Plannable
<1>2. Named(f)
  BY <1>1, FilesNamed
<1>3. Apart(f)
  BY <1>1, FilesApart
<1>4. WallFits(f)
  BY <1>1, FilesFit
<1>5. ClientsArrive(f)
  <2>1. CASE m.mode = "strict"
    BY <2>1, StrictArrive
  <2>2. CASE m.mode = "extended"
    BY <1>1, <2>2, ExtendedArrive
  <2> QED
    BY <1>1, <2>1, <2>2
<1>6. ASSUME m.enabled PROVE SitesShown(f)
  <2>1. CASE m.mode = "strict"
    BY <1>6, <2>1, StrictShown
  <2>2. CASE m.mode = "extended"
    BY <1>1, <2>2, ExtendedShown
  <2> QED
    BY <1>1, <2>1, <2>2
<1>7. f.settings = m
  BY FilesAre
<1> HIDE DEF f
<1> QED
  BY <1>2, <1>3, <1>4, <1>5, <1>6, <1>7 DEF Sound, f

LEMMA FInvInit == FrontInit => FInv
<1> SUFFICES ASSUME FrontInit PROVE FInv
  OBVIOUS
<1>1. source \in [ID -> Sources \cup {NoSource}]
  BY DEF FrontInit
<1>2. edits \in 0 .. MaxEdits
  BY InboundsAssumption DEF FrontInit
<1> QED
  BY <1>1, <1>2 DEF FrontInit, FInv, FrontTypeOK

LEMMA Edited == ASSUME FInv, Edit PROVE edits' \in 0 .. MaxEdits
BY InboundsAssumption DEF FInv, FrontTypeOK, Edit

LEMMA EditPanelStep ==
    ASSUME FInv, NEW i \in ID, NEW p \in Later[i] \cup {Absent}, EditPanel(i, p) PROVE FInv'
<1>1. \A j \in ID : inbounds'[j] \in Profiles[j] \cup Later[j] \cup {Absent}
  BY DEF FInv, FrontTypeOK, EditPanel
<1>2. DOMAIN inbounds' = ID /\ source' \in [ID -> Sources \cup {NoSource}]
  BY DEF FInv, FrontTypeOK, EditPanel
<1>3. edits' \in 0 .. MaxEdits
  BY Edited DEF EditPanel
<1>4. UNCHANGED <<settings, manifest, staged, live>>
  BY DEF EditPanel
<1> QED
  BY <1>1, <1>2, <1>3, <1>4 DEF FInv, FrontTypeOK

LEMMA EditSourceStep == ASSUME FInv, NEW i \in ID, NEW s \in Sources, EditSource(i, s) PROVE FInv'
<1>1. source' \in [ID -> Sources \cup {NoSource}]
  BY DEF FInv, FrontTypeOK, EditSource
<1>2. edits' \in 0 .. MaxEdits
  BY Edited DEF EditSource
<1>3. UNCHANGED <<settings, inbounds, manifest, staged, live>>
  BY DEF EditSource
<1> QED
  BY <1>1, <1>2, <1>3 DEF FInv, FrontTypeOK

\* An edit of the saved routes leaves the rest of the plan alone.
LEMMA EditRoutesStep == ASSUME FInv, EditRoutes PROVE FInv'
<1>1. PICK rs : manifest' = [manifest EXCEPT !.routes = rs]
  BY DEF EditRoutes
<1>2. Plannable(manifest')
  BY <1>1 DEF EditRoutes, FInv, Plannable
<1>3. edits' \in 0 .. MaxEdits
  BY Edited DEF EditRoutes
<1>4. UNCHANGED <<settings, inbounds, source, staged, live>>
  BY DEF EditRoutes
<1> QED
  BY <1>2, <1>3, <1>4 DEF FInv, FrontTypeOK, Plannable

\* The panel has one inbound under an id.
LEMMA EnabledUnique == ASSUME FInv PROVE Unique(Enabled)
<1>1. \A i \in ID : inbounds[i] # Absent => inbounds[i].id = i
  BY InboundsAssumption DEF FInv, FrontTypeOK
<1> QED
  BY <1>1 DEF Unique, Enabled

LEMMA PlanStep == ASSUME FInv, Plan PROVE FInv'
<1> DEFINE ps == Enabled
           m == [settings EXCEPT !.sites = @ \cup UNION {Domains(p) : p \in ps}]
<1>1. manifest' = Planned(settings, ps)
  BY DEF Plan
<1>2. ps \subseteq UNION {Profiles[i] \cup Later[i] : i \in ID} /\ Unique(ps)
  BY EnabledUnique DEF FInv, FrontTypeOK, Enabled
<1>3. /\ {"mode", "shared", "sites"} \subseteq DOMAIN settings /\ NoName \notin settings.sites
      /\ settings.mode \in {"strict", "extended"} /\ settings.shared \in 1 .. LastPort
  BY InboundsAssumption DEF FInv, FrontTypeOK
<1>4. /\ {"mode", "shared", "sites"} \subseteq DOMAIN m /\ m.mode = settings.mode /\ m.shared = settings.shared
      /\ NoName \notin m.sites
  <2>1. NoName \notin UNION {Domains(p) : p \in ps}
    BY DEF Domains
  <2>2. m.sites = settings.sites \cup UNION {Domains(p) : p \in ps}
    BY <1>3
  <2>3. {"mode", "shared", "sites"} \subseteq DOMAIN m /\ m.mode = settings.mode /\ m.shared = settings.shared
    BY <1>3
  <2> QED
    BY <1>3, <2>1, <2>2, <2>3
<1> HIDE DEF ps, m
<1>5. /\ {"settings", "inbounds"} \subseteq DOMAIN manifest' /\ manifest'.inbounds = ps
      /\ \E b : manifest'.settings = [m EXCEPT !.naiveFrontend = b]
  BY <1>1 DEF Planned, m
<1>6. Plannable(manifest')
  BY <1>2, <1>3, <1>4, <1>5 DEF Plannable
<1>7. UNCHANGED <<settings, inbounds, source, staged, live, edits>>
  BY DEF Plan
<1> QED
  BY <1>6, <1>7 DEF FInv, FrontTypeOK, Plannable

LEMMA StageStep == ASSUME FInv, Stage PROVE FInv'
<1> DEFINE m == manifest.settings
           ps == manifest.inbounds
<1>1. Plannable(manifest)
  BY DEF FInv, Stage
<1>2. /\ SettingsValid(m) /\ NamesDistinct(m, ps)
      /\ m.mode = "extended" => Renderable(m, ps, Classify(m, ps, source))
  BY DEF Stage, Valid
<1>3. staged' = Files(m, ps, source, manifest.routes, manifest.promised)
  BY DEF Stage
<1>4. Sound(staged')
  BY <1>1, <1>2, <1>3, FilesSound
<1>5. UNCHANGED <<settings, inbounds, source, manifest, live, edits>>
  BY DEF Stage
<1> QED
  BY <1>4, <1>5 DEF FInv, FrontTypeOK

LEMMA FInvStep == ASSUME FInv, [FrontNext]_frontVars PROVE FInv'
<1>1. CASE CommitFiles \/ GiveUp
  BY <1>1 DEF CommitFiles, GiveUp, FInv, FrontTypeOK
<1>2. CASE UNCHANGED frontVars
  BY <1>2 DEF frontVars, FInv, FrontTypeOK
<1> QED
  BY <1>1, <1>2, EditPanelStep, EditSourceStep, EditRoutesStep, PlanStep, StageStep DEF FrontNext

LEMMA FInvMeans == FInv => FrontInv
<1> SUFFICES ASSUME FInv PROVE FrontInv
  OBVIOUS
<1>1. ASSUME live # None, NEW port, NEW name
      PROVE  LET to == Handle(live, Ask(port, name, "site", 0, name)) IN
             /\ live.settings.cloudflare => to.kind \notin {"panel", "sub"}
             /\ to.kind = "panel" => name = Panel
             /\ to.kind = "sub" => name = Sub
  <2> DEFINE q == Ask(port, name, "site", 0, name)
  <2>1. q.tls /\ q.from = "elsewhere" /\ q.sni = name
    BY DEF Ask
  <2>2. Named(live)
    BY <1>1 DEF FInv, Sound
  <2> HIDE DEF q
  <2>3. LET to == Handle(live, q) IN
        /\ live.settings.cloudflare => to.kind \notin {"panel", "sub"}
        /\ to.kind = "panel" => name = Panel
        /\ to.kind = "sub" => name = Sub
    BY <2>1, <2>2, HandleGuards
  <2> QED
    BY <2>3 DEF q
<1>2. Sheltered
  BY <1>1, Zenon DEF Sheltered
<1>3. ListenersApart /\ FirewallFits
  BY DEF FInv, Sound, ListenersApart, FirewallFits
<1> QED
  BY <1>2, <1>3 DEF FInv, FrontInv

(***************************************************************************)
(* Whatever inbounds the panel holds, however they and the saved plan are  *)
(* changed: the panel and the subscription answer to their own names only, *)
(* and to nobody but Cloudflare when that was asked for; the listeners the *)
(* frontend opens for itself have ports of their own; and the firewall     *)
(* admits what the frontend listens on and nothing that is internal.       *)
(***************************************************************************)
THEOREM FrontendInvariant == FrontSpec => []FrontInv
<1>1. FInv /\ [FrontNext]_frontVars => FInv'
  BY FInvStep
<1> QED
  BY <1>1, FInvInit, FInvMeans, PTL DEF FrontSpec

(***************************************************************************)
(* Whatever else is published on the same ports: a client that comes by a  *)
(* name of its inbound reaches that inbound, through whichever listeners   *)
(* the frontend has put before it.                                         *)
(***************************************************************************)
THEOREM ClientsReachTheirs == FrontSpec => []VpnReaches
<1>1. FInv /\ [FrontNext]_frontVars => FInv'
  BY FInvStep
<1>2. FInv => VpnReaches
  BY DEF FInv, Sound, VpnReaches
<1> QED
  BY <1>1, <1>2, FInvInit, PTL DEF FrontSpec

(***************************************************************************)
(* A browser that opens a domain whose site the acceptance asks for gets   *)
(* that site, or the server of the inbound that serves one itself.         *)
(***************************************************************************)
THEOREM BrowsersGetSites == FrontSpec => []BrowserGetsSite
<1>1. FInv /\ [FrontNext]_frontVars => FInv'
  BY FInvStep
<1>2. FInv => BrowserGetsSite
  BY DEF FInv, Sound, BrowserGetsSite
<1> QED
  BY <1>1, <1>2, FInvInit, PTL DEF FrontSpec

=============================================================================
