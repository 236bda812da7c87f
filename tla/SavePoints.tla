------------------------------ MODULE SavePoints ------------------------------
(***************************************************************************)
(* What applying and rolling back promise, without files, receipts or      *)
(* backups: every apply saves what is there, and undoing it gives back the *)
(* saved value of every path that nobody else has touched since.           *)
(*                                                                         *)
(* Nothing is promised of a path that somebody else touched, and nothing   *)
(* at all once an undo has been interrupted or refused half way.           *)
(***************************************************************************)
EXTENDS Naturals, Sequences

CONSTANTS
    Paths,
    Contents

VARIABLES
    now,       \* [Paths -> Contents]
    past,      \* the save points, the latest last: [now, edited]
    open,      \* an apply has saved and not ended
    edited,    \* the paths somebody else touched since the latest save point
    broken     \* an undo has stopped half way

vars == <<now, past, open, edited, broken>>

Init ==
    /\ now \in [Paths -> Contents]
    /\ past = <<>> /\ open = FALSE /\ edited = {} /\ broken = FALSE

Save ==
    /\ ~open
    /\ past' = Append(past, [now |-> now, edited |-> edited])
    /\ open' = TRUE /\ edited' = {}
    /\ UNCHANGED <<now, broken>>

\* An apply writes what it likes, and may end with that.
Work ==
    /\ open
    /\ now' \in [Paths -> Contents]
    /\ UNCHANGED <<past, open, edited, broken>>

Commit ==
    /\ open
    /\ now' \in [Paths -> Contents]
    /\ open' = FALSE
    /\ UNCHANGED <<past, edited, broken>>

\* Undoing the latest apply, whether it has ended or not.
Undo ==
    /\ past # <<>>
    /\ LET saved == past[Len(past)] IN
       /\ now' \in [Paths -> Contents]
       /\ \A x \in Paths \ edited : now'[x] = saved.now[x]
       /\ past' = SubSeq(past, 1, Len(past) - 1)
       /\ edited' = edited \cup saved.edited
    /\ open' = FALSE
    /\ UNCHANGED broken

\* Others touch some paths, or what they have put there comes to light.
Edit(S) ==
    /\ now' \in [Paths -> Contents]
    /\ \A x \in Paths \ S : now'[x] = now[x]
    /\ edited' = edited \cup S
    /\ UNCHANGED <<past, open, broken>>

Break == broken \/ broken'

Next == Break \/ Save \/ Work \/ Commit \/ Undo \/ \E S \in SUBSET Paths : Edit(S)

Spec == Init /\ [][Next]_vars

=============================================================================
