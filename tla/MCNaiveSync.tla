---------------------------- MODULE MCNaiveSync ----------------------------
(***************************************************************************)
(* Two managed inbounds: the source of "r" is routed through Xray and      *)
(* differs in every generation, that of "d" is direct and does not.        *)
(***************************************************************************)
EXTENDS NaiveSync

MCRank == [t \in {"d", "r"} |-> IF t = "d" THEN 1 ELSE 2]

MCRendered == [d |-> [g \in Gens |-> "d0"], r |-> [g \in Gens |-> <<"r0", "r1", "r2">>[g + 1]]]

=============================================================================
