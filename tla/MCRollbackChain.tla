---------------------------- MODULE MCRollbackChain ----------------------------
(* A small instance of RollbackChain: three applies over one page, a service *)
(* file that the second one removes, and two fields of the database.         *)
EXTENDS RollbackChain, TLC

MCRank == ("cfg" :> 1) @@ ("dns" :> 2) @@ ("unit" :> 3) @@ ("state" :> 4) @@ ("page" :> 5)

First == [writes |-> ("cfg" :> "1") @@ ("dns" :> "1") @@ ("unit" :> "1") @@ ("page" :> "1"),
          drops |-> {},
          sets |-> ("domain" :> "1") @@ ("path" :> "1")]

Second == [writes |-> ("cfg" :> "2") @@ ("dns" :> "2") @@ ("page" :> "2"),
           drops |-> {"unit"},
           sets |-> ("domain" :> "2") @@ ("path" :> "1")]

Third == [writes |-> ("cfg" :> "3") @@ ("unit" :> "3"),
          drops |-> {},
          sets |-> ("path" :> "3")]

MCPlans == <<First, Second, Third>>

Fresh == [x \in Paths |-> IF x \in Cells \cup {"cfg"} THEN "0" ELSE "absent"]

MCStarts == {Fresh, [Fresh EXCEPT !["page"] = "0"]}

=============================================================================
