-------------------------- MODULE MCEngineSessions --------------------------
(* Three processes: one at work, one that planned before, one that is        *)
(* refused, waits or overtakes.                                              *)
EXTENDS EngineSessions

CONSTANTS p1, p2, p3

Order == [k \in AllKinds |->
            CASE k = "reconfigure" -> 1 [] k = "repair" -> 2 [] k = "renewal" -> 3
              [] k = "resume" -> 4 [] k = "sync" -> 5 [] k = "dns" -> 6]

\* Every mix of operations; the processes are alike, so that their order does not matter.
MCCommands ==
    {k \in [{p1, p2, p3} -> AllKinds] : Order[k[p1]] <= Order[k[p2]] /\ Order[k[p2]] <= Order[k[p3]]}

=============================================================================
