------------------------------ MODULE MCApplyRun ------------------------------
(* Small instances of ApplyRun. *)
EXTENDS ApplyRun

\* A frontend with a sidecar and copies, then one with Nginx and without them.
MCPlans ==
    <<[kind |-> "apply", wants |-> {"haproxy", "sidecar", "naive", "trusttunnel"}, hook |-> FALSE,
       publishes |-> TRUE],
      [kind |-> "apply", wants |-> {"nginx", "haproxy", "firewall"}, hook |-> TRUE,
       publishes |-> TRUE],
      [kind |-> "renewal", wants |-> {}, hook |-> TRUE, publishes |-> FALSE]>>

=============================================================================
