------------------------- MODULE MCFunctionalStaging -------------------------
(* Three events at most, each at any step of the run, out of one change of    *)
(* a source, two interventions in the private trees, one fault.               *)
EXTENDS FunctionalStaging
=============================================================================
