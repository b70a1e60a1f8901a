-------------------------- MODULE MCEventPipeline --------------------------
(* EventPipeline on small sets of model values.                            *)
EXTENDS EventPipeline

Symmetry == Permutations(Client)
=============================================================================
