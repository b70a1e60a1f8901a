--------------------------- MODULE MCAgentRuntime ---------------------------
(* AgentRuntime on small sets of model values.                             *)
EXTENDS AgentRuntime, FiniteSets, TLC

Symmetry == Permutations(Flow) \cup Permutations(Approval) \cup Permutations(Run)

\* One run meets a crash and a fault, or pauses twice; or two runs, the second
\* one a retry, meet neither.
OneComplication ==
  LET runs == {r \in Run : status[r] # "absent"}
      pauses == {a \in Approval : apState[a] # "absent"}
  IN  /\ Cardinality(runs) > 1 => faults + crashes = 0 /\ pauses = {}
      /\ Cardinality(pauses) > 1 => faults + crashes = 0
=============================================================================
