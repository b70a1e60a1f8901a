------------------------- MODULE MCContextAssembly -------------------------
(* Instances of ContextAssembly: limits small enough for three turns to    *)
(* reach, and room for some chunks but not for all.                        *)
EXTENDS ContextAssembly

Costs == [summary |-> 1, catalogue |-> 2, fixed |-> 2]
=============================================================================
