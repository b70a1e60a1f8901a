--------------------------- MODULE MCSkillRunner ---------------------------
(* SkillRunner on small sets of model values.                              *)
EXTENDS SkillRunner, TLC

Symmetry == Permutations(Exec \ Deaf)
=============================================================================
