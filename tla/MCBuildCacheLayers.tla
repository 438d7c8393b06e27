-------------------------- MODULE MCBuildCacheLayers --------------------------
(* Two actions that compile to one output or to two; base files may rest four  *)
(* ticks, scratch files two.                                                   *)
EXTENDS BuildCacheLayers, TLC

MCCompilations == [Actions -> Outputs]
MCTouch == [l \in Layers |-> IF l = "base" THEN 2 ELSE 1]
Symmetry == Permutations(Actions) \cup Permutations(Outputs)

===============================================================================
